---------------------------- MODULE BackendProofs ----------------------------
(***************************************************************************)
(* The parts of the backend side by side: whatever part moves, every part  *)
(* behaves as its own specification says, so what is proved of a part      *)
(* holds of the whole.                                                     *)
(***************************************************************************)
EXTENDS MCBackend, WorkerProofs, AlertProofs, ScoringProofs, CoClaimsProofs

(* A step of the whole is a step of one part, and leaves the others alone. *)
LEMMA PolicyMovesAlone == [Next]_vars => [PolicyNext]_polVars
  BY DEF Next, vars, PolicyMoves, OtpMoves, AccountsMove, ReportsMove, TriggersMove,
         CoClaimsMove, UploadsMove, ScoringMoves
LEMMA OtpMovesAlone == [Next]_vars => [OtpNext]_otpVars
  BY DEF Next, vars, PolicyMoves, OtpMoves, AccountsMove, ReportsMove, TriggersMove,
         CoClaimsMove, UploadsMove, ScoringMoves
LEMMA AccountsMoveAlone == [Next]_vars => [AccountsNext]_accountVars
  BY DEF Next, vars, PolicyMoves, OtpMoves, AccountsMove, ReportsMove, TriggersMove,
         CoClaimsMove, UploadsMove, ScoringMoves
LEMMA ReportsMoveAlone == [Next]_vars => [ZoneLockNext]_reportVars
  BY DEF Next, vars, PolicyMoves, OtpMoves, AccountsMove, ReportsMove, TriggersMove,
         CoClaimsMove, UploadsMove, ScoringMoves
LEMMA TriggersMoveAlone == [Next]_vars => [TriggersNext]_triggerVars
  BY DEF Next, vars, PolicyMoves, OtpMoves, AccountsMove, ReportsMove, TriggersMove,
         CoClaimsMove, UploadsMove, ScoringMoves
LEMMA CoClaimsMoveAlone == [Next]_vars => [CoClaimsNext]_coClaimVars
  BY DEF Next, vars, PolicyMoves, OtpMoves, AccountsMove, ReportsMove, TriggersMove,
         CoClaimsMove, UploadsMove, ScoringMoves
(* Uploads move with the scoring they are read by.                         *)
LEMMA ScoringMovesAlone == [Next]_vars => [ScoringNext]_scoringVars
  BY DEF Next, vars, PolicyMoves, OtpMoves, AccountsMove, ReportsMove, TriggersMove,
         CoClaimsMove, UploadsMove, ScoringMoves, ScoringNext

(* The whole implements every part: the specification of each is what the  *)
(* backend shows of it.                                                    *)
THEOREM PartsAreImplemented ==
    Spec => /\ PolicySpec /\ OtpSpec /\ AccountsSpec /\ ZoneLockSpec
            /\ TriggersSpec /\ CoClaimsSpec /\ ScoringSpec
<1>1. Init => /\ PolicyInit /\ OtpInit /\ AccountsInit /\ ZoneLockInit
              /\ TriggersInit /\ CoClaimsInit /\ ScoringInit
  BY DEF Init
<1> QED
  BY <1>1, PolicyMovesAlone, OtpMovesAlone, AccountsMoveAlone, ReportsMoveAlone,
     TriggersMoveAlone, CoClaimsMoveAlone, ScoringMovesAlone, PTL
  DEF Spec, PolicySpec, OtpSpec, AccountsSpec, ZoneLockSpec, TriggersSpec, CoClaimsSpec,
      ScoringSpec

(* The focus never moves.                                                  *)
FocusKept == focus \in Focuses

(* Every variable of the part that moves has its type.                     *)
THEOREM BackendTyped == Spec => []TypeOK
<1>1. Spec => []FocusKept
  <2>1. Init => FocusKept
    BY DEF Init, FocusKept
  <2>2. FocusKept /\ [Next]_vars => FocusKept'
    BY DEF FocusKept, Next, vars, PolicyMoves, OtpMoves, AccountsMove, ReportsMove, TriggersMove,
           CoClaimsMove, UploadsMove, ScoringMoves
  <2> QED
    BY <2>1, <2>2, PTL DEF Spec
<1>2. RequestsKept => PolicyTypeOK
  BY DEF RequestsKept
<1>3. OtpInv => OtpTypeOK
  BY DEF OtpInv, CodesKept
<1>4. AccountsInv => AccountsTypeOK
  BY DEF AccountsInv
<1>5. MatchesKept => ZoneLockTypeOK
  BY DEF MatchesKept
<1>6. (FocusKept /\ PolicyTypeOK /\ OtpTypeOK /\ AccountsTypeOK /\ ZoneLockTypeOK
         /\ TriggersTypeOK /\ CoClaimsTypeOK /\ SignalsTypeOK /\ FraudTypeOK)
        => TypeOK
  BY DEF TypeOK, FocusKept
<1> QED
  BY <1>1, <1>2, <1>3, <1>4, <1>5, <1>6, PartsAreImplemented, PolicyIsTyped, OtpInvHolds,
     AccountsInvHolds, MatchesHold, TriggersTyped, CoClaimsTyped, ScoringTyped, PTL

(* What each part promises holds of the backend, whichever part moves:     *)
(* queued plans arrive, codes are guessed boundedly and spent once, payouts*)
(* go to confirmed accounts, alerts have their reports and their readings, *)
(* scores and reviews follow the newest signal, rings are whole, weeks are *)
(* bought ahead and risks decay.                                           *)
THEOREM PartsKeepTheirPromises ==
    Spec => /\ [](QueuedPlanKept /\ ShownIsReal)
            /\ [](GuessesBounded /\ DeliveredIsStored /\ CodeSpentOnce)
            /\ [](PaidToConfirmed /\ ConfirmedByTwo /\ SustainedForHours)
            /\ [](NewestSignalKept /\ JumpNeverRewarded /\ StaleIsNeutral)
            /\ [](ReviewOnlyNearThreshold /\ RingsAreWhole)
            /\ CoverageBoughtAhead /\ RiskDecays
  BY PartsAreImplemented, QueuedPlansArrive, WhatIsShownIsReal, CodesAreGuessedBoundedly,
     DeliveredCodesWork, CodesAreSpentOnce, PayoutsGoToConfirmedAccounts,
     ConfirmationsNeedTwoWorkers, AlertsAreSustained, NewestSignalStays,
     JumpsAreNeverRewarded, OldSignalsAreNeutral, ReviewsDecideNearThreshold,
     ComponentsAreRings, WeeksAreBoughtAhead, RisksDecay, PTL
=============================================================================
