----------------------------- MODULE MCBackend -----------------------------
(***************************************************************************)
(* The parts of the backend that share no state with each other, checked   *)
(* in one run: the focus, chosen at the start, is the part that moves.     *)
(* "signals" interleaves two uploads of positions as they are captured,    *)
(* with no metadata, which no step of theirs looks at; "scoring" files a   *)
(* claim beside one upload from the zone, which may be late.               *)
(***************************************************************************)
EXTENDS Policy, Otp, PayoutAccounts, ZoneLock, FraudScore, CoClaims, Triggers, TLC

CONSTANTS Focuses, x1, x2, v1, v2, z1, z2, bandh, rain, g1, g2, g3

VARIABLE focus

Cat == bandh :> bandh @@ rain :> NoCategory
Bucket == g1 :> 0 @@ g2 :> 0 @@ g3 :> 1
Cells == [cells |-> {[km |-> 8, dbm |-> -70], [km |-> 2, dbm |-> -90]}, hint |-> "none"]
Still == [window |-> 60, samples |-> 12, moving |-> 0, stationary |-> 60,
          distance |-> 10, speed |-> 0, top |-> 5]
Metadata == {Silent, [tower |-> Cells, motion |-> Still]}
Past(p, q) == {[rank |-> 1, place |-> p, at |-> 1, received |-> 1],
              [rank |-> 2, place |-> q, at |-> 2, received |-> 2]}
Trails == {{}, Past(0, 0), Past(0, 6000)}
Order == <<"aqi", "traffic">>
Polls == "aqi" :> 3 @@ "traffic" :> 1
Hours == "aqi" :> {0, 2, 3} @@ "traffic" :> 0..3
Scores == {-900, -100}
Level == -500
Symmetry == Permutations({x1, x2}) \cup Permutations({v1, v2}) \cup Permutations({z1, z2})

Idle(f, i) == focus # f => i
Init ==
    /\ focus \in Focuses
    /\ PolicyInit /\ Idle("policy", mode = "client" /\ PaidWeeks = {})
    /\ OtpInit /\ AccountsInit /\ ZoneLockInit /\ TriggersInit /\ CoClaimsInit
    /\ ScoringInit
    /\ Idle("scoring", engine = "missing" /\ failOpen)
    /\ CASE focus # "scoring" -> pings = Past(0, 0)
         [] focus = "scoring" /\ (engine = "disabled" \/ ~failOpen) -> pings = {}
         [] OTHER -> pings # Past(0, 0)

Begun == {upload'[First(u)] : u \in {v \in Uploads : upload'[First(v)].pc # "new"}}

PolicyMoves ==
    /\ focus = "policy"
    /\ PolicyNext
    /\ UNCHANGED <<focus, otpVars, accountVars, reportVars, triggerVars, coClaimVars, scoringVars>>
OtpMoves ==
    /\ focus = "otp"
    /\ OtpNext
    /\ UNCHANGED <<focus, polVars, accountVars, reportVars, triggerVars, coClaimVars, scoringVars>>
AccountsMove ==
    /\ focus = "accounts"
    /\ AccountsNext
    /\ UNCHANGED <<focus, polVars, otpVars, reportVars, triggerVars, coClaimVars, scoringVars>>
ReportsMove ==
    /\ focus = "zonelock"
    /\ ZoneLockNext
    /\ UNCHANGED <<focus, polVars, otpVars, accountVars, triggerVars, coClaimVars, scoringVars>>
TriggersMove ==
    /\ focus = "triggers"
    /\ TriggersNext
    /\ UNCHANGED <<focus, polVars, otpVars, accountVars, reportVars, coClaimVars, scoringVars>>
CoClaimsMove ==
    /\ focus = "co_claims"
    /\ CoClaimsNext
    /\ UNCHANGED <<focus, polVars, otpVars, accountVars, reportVars, triggerVars, scoringVars>>
UploadsMove ==
    /\ focus = "signals"
    /\ SignalsNext
    /\ \A call \in Begun : /\ call.telemetry = Silent /\ call.ping.place # NoPlace
                           /\ call.ping.at = call.ping.received
    /\ UNCHANGED <<focus, polVars, otpVars, accountVars, reportVars, triggerVars, coClaimVars, fraudVars>>
ScoringMoves ==
    /\ focus = "scoring"
    /\ ScoringNext
    /\ Cardinality({u \in Uploads : upload'[First(u)].pc # "new"}) <= 1
    /\ \A call \in Begun : call.ping.place # 6000
    /\ UNCHANGED <<focus, polVars, otpVars, accountVars, reportVars, triggerVars, coClaimVars>>

Next ==
    \/ PolicyMoves \/ OtpMoves \/ AccountsMove \/ ReportsMove
    \/ TriggersMove \/ CoClaimsMove \/ UploadsMove \/ ScoringMoves
vars == <<focus, polVars, otpVars, accountVars, reportVars, triggerVars, coClaimVars, scoringVars>>
Spec == Init /\ [][Next]_vars

(* The parts that do not move stay as some initial state has them.         *)
TypeOK ==
    /\ focus \in Focuses
    /\ focus = "policy" => PolicyTypeOK
    /\ focus = "otp" => OtpTypeOK
    /\ focus = "accounts" => AccountsTypeOK
    /\ focus = "zonelock" => ZoneLockTypeOK
    /\ focus = "triggers" => TriggersTypeOK
    /\ focus = "co_claims" => CoClaimsTypeOK
    /\ focus \in {"signals", "scoring"} => SignalsTypeOK /\ FraudTypeOK
=============================================================================
