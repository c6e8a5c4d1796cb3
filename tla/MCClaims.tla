------------------------------ MODULE MCClaims ------------------------------
(***************************************************************************)
(* Values of the constants of Claims for TLC.                              *)
(***************************************************************************)
EXTENDS Claims, TLC

CONSTANT w1

(* PROJECT_INFO.md: 2 days a week in the Basic plan.                       *)
Basic == w1 :> 2

Symmetry == Permutations(ClaimIds) \cup Permutations(TransferIds)
            \cup Permutations(EscalationIds) \cup Permutations(Admins)
            \cup Permutations(Monitors) \cup Permutations(Forcers)
            \cup Permutations(Submitters) \cup Permutations(Escalators)
=============================================================================
