----------------------------- MODULE MCBilling -----------------------------
(***************************************************************************)
(* Values of the constants of Billing for TLC.                             *)
(***************************************************************************)
EXTENDS Billing, TLC

CONSTANTS w1, basic, premium

(* One worker, one week, one plan.                                         *)
OneRequest == {[worker |-> w1, plan |-> basic, amount |-> 39, week |-> 7]}

(* The same worker in two neighbouring weeks, at two prices.               *)
TwoWeeks ==
    {[worker |-> w1, plan |-> basic, amount |-> 39, week |-> 7],
     [worker |-> w1, plan |-> basic, amount |-> 35, week |-> 14]}

Symmetry == Permutations(Orders) \cup Permutations(EventIds)
            \cup Permutations(Payments) \cup Permutations(Handlers)
            \cup Permutations(Keys) \cup Permutations(Creators)
            \cup Permutations(Readers)
=============================================================================
