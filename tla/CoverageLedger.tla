-------------------------- MODULE CoverageLedger ---------------------------
(***************************************************************************)
(* What the billing service promises the rest of the system: a ledger of   *)
(* weekly coverage.  An order is placed for one slot (a worker and a       *)
(* week), its coverage becomes active at most once, ends at most once and  *)
(* for good, no slot is covered twice at a time, and each of the two       *)
(* changes is announced in the outbox in the same step.                    *)
(***************************************************************************)
EXTENDS Integers

CONSTANTS Orders, Slots, NoSlot

VARIABLES slot,     \* what each order was placed for
          cover,    \* NONE, ACTIVE or REVOKED
          notices   \* announcements of each kind, by order

vars == <<slot, cover, notices>>

Init ==
    /\ slot = [o \in Orders |-> NoSlot]
    /\ cover = [o \in Orders |-> "NONE"]
    /\ notices = [o \in Orders |-> [activated |-> 0, revoked |-> 0]]

Place(o, s) ==
    /\ slot[o] = NoSlot
    /\ slot' = [slot EXCEPT ![o] = s]
    /\ UNCHANGED <<cover, notices>>

Activate(o) ==
    /\ slot[o] # NoSlot
    /\ cover[o] = "NONE"
    /\ \A x \in Orders : cover[x] = "ACTIVE" => slot[x] # slot[o]
    /\ cover' = [cover EXCEPT ![o] = "ACTIVE"]
    /\ notices' = [notices EXCEPT ![o] =
           [activated |-> @.activated + 1, revoked |-> @.revoked]]
    /\ UNCHANGED slot

(* A refund may be announced again: see RevokedOnce in Billing.            *)
Revoke(o) ==
    /\ cover[o] # "NONE"
    /\ cover' = [cover EXCEPT ![o] = "REVOKED"]
    /\ notices' = [notices EXCEPT ![o] =
           [activated |-> @.activated, revoked |-> @.revoked + 1]]
    /\ UNCHANGED slot

Next == \E o \in Orders :
    \/ \E s \in Slots : Place(o, s)
    \/ Activate(o)
    \/ Revoke(o)

Spec == Init /\ [][Next]_vars
=============================================================================
