--------------------------- MODULE PayoutAccounts ---------------------------
(***************************************************************************)
(* The two UPI accounts of a worker's row: registration, updates and       *)
(* verifications (payouts.py, api/payouts.py, db.py), and which of them a  *)
(* payout is sent to.  A verification reads the row and, in a later        *)
(* statement, marks the slot, whatever account it holds by then.           *)
(***************************************************************************)
EXTENDS FiniteSets

CONSTANTS
    UpiIds,       \* accounts, well formed or not
    WellFormed,   \* those _UPI_PATTERN matches
    DefaultUpi,   \* upsert_worker's phone@saatdin
    AccountVerifiers,   \* requests to verify
    NoUpi, NoCheck

ASSUME PayoutAccountsAssumption ==
    /\ WellFormed \subseteq UpiIds
    /\ DefaultUpi \in WellFormed
    /\ NoUpi \notin UpiIds

Slots == {"primary", "backup"}

VARIABLES
    accounts,   \* the row's account and verified flag of each slot
    check,      \* a verification under way: its slot and what it read
    confirmed,  \* history: accounts a verification of the slot has read
    swapped     \* history: slots marked after their account was replaced

accountVars == <<accounts, check, confirmed, swapped>>

Account == [upi : UpiIds \cup {NoUpi}, verified : BOOLEAN]

AccountsTypeOK ==
    /\ accounts \in [Slots -> Account]
    /\ check \in [AccountVerifiers ->
           [slot : Slots, upi : UpiIds] \cup {NoCheck}]
    /\ confirmed \in [Slots -> SUBSET UpiIds]
    /\ swapped \subseteq Slots

AccountsInit ==
    /\ accounts = [s \in Slots |-> [upi |-> NoUpi, verified |-> FALSE]]
    /\ check = [v \in AccountVerifiers |-> NoCheck]
    /\ confirmed = [s \in Slots |-> {}]
    /\ swapped = {}

(* upsert_worker: a new row gets the default account, already verified; a  *)
(* row that has a primary account keeps it and its flag (COALESCE).        *)
UpsertWorker ==
    /\ accounts' = IF accounts["primary"].upi # NoUpi THEN accounts
                   ELSE [accounts EXCEPT !["primary"] =
                            [upi |-> DefaultUpi, verified |-> TRUE]]
    /\ UNCHANGED <<check, confirmed, swapped>>

Registered == accounts["primary"].upi # NoUpi

(* Mutant of UpdateAccount: the account is replaced, its flag is not.      *)
UpdateAccount_FlagKept(s, u) ==
    /\ Registered
    /\ u \in WellFormed
    /\ accounts' = [accounts EXCEPT ![s].upi = u]
    /\ swapped' = swapped \ {s}
    /\ UNCHANGED <<check, confirmed>>

(* update_upi_account: the account and its flag, in one statement.         *)
UpdateAccount(s, u) ==
    /\ Registered
    /\ u \in WellFormed
    /\ accounts' = [accounts EXCEPT ![s] = [upi |-> u, verified |-> FALSE]]
    /\ swapped' = swapped \ {s}
    /\ UNCHANGED <<check, confirmed>>

(* verify_upi_account up to its write.                                     *)
ReadAccount(v, s) ==
    /\ check[v] = NoCheck
    /\ accounts[s].upi \in WellFormed
    /\ check' = [check EXCEPT ![v] = [slot |-> s, upi |-> accounts[s].upi]]
    /\ confirmed' = [confirmed EXCEPT ![s] = @ \cup {accounts[s].upi}]
    /\ UNCHANGED <<accounts, swapped>>

MarkVerified(v) ==
    /\ check[v] # NoCheck
    /\ LET s == check[v].slot IN
         /\ accounts' = [accounts EXCEPT ![s].verified = TRUE]
         /\ swapped' = IF accounts[s].upi = check[v].upi THEN swapped
                       ELSE swapped \cup {s}
    /\ check' = [check EXCEPT ![v] = NoCheck]
    /\ UNCHANGED confirmed

(* An exception or the end of the process between the two statements.      *)
DropCheck(v) ==
    /\ check[v] # NoCheck
    /\ check' = [check EXCEPT ![v] = NoCheck]
    /\ UNCHANGED <<accounts, confirmed, swapped>>

AccountsNext ==
    \/ UpsertWorker
    \/ \E s \in Slots, u \in UpiIds : UpdateAccount(s, u)
    \/ \E v \in AccountVerifiers :
         \/ \E s \in Slots : ReadAccount(v, s)
         \/ MarkVerified(v)
         \/ DropCheck(v)

AccountsSpec == AccountsInit /\ [][AccountsNext]_accountVars

Usable(s) == accounts[s].upi # NoUpi /\ accounts[s].verified

(* _preferred_upi: the slot a payout is sent to, if any.                   *)
PreferredSlot ==
    IF Usable("primary") THEN {"primary"}
    ELSE IF Usable("backup") THEN {"backup"} ELSE {}

-----------------------------------------------------------------------------
(* A payout is sent only to the account of registration or to one that a   *)
(* verification of its slot has read, unless the account was replaced      *)
(* between a verification's read and its write; and never to one that is   *)
(* not well formed, even then.                                             *)
PaidToConfirmed == \A s \in PreferredSlot :
    /\ accounts[s].upi \in WellFormed
    /\ accounts[s].upi \in confirmed[s] \cup {DefaultUpi} \/ s \in swapped
=============================================================================
