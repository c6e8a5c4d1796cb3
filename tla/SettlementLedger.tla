-------------------------- MODULE SettlementLedger --------------------------
(***************************************************************************)
(* What claims and payouts promise the insured and the insurer: a book of  *)
(* claims, each of a worker and a day, that settles them and pays the      *)
(* settled ones.  A claim is paid once and for good, unless it is excused  *)
(* (it was settled again while its payout was under way, or that payout    *)
(* died after it had paid), and a worker is paid on no more days of a week *)
(* than the plan allows, but for waived claims, which lost their standing  *)
(* while or after they were paid.                                          *)
(***************************************************************************)
EXTENDS Integers, FiniteSets

CONSTANTS Entries, Workers, Days, Transfers, MaxDays, NoWorker, NoEntry

VARIABLES owner,      \* whom each entry is for
          day,        \* and for which day; day 0 is a Monday
          settled,    \* the entries that stand as settled
          underway,   \* the entries whose payout is under way
          payout,     \* the entry each transfer pays
          excused, waived

vars == <<owner, day, settled, underway, payout, excused, waived>>

Filed(e) == owner[e] # NoWorker
Paid(e) == \E t \in Transfers : payout[t] = e
Week(d) == d \div 7
PaidDays(w, k) ==
    {day[e] : e \in {x \in Entries \ waived :
        Paid(x) /\ owner[x] = w /\ Week(day[x]) = k}}

Init ==
    /\ owner = [e \in Entries |-> NoWorker]
    /\ day = [e \in Entries |-> 0]
    /\ payout = [t \in Transfers |-> NoEntry]
    /\ settled = {} /\ underway = {}
    /\ excused = {} /\ waived = {}

(* A claim is filed open, or settled with its payout under way.            *)
File(e, w, d) ==
    /\ ~Filed(e)
    /\ owner' = [owner EXCEPT ![e] = w]
    /\ day' = [day EXCEPT ![e] = d]
    /\ \/ UNCHANGED <<settled, underway>>
       \/ /\ settled' = settled \cup {e}
          /\ underway' = underway \cup {e}
    /\ UNCHANGED <<payout, excused, waived>>

Settle(e) ==
    /\ Filed(e)
    /\ settled' = settled \cup {e}
    /\ underway' = underway \cup {e}
    /\ excused' = IF e \in underway THEN excused \cup {e} ELSE excused
    /\ UNCHANGED <<owner, day, payout, waived>>

Unsettle(e) ==
    /\ Filed(e)
    /\ settled' = settled \ {e}
    /\ waived' = IF Paid(e) \/ e \in underway THEN waived \cup {e} ELSE waived
    /\ UNCHANGED <<owner, day, underway, payout, excused>>

Pay(e, t) ==
    /\ e \in underway
    /\ payout[t] = NoEntry
    /\ Paid(e) => e \in excused
    /\ \/ e \in waived
       \/ /\ e \in settled
          /\ Cardinality(PaidDays(owner[e], Week(day[e])) \cup {day[e]})
               <= MaxDays[owner[e]]
    /\ payout' = [payout EXCEPT ![t] = e]
    /\ UNCHANGED <<owner, day, settled, underway, excused, waived>>

Finish(e) ==
    /\ underway' = underway \ {e}
    /\ UNCHANGED <<owner, day, settled, payout, excused, waived>>

(* A payout dies after it has paid; another one may still be under way.    *)
Die(e) ==
    /\ e \in underway /\ Paid(e)
    /\ underway' \in {underway, underway \ {e}}
    /\ excused' = excused \cup {e}
    /\ UNCHANGED <<owner, day, settled, payout, waived>>

Next == \E e \in Entries :
    \/ \E w \in Workers, d \in Days : File(e, w, d)
    \/ Settle(e) \/ Unsettle(e)
    \/ \E t \in Transfers : Pay(e, t)
    \/ Finish(e) \/ Die(e)

Spec == Init /\ [][Next]_vars
=============================================================================
