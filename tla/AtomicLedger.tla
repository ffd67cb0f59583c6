---------------------------- MODULE AtomicLedger ----------------------------
(***************************************************************************)
(* What the money-movement endpoints promise: each request that is         *)
(* answered with success has moved its money in one indivisible step, no   *)
(* account it debits goes below its floor, a transaction record is made    *)
(* once and undone at most once, and no limit counter is overrun.          *)
(*                                                                         *)
(* There are no locks, statements, crashes or retries here; Movements      *)
(* shows that the handlers, with all of those, implement this.             *)
(***************************************************************************)
EXTENDS Integers

CONSTANTS
    Requests, Accounts, Docs, Meters, Tasks, NoTask, Absent,
    Opening,    \* Opening[a]: the first balances
    OpeningUse, \* OpeningUse[a][m]: the first limit counters
    OpeningDoc, \* OpeningDoc[d]: the first status of each record
    Lowest,     \* Lowest[a]: the balance a debit must leave at least
    Limit,      \* Limit[a][m]
    Effect,     \* Effect[t][a]: what task t adds to a's balance
    Use,        \* Use[t][a][m]: what it adds to a's counter m
    Makes,      \* the records task t creates
    Undoes      \* the records task t reverses

VARIABLES bal, used, status, posted

ledgerVars == <<bal, used, status, posted>>

Init ==
    /\ bal = Opening
    /\ used = OpeningUse
    /\ status = OpeningDoc
    /\ posted = [r \in Requests |-> NoTask]

Affordable(t) ==
    \A a \in Accounts :
        Effect[t][a] < 0 => bal[a] + Effect[t][a] >= Lowest[a]

WithinLimits(t) ==
    \A a \in Accounts, m \in Meters :
        Use[t][a][m] > 0 => used[a][m] + Use[t][a][m] <= Limit[a][m]

Post(r, t) ==
    /\ posted[r] = NoTask
    /\ Affordable(t)
    /\ WithinLimits(t)
    /\ \A d \in Makes[t] : status[d] = Absent
    /\ \A d \in Undoes[t] : status[d] = "completed"
    /\ bal' = [a \in Accounts |-> bal[a] + Effect[t][a]]
    /\ used' = [a \in Accounts |-> [m \in Meters |-> used[a][m] + Use[t][a][m]]]
    /\ status' = [d \in Docs |-> IF d \in Makes[t] THEN "completed"
                                 ELSE IF d \in Undoes[t] THEN "reversed"
                                 ELSE status[d]]
    /\ posted' = [posted EXCEPT ![r] = t]

Next == \E r \in Requests, t \in Tasks : Post(r, t)

Spec == Init /\ [][Next]_ledgerVars
=============================================================================
