------------------------------- MODULE Escrow -------------------------------
(***************************************************************************)
(* What a payment rail promises its customers: the money of a payment is   *)
(* in one place at any time.  It is the payer's until the payment is       *)
(* accepted, then in escrow until it is delivered, or goes back, or stays  *)
(* there for good; each of these happens once, moves the payment's amount  *)
(* and no other money but the fee of the payer.                            *)
(*                                                                         *)
(* There are no statements, locks, retries or crashes here; Interac shows  *)
(* that the handlers of e-Transfers, with all of those, implement this.    *)
(***************************************************************************)
EXTENDS Integers

CONSTANTS
    Payments, Accounts,
    Payer,      \* Payer[p]: the account the money of payment p comes from
    Payees,     \* Payees[p]: the accounts it may be delivered to
    Amt,        \* Amt[p]
    EscrowAccount, FeeAccount, Fee,
    Opening     \* Opening[p]: where it is at first

VARIABLES place, books

Places == {"none", "escrow", "delivered", "returned", "blocked"}

Init ==
    /\ place = Opening
    /\ books = [a \in Accounts |-> 0]

Moved(from, to, n) ==
    [a \in Accounts |-> (IF a = to THEN n ELSE 0) - (IF a = from THEN n ELSE 0)]
Book(entries, fees) ==
    books' = [a \in Accounts |-> books[a] + entries[a] + fees[a]]
NoFee == [a \in Accounts |-> 0]
FeeOf(p) == Moved(Payer[p], FeeAccount, Fee)

Goes(p, from, to) ==
    /\ place[p] = from
    /\ place' = [place EXCEPT ![p] = to]

Accept(p) ==
    /\ Goes(p, "none", "escrow")
    /\ \E fees \in {NoFee, FeeOf(p)} :
         Book(Moved(Payer[p], EscrowAccount, Amt[p]), fees)

\* To a payee who takes payments without being asked.
DeliverAtOnce(p, a) ==
    /\ Goes(p, "none", "delivered")
    /\ \E fees \in {NoFee, FeeOf(p)} : Book(Moved(Payer[p], a, Amt[p]), fees)

Deliver(p, a) ==
    /\ Goes(p, "escrow", "delivered")
    /\ Book(Moved(EscrowAccount, a, Amt[p]), NoFee)

Return(p) ==
    /\ Goes(p, "escrow", "returned")
    /\ Book(Moved(EscrowAccount, Payer[p], Amt[p]), NoFee)

Block(p) ==
    /\ Goes(p, "escrow", "blocked")
    /\ UNCHANGED books

\* Every action changes the place of its payment; saying so first spares TLC work.
Next ==
    \E p \in {q \in Payments : place'[q] # place[q]} :
        \/ Accept(p) \/ Return(p) \/ Block(p)
        \/ \E a \in Payees[p] : DeliverAtOnce(p, a) \/ Deliver(p, a)

Spec == Init /\ [][Next]_<<place, books>>
=============================================================================
