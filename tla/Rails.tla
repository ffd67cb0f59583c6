------------------------------- MODULE Rails -------------------------------
(***************************************************************************)
(* The verbs every external rail is built from (rails/common.rs), as       *)
(* pieces of the scripts of the rails' handlers.  A rail has two system    *)
(* accounts: clearing, which carries the money in flight, and settlement,  *)
(* which stands for the network.                                           *)
(*                                                                         *)
(* The verbs lock nothing: what they post to is read and written by the    *)
(* balance trigger alone, so a handler has locked the customer's account   *)
(* or it has not, and no handler has locked the rail's accounts.           *)
(***************************************************************************)
EXTENDS Subledger, Sums

CONSTANT SystemAccounts   \* the bank's own rows: those of the rails, EXTERNAL_CASH

Rail == [clearing : Accounts, settlement : Accounts]

\* One INSERT of the two entries, the trigger firing on each in turn.
TwoLegs(debit, credit, n) ==
    << Do("read", debit, 0),  Do("write", debit, -n),
       Do("read", credit, 0), Do("write", credit, n) >>

\* A GL entry, by what it adds to the one role of the core a module follows.
Core(n) == << Do("gl", NoOne, n) >>

Completed == << Do("commit", NoOne, 0) >>

\* hold, release, refund and accept_inbound, which tell the core that n moved;
\* g is what that adds to the role followed.
HoldFor(rail, from, n, g) == TwoLegs(from, rail.clearing, n) \o Core(g)
ReleaseTo(rail, to, n, g) == TwoLegs(rail.clearing, to, n) \o Core(g)
RefundTo(rail, from, n, g) == TwoLegs(rail.clearing, from, n) \o Core(g)
AcceptInbound(rail, to, n, g) == TwoLegs(rail.settlement, to, n) \o Core(g)

\* The debit of a customer under the lock of fetch_account_for_update: the
\* funds, and available at zero before the legs.
Funded(a, n) == << Do("lock", a, 0), Do("funds", a, n), Do("floor", a, 0) >>
Refreshed(a) == << Do("recompute", a, 0) >>
-----------------------------------------------------------------------------
\* A customer's available balance is the balance plus the overdraft.  The rails'
\* accounts, whose debits set nothing aside, keep theirs at 0.
AvailableIsDerived ==
    \A a \in Accounts :
        row[a].avail = IF a \in SystemAccounts THEN 0 ELSE row[a].bal + Overdraft[a]

\* What properties about amounts add up: those of the rows at some status, and
\* what the core has recorded for requests that have committed.
TotalAt(Amt, S, statuses) ==
    SumOver(S, [d \in S |-> IF doc[d] \in statuses THEN Amt[d] ELSE 0])
TotalAtFirst(Amt, S, statuses) ==
    SumOver(S, [d \in S |-> IF OpeningDoc[d] \in statuses THEN Amt[d] ELSE 0])
Gained(Amt, S, statuses) == TotalAt(Amt, S, statuses) - TotalAtFirst(Amt, S, statuses)
PostedFor(calls) ==
    SumOver(Requests, [r \in Requests |->
                IF outcome[r] = "posted" /\ task[r] \in calls THEN gl[r] ELSE 0])
=============================================================================
