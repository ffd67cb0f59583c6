------------------------------- MODULE Loans -------------------------------
(***************************************************************************)
(* Loans, handlers/loans.rs: a loan's account is below zero by what is     *)
(* owed on it.  A loan is Absent, "pending", "active" or "closed"; its     *)
(* other row says whether the day's interest is "due" or "accrued".        *)
(***************************************************************************)
EXTENDS Rails

CONSTANTS
    LoanSet, AccruedToday,        \* AccruedToday[l]: the other row of loan l
    LoanAccount, Principal, Interest,  \* of l; the interest of a day
    AccountId,                    \* the order in which rows are locked
    LoanCash, LoanCalls, LoanCall

\* A call about a loan: with is the account it is paid to or repaid from.
LoanKinds == {"apply", "disburse", "repay", "accrue"}
LoanCallType == [kind : LoanKinds, l : LoanSet, with : Accounts, amt : Nat]
LoanAccounts == {LoanAccount[l] : l \in LoanSet}

ASSUME LoansAssumption ==
    /\ LoanCall \in [LoanCalls -> LoanCallType]
    /\ LoanSet \subseteq Docs /\ AccruedToday \in [LoanSet -> Docs]
    /\ LoanAccount \in [LoanSet -> Accounts] /\ AccountId \in [Accounts -> Nat]
    /\ LoanCash \in SystemAccounts \cap Accounts
    /\ Principal \in [LoanSet -> Nat \ {0}] /\ Interest \in [LoanSet -> Nat \ {0}]

\* Each loan has rows of its own, and it is paid out to a chequing or savings
\* account.  An active loan opens with a debt; the account of one that was never
\* paid out has nothing available, whatever its overdraft.
ASSUME LoanRows ==
    /\ IsFiniteSet(Requests) /\ IsFiniteSet(LoanSet)
    /\ {"pending", "active", "closed", "due", "accrued"} \subseteq STRING \ {Absent}
    /\ IsInjective(LoanAccount) /\ IsInjective(AccruedToday)
    /\ LoanCash \notin LoanAccounts
    /\ \A l, m \in LoanSet : AccruedToday[l] # m
    /\ \A l \in LoanSet :
         IF OpeningDoc[l] = "active" THEN OpeningRow[LoanAccount[l]].bal < 0
                                     ELSE OpeningRow[LoanAccount[l]].bal = 0
    /\ \A l \in LoanSet : OpeningDoc[l] \in {Absent, "pending"} =>
                           OpeningRow[LoanAccount[l]].avail = 0
    /\ \A t \in LoanCalls :
         LoanCall[t].kind = "disburse" => LoanCall[t].with \notin LoanAccounts
-----------------------------------------------------------------------------
(* The role of the core that is followed is Receivable. *)

\* The two accounts in the order of their ids.
LockBoth(c) ==
    LET a == Do("lock", LoanAccount[c.l], 0)  b == Do("lock", c.with, 0)
    IN  IF AccountId[LoanAccount[c.l]] < AccountId[c.with] THEN << a, b >> ELSE << b, a >>

\* apply_for_loan: the loan's account is inserted, empty and with nothing
\* available, then the loan.
Apply(c) ==
    << Do("floor", LoanAccount[c.l], 0), OnDoc("insert", c.l, Absent, "pending") >>
        \o Completed

Disburse(c) ==
    LET a == LoanAccount[c.l]  n == Principal[c.l] IN
        << OnDoc("expect", c.l, "pending", Blank) >> \o LockBoth(c)
            \o << Do("floor", a, 0) >> \o TwoLegs(a, c.with, n)
            \o Refreshed(a) \o Refreshed(c.with)
            \o << OnDoc("mark", c.l, "pending", "active") >> \o Core(n) \o Completed

\* The account is active: that of a loan is while the loan is.
IsOpen(a) ==
    IF a \in LoanAccounts
    THEN << OnDoc("expect", CHOOSE l \in LoanSet : LoanAccount[l] = a, "active", Blank) >>
    ELSE << >>

\* Mutant: the core is told of one unit, whatever is paid.
PayUnit(c, n, tag, then) ==
    LET from == c.with  to == LoanAccount[c.l] IN
        << Do("floor", from, 0),
           Do("read", from, 0), OnMeter("write", from, -n, tag),
           Do("read", to, 0),   OnMeter("write", to, n, tag) >>
            \o Refreshed(from) \o Refreshed(to) \o then \o Core(-1)

\* The posting of a repayment of n, or of all that is owed (times the net).
Pay(c, n, tag, then) ==
    LET from == c.with  to == LoanAccount[c.l] IN
        << Do("floor", from, 0),
           Do("read", from, 0), OnMeter("write", from, -n, tag),
           Do("read", to, 0),   OnMeter("write", to, n, tag) >>
            \o Refreshed(from) \o Refreshed(to) \o then
            \o << OnMeter("gl", NoOne, -n, tag) >>

\* A loan on which nothing is owed any more is closed.
CloseIfPaid(l) ==
    IfElse(LoanAccount[l], "owes", 0, << >>, << OnDoc("set", l, Blank, "closed") >>)

\* repay_loan: of an amount larger than the debt only the debt is taken.  What
\* kind of account pays is not asked.
Repay(c) ==
    << OnDoc("expect", c.l, "active", Blank) >> \o IsOpen(c.with) \o LockBoth(c)
        \o IsOpen(c.with) \o << Do("funds", c.with, c.amt) >>
        \o IfElse(LoanAccount[c.l], "owes", c.amt,
                  Pay(c, c.amt, Blank, << >>),
                  << Do("net", LoanAccount[c.l], 0) >> \o Pay(c, 1, ByNet, CloseIfPaid(c.l)))
        \o Completed

\* Mutant: the day's interest is charged whatever is owed by now.
AccrueAnyway(c) ==
    LET a == LoanAccount[c.l]  n == Interest[c.l] IN
        << OnDoc("expect", c.l, "active", Blank), Do("lock", a, 0), Do("lock", LoanCash, 0),
           OnDoc("mark", AccruedToday[c.l], "due", "accrued"), Do("floor", a, 0) >>
            \o TwoLegs(a, LoanCash, n) \o Refreshed(a) \o Core(n) \o Completed

\* admin_accrue_interest, for one of the loans its first read has found active:
\* the day is claimed and, when nothing is owed by now, given back.
Accrue(c) ==
    LET a == LoanAccount[c.l]  n == Interest[c.l] IN
        << OnDoc("expect", c.l, "active", Blank), Do("lock", a, 0), Do("lock", LoanCash, 0),
           OnDoc("mark", AccruedToday[c.l], "due", "accrued"),
           Do("net", a, 0), Do("floor", a, 0) >>
            \o TwoLegs(a, LoanCash, n) \o Refreshed(a) \o Core(n) \o Completed

LoanScript(c) ==
    CASE c.kind = "apply"    -> Apply(c)
      [] c.kind = "disburse" -> Disburse(c)
      [] c.kind = "repay"    -> Repay(c)
      [] c.kind = "accrue"   -> Accrue(c)

ASSUME LoanScripts ==
    /\ LoanCalls \subseteq Tasks
    /\ \A t \in LoanCalls : Script[t] = LoanScript(LoanCall[t])
-----------------------------------------------------------------------------
(* Properties. *)

\* How often loan l was paid out, or charged its interest.
Times(kind, l) ==
    Cardinality({r \in Requests : /\ outcome[r] = "posted" /\ task[r] \in LoanCalls
                                  /\ LoanCall[task[r]].kind = kind
                                  /\ LoanCall[task[r]].l = l})

\* A loan's status tells whether money is owed on it: repayments, the day's
\* interest and the disbursement may race, and none leaves a debt on a closed
\* loan, or an active loan without one.  A loan is paid out once, and costs its
\* interest once a day, whoever retries or runs the accrual twice.
StatusTellsDebt ==
    \A l \in LoanSet :
        /\ doc[l] = "active" => row[LoanAccount[l]].bal < 0
        /\ doc[l] # "active" => row[LoanAccount[l]].bal = 0
        /\ Times("disburse", l) <= 1 /\ Times("accrue", l) <= 1

\* An account can be drawn on only through what is available, and that follows
\* the loan: nothing until it is paid out, then the balance and the overdraft,
\* refreshed by whoever moves the balance, as of every other customer's account.
\* The rails' own accounts keep theirs at 0.
NotPaidOut == {LoanAccount[l] : l \in {m \in LoanSet : doc[m] \in {Absent, "pending"}}}
AvailableFollowsLoan ==
    \A a \in Accounts :
        row[a].avail = IF a \in SystemAccounts \cup NotPaidOut THEN 0
                       ELSE row[a].bal + Overdraft[a]

\* The repayments that a loan's account pays: a debt only moves.
PaidByLoans == {t \in LoanCalls : LoanCall[t].kind = "repay" /\ LoanCall[t].with \in LoanAccounts}
OwedSince ==
    SumOver(LoanSet, [l \in LoanSet |-> OpeningRow[LoanAccount[l]].bal - row[LoanAccount[l]].bal])

\* What the customers owe grows by what the core's Receivable is told of, of a
\* repayment larger than the debt only the debt; of the repayments that a loan's
\* account pays the core is told all the same, and Receivable falls short of
\* what is owed by just these.
ReceivableIsOwed == OwedSince = PostedFor(LoanCalls \ PaidByLoans)

\* Without that exception: false of this code, which asks no more of the account
\* that pays than that it is the customer's and open.
ReceivableIsAllOwed == OwedSince = PostedFor(LoanCalls)

\* loans.rs:107-110, of a loan's account: its "balance goes negative by
\* principal (plus accruing interest over the life of the loan)", and "customers
\* never operate on this account directly".
DebtIsLent ==
    \A l \in LoanSet :
        OpeningRow[LoanAccount[l]].bal - row[LoanAccount[l]].bal
            <= Times("disburse", l) * Principal[l] + Times("accrue", l) * Interest[l]
=============================================================================
