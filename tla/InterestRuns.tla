---------------------------- MODULE InterestRuns ----------------------------
(***************************************************************************)
(* The batches of handlers/finance.rs: `accrue` writes a day's interest of *)
(* every account into interest_accruals, `capitalise` pays a month's rows  *)
(* into the balances and takes the maintenance fee.  Each batch is one     *)
(* transaction under READ COMMITTED, which tells the core its totals in    *)
(* one document just before it commits.  Cron, an operator and a retry may *)
(* run the same batch at once, while the customers use their accounts.     *)
(*                                                                         *)
(* A run is keyed by what the request says: of a capitalisation that is the *)
(* period as it is written, and one month can be written in several ways.   *)
(*                                                                         *)
(* The row of EXTERNAL_CASH, the contra of every leg, is left out: batches  *)
(* that would wait for it go on here, and one that would die of it may.    *)
(***************************************************************************)
EXTENDS Sums, FiniteSets

CONSTANTS
    Deposits, Cards,        \* the accounts that bear interest; a card's balance is owed
    Days, Periods,          \* Periods: what a request may say for a month, "2026-07" or "2026-7"
    MonthRange,             \* month_range: the days of the month a period is parsed to
    Opening, Limit,         \* balances at first; overdraft_limit of a deposit
    AccruedBefore,          \* the rows of the days accrued at first
    InterestStep,           \* the balance that bears one unit of interest a day
    Fee, Waiver,            \* the maintenance fee, and the balance that waives it
    Workers, None,
    MaxBalance, MaxMoves, MaxFailures   \* bounds

ASSUME InterestAssumption ==
    /\ Deposits \cap Cards = {} /\ Days \cap Periods = {} /\ MonthRange \in [Periods -> SUBSET Days]
    /\ Opening \in [Deposits \cup Cards -> Int] /\ Limit \in [Deposits -> Nat]
    /\ AccruedBefore \in [(Deposits \cup Cards) \X Days -> Nat]
    /\ InterestStep \in Nat \ {0} /\ Fee \in Nat /\ Waiver \in Nat
    /\ \A S \in {Deposits, Cards, Days, Periods, Workers} : IsFiniteSet(S)
    /\ None \notin Workers \cup Days \cup Periods
    /\ {MaxBalance, MaxMoves, MaxFailures} \subseteq Nat

VARIABLES
    bal,          \* accounts.balance
    accrued,      \* interest_accruals.amount of an account and a day; 0 is no row
    capitalised,  \* the rows with capitalised = TRUE
    runs,         \* accrual_runs and capitalisation_runs: the keys that are there
    core,         \* the core's interest accounts, payable (deposits) and receivable
    lock,         \* who holds the row of an account
    pc, job, tx,  \* of each worker: where it is, its batch, its open transaction
    \* what the properties compare with: of an account and a period, interest paid
    \* in and fees taken; what the core was told by batches that never committed;
    \* and the bounded counters
    paid, fees, stray, moves, failures

db     == << bal, accrued, capitalised, runs, paid, fees >>
worker == << pc, job, tx >>
vars   == << db, core, lock, worker, stray, moves, failures >>

Books == Deposits \cup Cards
Rows  == Books \X Days
Sides == {"deposit", "card"}
On(side) == IF side = "deposit" THEN Deposits ELSE Cards

\* An open transaction: the side it works on and what is still due on it; the
\* rows it inserted, the rows it marked, what it moved, the fees it took, the
\* totals it will tell the core; whether its key is in a run table, and told.
NoTx == [side |-> "deposit", due |-> [a \in Books |-> 0], rows |-> [a \in Books |-> 0],
         marks |-> {}, delta |-> [a \in Books |-> 0], charged |-> {},
         total |-> [s \in Sides |-> 0], keyed |-> FALSE, told |-> FALSE]

Init ==
    /\ bal = Opening
    /\ accrued = AccruedBefore /\ capitalised = {}
    /\ runs = {d \in Days : \E a \in Books : AccruedBefore[<<a, d>>] > 0}
    /\ core = [s \in Sides |-> SumOver(On(s) \X Days, AccruedBefore)]
    /\ stray = [s \in Sides |-> 0]
    /\ lock = [a \in Books |-> None]
    /\ pc = [w \in Workers |-> "idle"] /\ job = [w \in Workers |-> None]
    /\ tx = [w \in Workers |-> NoTx]
    /\ paid = [x \in Books \X Periods |-> 0] /\ fees = [x \in Deposits \X Periods |-> 0]
    /\ moves = 0 /\ failures = 0

\* daily_interest, of a rate at which InterestStep bears one unit.
DailyInterest(b) == IF b <= 0 THEN 0 ELSE b \div InterestStep
\* maintenance_due and the fee floor, on a balance that was read.
FeeDue(a, b) == IF b >= Waiver \/ b - Fee < -Limit[a] THEN 0 ELSE Fee

View(w, a) == bal[a] + tx[w].delta[a]
Interest(t, a) == t.delta[a] + IF a \in t.charged THEN Fee ELSE 0
Free(w, a) == lock[a] \in {None, w}
Month(w)   == Books \X MonthRange[job[w]]
Unpaid(w)  == {r \in Month(w) : accrued[r] > 0 /\ r \notin capitalised}
Ours(w)    == {v \in Workers \ {w} : job[v] = job[w]}

At(w, where) == pc[w] = where
Go(w, t, where) == /\ tx' = [tx EXCEPT ![w] = t] /\ pc' = [pc EXCEPT ![w] = where]
Unlocked(w) == [a \in Books |-> IF lock[a] = w THEN None ELSE lock[a]]

\* The transaction ends without a commit; the core keeps what it was told.
Sign(w) == IF job[w] \in Days THEN 1 ELSE -1
Told(w, s) == IF tx[w].told THEN Sign(w) * tx[w].total[s] ELSE 0
Rollback(w) ==
    /\ lock' = Unlocked(w) /\ Go(w, NoTx, "idle") /\ job' = [job EXCEPT ![w] = None]
    /\ stray' = [s \in Sides |-> stray[s] + Told(w, s)]
    /\ UNCHANGED << db, core, moves >>

\* Mutant: the core is told before the run row is inserted.
ToldFirst(step) ==
    CASE step = "batch" -> "post"  [] step = "post" -> "run"  [] step = "run" -> "commit"
\* How a batch closes.
After(step) ==
    CASE step = "batch" -> "run"  [] step = "run" -> "post"  [] step = "post" -> "commit"
-----------------------------------------------------------------------------
(* Both batches. *)

\* A batch already in its run table is answered from it; else BEGIN.
Call(w, j) ==
    /\ At(w, "idle") /\ j \notin runs
    /\ job' = [job EXCEPT ![w] = j]
    /\ Go(w, NoTx, IF j \in Days THEN "read" ELSE "sum")
    /\ UNCHANGED << db, core, lock, stray, moves, failures >>

\* Mutant: a key that is there is left alone (ON CONFLICT DO NOTHING).
InsertRunAgain(w) ==
    /\ At(w, "run") /\ \A v \in Ours(w) : ~tx[v].keyed
    /\ Go(w, [tx[w] EXCEPT !.keyed = TRUE], After("run"))
    /\ UNCHANGED << db, core, lock, job, stray, moves, failures >>

\* Mutant: a key that is there is waited for.
InsertRunWaits(w) ==
    /\ At(w, "run") /\ job[w] \notin runs /\ \A v \in Ours(w) : ~tx[v].keyed
    /\ Go(w, [tx[w] EXCEPT !.keyed = TRUE], After("run"))
    /\ UNCHANGED << db, core, lock, job, stray, moves, failures >>

\* The run row: its key waits for a batch that has just inserted it, and fails
\* on one that is there.
InsertRun(w) ==
    /\ At(w, "run") /\ \A v \in Ours(w) : ~tx[v].keyed
    /\ \/ /\ job[w] \in runs
          /\ Rollback(w) /\ UNCHANGED failures
       \/ /\ job[w] \notin runs
          /\ Go(w, [tx[w] EXCEPT !.keyed = TRUE], After("run"))
          /\ UNCHANGED << db, core, lock, job, stray, moves, failures >>

\* post_balanced: one document with the totals of both sides.
Post(w) ==
    /\ At(w, "post")
    /\ core' = [s \in Sides |-> core[s] + Sign(w) * tx[w].total[s]]
    /\ Go(w, [tx[w] EXCEPT !.told = TRUE], After("post"))
    /\ UNCHANGED << db, lock, job, stray, moves, failures >>

Commit(w) ==
    LET t == tx[w] IN
    /\ At(w, "commit")
    /\ bal' = [a \in Books |-> View(w, a)]
    /\ accrued' = [r \in Rows |-> IF r[2] = job[w] /\ t.rows[r[1]] > 0
                                  THEN t.rows[r[1]] ELSE accrued[r]]
    /\ capitalised' = capitalised \cup t.marks
    /\ runs' = runs \cup {job[w]}
    /\ paid' = [x \in Books \X Periods |-> paid[x] +
                   IF x[2] = job[w] THEN Interest(t, x[1]) ELSE 0]
    /\ fees' = [x \in Deposits \X Periods |->
                   fees[x] + IF x[2] = job[w] /\ x[1] \in t.charged THEN 1 ELSE 0]
    /\ lock' = Unlocked(w) /\ Go(w, NoTx, "idle") /\ job' = [job EXCEPT ![w] = None]
    /\ UNCHANGED << core, stray, moves, failures >>

\* A crash, a cancelled request, a core that refuses (503) or whose answer is lost.
Fail(w) ==
    /\ ~At(w, "idle") /\ failures < MaxFailures
    /\ failures' = failures + 1 /\ Rollback(w)
-----------------------------------------------------------------------------
(* accrue *)

\* SELECT the balances of a side, as they are committed now.
ReadBalances(w) ==
    /\ At(w, "read")
    /\ Go(w, [tx[w] EXCEPT !.due = [a \in Books |->
                 IF a \in On(tx[w].side) THEN DailyInterest(bal[a]) ELSE 0]], "insert")
    /\ UNCHANGED << db, core, lock, job, stray, moves, failures >>

\* INSERT ... ON CONFLICT DO NOTHING waits for a row another batch has open, and
\* skips one that is there; the total counts it all the same.
InsertRows(w) ==
    LET t == tx[w]  S == On(t.side) IN
    /\ At(w, "insert")
    /\ \A v \in Ours(w), a \in S : t.due[a] > 0 => tx[v].rows[a] = 0
    /\ Go(w, [t EXCEPT !.rows = [a \in Books |->
                           IF a \in S /\ accrued[<<a, job[w]>>] = 0 THEN t.due[a] ELSE @[a]],
                       !.total[t.side] = SumOver(S, t.due),
                       !.side = "card"],
          IF t.side = "deposit" THEN "read" ELSE After("batch"))
    /\ UNCHANGED << db, core, lock, job, stray, moves, failures >>
-----------------------------------------------------------------------------
(* capitalise *)

\* What is left of the side's accounts, then the other side, then the marking.
Pays(w, t) ==
    IF \E a \in Books : t.due[a] > 0 THEN Go(w, t, "pay")
    ELSE IF t.side = "deposit" THEN Go(w, [t EXCEPT !.side = "card"], "sum")
    ELSE Go(w, t, "mark")

\* SELECT SUM(amount) of a side's rows, as they are committed now.
SumDue(w) ==
    LET Sum(a) == SumOver({r \in Unpaid(w) : r[1] = a}, accrued) IN
    /\ At(w, "sum")
    /\ Pays(w, [tx[w] EXCEPT !.due = [a \in Books |->
                   IF a \in On(tx[w].side) THEN Sum(a) ELSE 0]])
    /\ UNCHANGED << db, core, lock, job, stray, moves, failures >>

\* One account's interest: zero_available takes the row's lock, the leg adds to
\* the balance the row has by then.
Pay(w) ==
    /\ At(w, "pay")
    /\ \E a \in Books :
          /\ tx[w].due[a] > 0 /\ Free(w, a)
          /\ lock' = [lock EXCEPT ![a] = w]
          /\ Pays(w, [tx[w] EXCEPT !.due[a] = 0, !.delta[a] = @ + tx[w].due[a],
                                   !.total[tx[w].side] = @ + tx[w].due[a]])
    /\ UNCHANGED << db, core, job, stray, moves, failures >>

\* w waits for v: for an account's row, or for rows of the month v has marked,
\* under whichever key.
WaitsFor(w, v) ==
    \/ pc[w] \in {"pay", "charge"} /\ \E a \in Books : tx[w].due[a] > 0 /\ lock[a] = v
    \/ At(w, "mark") /\ Unpaid(w) \cap tx[v].marks # {}

\* UPDATE ... SET capitalised = TRUE of the month's rows there are by now.
Mark(w) ==
    /\ At(w, "mark")
    /\ ~\E v \in Workers \ {w} : WaitsFor(w, v)
    /\ Go(w, [tx[w] EXCEPT !.marks = Unpaid(w)], "fees")
    /\ UNCHANGED << db, core, lock, job, stray, moves, failures >>

Charges(w, t) == Go(w, t, IF \E a \in Books : t.due[a] > 0 THEN "charge" ELSE After("batch"))

\* The balances the fee is decided on, its own payments included.
ReadFees(w) ==
    /\ At(w, "fees")
    /\ Charges(w, [tx[w] EXCEPT !.due = [a \in Books |->
                      IF a \in Deposits THEN FeeDue(a, View(w, a)) ELSE 0]])
    /\ UNCHANGED << db, core, lock, job, stray, moves, failures >>

\* One account's fee, from the balance the row has by then: below the overdraft
\* limit chk_available_balance_logical refuses it, and the batch with it.
Charge(w) ==
    /\ At(w, "charge")
    /\ \E a \in Deposits :
          /\ tx[w].due[a] > 0 /\ Free(w, a)
          /\ \/ /\ View(w, a) - Fee < -Limit[a]
                /\ Rollback(w)
             \/ /\ View(w, a) - Fee >= -Limit[a]
                /\ lock' = [lock EXCEPT ![a] = w]
                /\ Charges(w, [tx[w] EXCEPT !.due[a] = 0, !.delta[a] = @ - Fee,
                                            !.charged = @ \cup {a}])
                /\ UNCHANGED << db, core, job, stray, moves >>
    /\ UNCHANGED failures

\* PostgreSQL ends one of two transactions that wait for each other: two batches,
\* or a batch that has EXTERNAL_CASH from the account before and a movement that
\* has the next account and takes cash last.
HoldsCash(w) == \E a \in Books : tx[w].delta[a] # 0
Victim(w) ==
    /\ \/ \E v \in Workers \ {w} : WaitsFor(w, v) /\ WaitsFor(v, w)
       \/ pc[w] \in {"pay", "charge"} /\ HoldsCash(w)
    /\ Rollback(w) /\ UNCHANGED failures
-----------------------------------------------------------------------------
\* A customer's movement, or a purchase, under the lock of the account.
Move(a, n) ==
    /\ moves < MaxMoves /\ lock[a] = None
    /\ bal[a] + n <= MaxBalance
    /\ bal[a] + n >= IF a \in Deposits THEN -Limit[a] ELSE 0
    /\ bal' = [bal EXCEPT ![a] = @ + n]
    /\ moves' = moves + 1
    /\ UNCHANGED << accrued, capitalised, runs, paid, fees, core, lock, worker,
                    stray, failures >>

Accruing(w)     == ReadBalances(w) \/ InsertRows(w)
Capitalising(w) == SumDue(w) \/ Pay(w) \/ Mark(w) \/ ReadFees(w) \/ Charge(w) \/ Victim(w)
Running(w) == Accruing(w) \/ Capitalising(w) \/ InsertRun(w) \/ Post(w) \/ Commit(w)

Next ==
    \/ \E w \in Workers, j \in Days \cup Periods : Call(w, j)
    \/ \E w \in Workers : Running(w) \/ Fail(w)
    \/ \E a \in Books, n \in {1, -1} : Move(a, n)

Spec == Init /\ [][Next]_vars
LiveSpec == Spec /\ \A w \in Workers : SF_vars(Running(w))
-----------------------------------------------------------------------------
(* Properties. *)

TypeOK ==
    /\ bal \in [Books -> Int] /\ accrued \in [Rows -> Nat] /\ capitalised \subseteq Rows
    /\ runs \subseteq Days \cup Periods /\ core \in [Sides -> Int]
    /\ lock \in [Books -> Workers \cup {None}]
    /\ job \in [Workers -> Days \cup Periods \cup {None}]
    /\ paid \in [Books \X Periods -> Nat] /\ fees \in [Deposits \X Periods -> Nat]

PaidRows(a, D) == SumOver({r \in capitalised : r[1] = a /\ r[2] \in D}, accrued)

\* However often and however concurrently a period is capitalised under one and
\* the same spelling, no interest is paid that no row of its month stands for,
\* and the maintenance fee is taken once.
PaidOncePerPeriod ==
    /\ \A x \in Books \X Periods : paid[x] <= PaidRows(x[1], MonthRange[x[2]])
    /\ \A x \in Deposits \X Periods : fees[x] <= 1

\* The same of a month, however its period is written.  The code does not give
\* this: under a second spelling the fee is taken again, and interest is paid
\* again while neither batch has committed.
PaidOncePerMonth ==
    \A p \in Periods :
        LET Same == {q \in Periods : MonthRange[q] = MonthRange[p]} IN
        /\ \A a \in Books : SumOver({a} \X Same, paid) <= PaidRows(a, MonthRange[p])
        /\ \A a \in Deposits : SumOver({a} \X Same, fees) <= 1

\* The core's interest accounts are the rows accrued and not paid, with what
\* batches that failed after they told it have left there.  That is nothing when
\* nothing failed: a batch that loses to another on a key has told it nothing.
CoreTiesToRows ==
    \A s \in Sides :
        LET flying == SumOver(Workers, [w \in Workers |-> Told(w, s)])
            rows   == SumOver(On(s) \X Days, accrued)
        IN  /\ core[s] = rows - SumOver(On(s) \X Periods, paid) + stray[s] + flying
            /\ failures = 0 => stray[s] = 0

\* What is marked as paid has been paid in: of the rows of a month, capitalise
\* marks those it summed.
MarkedIsPaid == \A a \in Books : SumOver({a} \X Periods, paid) = PaidRows(a, Days)

\* A batch under way ends: batches that wait for each other's keys, rows and
\* accounts do not wait for ever.
EveryBatchEnds == \A w \in Workers : ~At(w, "idle") ~> At(w, "idle")
=============================================================================
