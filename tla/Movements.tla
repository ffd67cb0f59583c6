----------------------------- MODULE Movements -----------------------------
(***************************************************************************)
(* The money-movement endpoints of handlers/transactions.rs, deposit,      *)
(* withdrawal, transfer and reversal, as scripts over the subledger, and   *)
(* what any number of them running at once must keep true.                 *)
(*                                                                         *)
(* A task of Moves says what one call asks for: its kind, the accounts     *)
(* debited (from) and credited (to), the amount, and the `transactions`    *)
(* row it is about (txn): the row a keyed transfer inserts, or the one a   *)
(* reversal undoes, whose own kind is `of`.                                *)
(***************************************************************************)
EXTENDS Subledger, Sums

CONSTANTS
    Moves,       \* Moves[t]: the call that task t stands for
    Cash,        \* the EXTERNAL_CASH account
    Rank,        \* the order of the account ids
    TransferFee, \* finance_config().transfer_fee
    NoKey        \* txn of a call that sends no idempotency key

Kinds == {"deposit", "withdrawal", "transfer", "reversal"}

Move == [kind : Kinds, of : Kinds, from : Accounts, to : Accounts,
         amt : Nat, txn : Docs \cup {NoKey}]

ASSUME MovesAssumption ==
    /\ Moves \in [Tasks -> Move]
    /\ Cash \in Accounts /\ Rank \in [Accounts -> Nat] /\ TransferFee \in Nat
    /\ NoKey \notin Docs
    /\ \A t \in Tasks : Moves[t].from # Moves[t].to /\ Moves[t].amt > 0

\* The tables are finite, and no two accounts have one id.
ASSUME IdsAssumption ==
    /\ IsFiniteSet(Rows)
    /\ \A a, b \in Accounts : Rank[a] = Rank[b] => a = b

\* The other side of a deposit and of a withdrawal is EXTERNAL_CASH, a reversal
\* names what it undoes, and those are the counters of account_limits.
ASSUME SidesAssumption ==
    /\ \A t \in Tasks :
         /\ Moves[t].kind = "deposit" => Moves[t].from = Cash
         /\ Moves[t].kind = "withdrawal" => Moves[t].to = Cash
         /\ Moves[t].kind = "reversal" =>
              /\ Moves[t].txn \in Docs /\ Moves[t].of # "reversal"
              /\ Moves[t].of = "deposit" => Moves[t].from = Cash
              /\ Moves[t].of = "withdrawal" => Moves[t].to = Cash
    /\ Meters \subseteq {"withdrawal", "transfer"}

\* The rows as an account is opened and these endpoints leave it: no card hold on
\* it, and what is available derived from the balance, for cash never.
ASSUME OpeningAssumption ==
    \A a \in Accounts :
        /\ OpeningRow[a].held = 0
        /\ a = Cash => OpeningRow[a].avail = 0
        /\ a # Cash => /\ OpeningRow[a].avail = OpeningRow[a].bal + Overdraft[a]
                       /\ OpeningRow[a].avail >= 0

-----------------------------------------------------------------------------
(* Parts of the scripts. *)

LocksOf(order) == [i \in DOMAIN order |-> Do("lock", order[i], 0)]

\* Mutant: EXTERNAL_CASH takes its place in the order of the ids.
CashById(a, b) == IF Rank[b] < Rank[a] THEN <<b, a>> ELSE <<a, b>>

\* lock_accounts_cash_last for two accounts: by id, and EXTERNAL_CASH last.
CashLast(a, b) ==
    IF b # Cash /\ (a = Cash \/ Rank[b] < Rank[a]) THEN <<b, a>> ELSE <<a, b>>

\* post_two_legged: one INSERT of two rows, the trigger firing on each in turn.
PostTwoLegged(debit, credit, n) ==
    << Do("read", debit, 0),  Do("write", debit, -n),
       Do("read", credit, 0), Do("write", credit, n) >>

OfCustomer(op, a) == IF a = Cash THEN << >> ELSE << Do(op, a, 0) >>

\* Mutants: no set_available_zero before the debit; only the payer's available
\* balance recomputed after it.
PostUnfloored(debit, credit, n, glPost) ==
    PostTwoLegged(debit, credit, n)
        \o OfCustomer("recompute", debit) \o OfCustomer("recompute", credit)
        \o glPost
PostForPayerOnly(debit, credit, n, glPost) ==
    OfCustomer("floor", debit)
        \o PostTwoLegged(debit, credit, n)
        \o OfCustomer("recompute", debit)
        \o glPost

\* post_movement, with the statements of its optional GL effect.
PostMovement(debit, credit, n, glPost) ==
    OfCustomer("floor", debit)
        \o PostTwoLegged(debit, credit, n)
        \o OfCustomer("recompute", debit) \o OfCustomer("recompute", credit)
        \o glPost

\* A GL entry, by what it adds to the CustomerDeposits liability.
Deposits(n) == << Do("gl", NoOne, n) >>

Keyed(m, s) == IF m.txn = NoKey THEN << >> ELSE << s >>

Ends == << Do("commit", NoOne, 0) >>

-----------------------------------------------------------------------------
(* The handlers. *)

\* Mutant: the shared cash account is not locked.
DepositCashUnlocked(m) ==
    LocksOf(<<m.to>>) \o PostMovement(Cash, m.to, m.amt, Deposits(m.amt)) \o Ends

Deposit(m) ==
    LocksOf(CashLast(m.to, Cash))
        \o PostMovement(Cash, m.to, m.amt, Deposits(m.amt))
        \o Ends

Withdraw(m) ==
    LocksOf(CashLast(m.from, Cash))
        \o << Do("funds", m.from, m.amt),
              OnMeter("limit", m.from, m.amt, "withdrawal") >>
        \o PostMovement(m.from, Cash, m.amt, Deposits(-m.amt))
        \o << OnMeter("use", m.from, m.amt, "withdrawal") >>
        \o Ends

ChargeFee(m) ==
    IF TransferFee = 0 THEN << >>
    ELSE PostMovement(m.from, Cash, TransferFee, Deposits(-TransferFee))

Transfer(m) ==
    Keyed(m, OnDoc("find", m.txn, Blank, Blank))
        \o LocksOf(Append(CashLast(m.from, m.to), Cash))
        \o << Do("funds", m.from, m.amt + TransferFee),
              OnMeter("limit", m.from, m.amt, "transfer") >>
        \o Keyed(m, OnDoc("insert", m.txn, Absent, "completed"))
        \o PostMovement(m.from, m.to, m.amt, << >>)
        \o ChargeFee(m)
        \o << OnMeter("use", m.from, m.amt, "transfer") >>
        \o Ends

\* Mutant: the GL entry is posted again in its original direction.
RepeatGL(m) ==
    CASE m.of = "deposit"    -> Deposits(m.amt)
      [] m.of = "withdrawal" -> Deposits(-m.amt)
      [] OTHER               -> << >>

\* The mirror of the original's GL post; a transfer posted none.
UndoGL(m) ==
    CASE m.of = "deposit"    -> Deposits(-m.amt)
      [] m.of = "withdrawal" -> Deposits(m.amt)
      [] OTHER               -> << >>

\* Mutant: the legs of the original are posted again instead of swapped.
ReverseUnswapped(m) ==
    << OnDoc("expect", m.txn, "completed", Blank) >>
        \o LocksOf(CashLast(m.from, m.to))
        \o << OnDoc("mark", m.txn, "completed", "reversed") >>
        \o (IF m.from = Cash THEN << >> ELSE << Do("funds", m.from, m.amt) >>)
        \o PostMovement(m.from, m.to, m.amt, UndoGL(m))
        \o Ends

Reverse(m) ==
    LET debit == m.to  credit == m.from IN
        << OnDoc("expect", m.txn, "completed", Blank) >>
            \o LocksOf(CashLast(debit, credit))
            \o << OnDoc("mark", m.txn, "completed", "reversed") >>
            \o (IF debit = Cash THEN << >>
                ELSE << Do("funds", debit, m.amt) >>)
            \o PostMovement(debit, credit, m.amt, UndoGL(m))
            \o Ends

ScriptOf(m) ==
    CASE m.kind = "deposit"    -> Deposit(m)
      [] m.kind = "withdrawal" -> Withdraw(m)
      [] m.kind = "transfer"   -> Transfer(m)
      [] m.kind = "reversal"   -> Reverse(m)

ASSUME ScriptsAssumption == Script = [t \in Tasks |-> ScriptOf(Moves[t])]
-----------------------------------------------------------------------------
(* Properties. *)

Posted == {r \in Requests : outcome[r] = "posted"}
Customers == Accounts \ {Cash}
Gained == [x \in Customers |-> row[x].bal - OpeningRow[x].bal]

\* A customer's available balance is the balance plus the overdraft, and a
\* customer is never overdrawn past it; EXTERNAL_CASH keeps available at 0.
AvailableIsDerived ==
    /\ row[Cash].avail = 0
    /\ \A x \in Customers :
         /\ row[x].avail = row[x].bal + Overdraft[x]
         /\ row[x].avail >= 0

\* The core agrees with the subledger on what the bank owes its customers:
\* the posted documents add up to the change in the customers' balances.
CustomersTieToGL == SumOver(Customers, Gained) = SumOver(Posted, gl)

-----------------------------------------------------------------------------
(* The abstract ledger these handlers implement. *)

Net(m) ==
    LET backwards == m.kind = "reversal"
        fee == IF m.kind = "transfer" THEN TransferFee ELSE 0
        out == IF backwards THEN m.to ELSE m.from
        in  == IF backwards THEN m.from ELSE m.to
    IN  [x \in Accounts |->
            (IF x = in THEN m.amt ELSE 0) - (IF x = out THEN m.amt + fee ELSE 0)
                + (IF x = Cash THEN fee ELSE 0)]

Consumes(m) ==
    [x \in Accounts |->
        [meter \in Meters |->
            IF x = m.from /\ m.kind = meter THEN m.amt ELSE 0]]

Effects == [t \in Tasks |-> Net(Moves[t])]
Consumptions == [t \in Tasks |-> Consumes(Moves[t])]
Made == [t \in Tasks |->
            IF Moves[t].kind = "transfer" THEN {Moves[t].txn} \ {NoKey} ELSE {}]
Undone == [t \in Tasks |-> IF Moves[t].kind = "reversal" THEN {Moves[t].txn} ELSE {}]

Abstract == INSTANCE AtomicLedger WITH
    Opening    <- [x \in Accounts |-> OpeningRow[x].bal],
    OpeningUse <- [x \in Accounts |-> OpeningRow[x].used],
    Lowest     <- [x \in Accounts |-> -Overdraft[x]],
    Effect     <- Effects,
    Use        <- Consumptions,
    Makes      <- Made,
    Undoes     <- Undone,
    bal        <- [x \in Accounts |-> row[x].bal],
    used       <- [x \in Accounts |-> row[x].used],
    status     <- doc,
    posted     <- [r \in Requests |-> IF outcome[r] = "posted" THEN task[r] ELSE NoTask]

\* Whatever statements of other requests, aborts and retries fall between its
\* first and its last statement, a handler that answers with success has done
\* its whole movement at once, and one that does not has done nothing.
ImplementsAtomicLedger == Abstract!Spec
=============================================================================
