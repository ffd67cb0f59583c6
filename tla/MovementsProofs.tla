-------------------------- MODULE MovementsProofs --------------------------
(***************************************************************************)
(* The money-movement endpoints, for any calls, accounts, fee and order of *)
(* the account ids.                                                        *)
(*                                                                         *)
(* First, their scripts keep the discipline of Subledger (whatever they    *)
(* post to is locked before the balance trigger reads it) and lock their   *)
(* rows along one order, so NoLostUpdate and NeverDeadlocks apply to them  *)
(* without a condition.                                                    *)
(*                                                                         *)
(* Then, they implement AtomicLedger: whatever falls between the           *)
(* statements of a handler, it has done its whole movement in one step     *)
(* when it answers with success, and nothing otherwise.  That argument has *)
(* two halves.  One runs each script alone and says what its statements    *)
(* add up to: a `Progress`, the rows it has locked, the entries and        *)
(* counters it has added, which available balances it has made stale and   *)
(* what it has found available.  The other shows that the drafts of an     *)
(* open transaction are the committed rows and its progress, whatever the  *)
(* other requests do.                                                      *)
(***************************************************************************)
EXTENDS Movements, SubledgerProofs, SumFacts

-----------------------------------------------------------------------------
(* The discipline of a piece of a script, given what is locked before it.  *)

Locks(s) == {s[i].row : i \in {j \in 1..Len(s) : s[j].op \in AccountWrites}}

DisciplinedAfter(s, locked) ==
    \A i \in 1..Len(s) :
        /\ s[i].op # "when"
        /\ s[i].op = "read" =>
             s[i].row \in locked
                 \/ \E j \in 1..i-1 : s[j].op \in AccountWrites /\ s[j].row = s[i].row
        /\ s[i].op = "write" =>
             i > 1 /\ s[i-1].op = "read" /\ s[i-1].row = s[i].row

\* A piece that begins with `locked` locked and leaves `held` locked at least.
Good(s, locked, held) ==
    /\ IsPiece(s)
    /\ DisciplinedAfter(s, locked)
    /\ held \subseteq locked \cup Locks(s)

LEMMA Concatenated ==
    ASSUME NEW s, NEW t, NEW L, NEW M, NEW N,
           Good(s, L, M), Good(t, M, N)
    PROVE  Good(s \o t, L, N)
  <1> DEFINE u == s \o t
  <1>1. PICK S : s \in Seq(S) /\ t \in Seq(S)
    <2>1. PICK A : s \in Seq(A)
      BY DEF Good, IsPiece
    <2>2. PICK B : t \in Seq(B)
      BY DEF Good, IsPiece
    <2>3. s \in Seq(A \cup B) /\ t \in Seq(A \cup B)
      BY <2>1, <2>2
    <2> QED
      BY <2>3
  <1>2. /\ u \in Seq(S) /\ Len(u) = Len(s) + Len(t)
        /\ Len(s) \in Nat /\ Len(t) \in Nat
        /\ \A i \in 1..Len(s) : u[i] = s[i]
        /\ \A i \in 1..Len(t) : u[Len(s) + i] = t[i]
    BY <1>1
  <1> HIDE DEF u
  <1>3. \A x \in L \cup Locks(s) : x \in L \/ \E j \in 1..Len(s) :
            u[j].op \in AccountWrites /\ u[j].row = x
    BY <1>2 DEF Locks
  <1>4. ASSUME NEW i \in 1..Len(u)
        PROVE  /\ u[i].op # "when"
               /\ u[i].op = "read" =>
                    u[i].row \in L
                        \/ \E j \in 1..i-1 : u[j].op \in AccountWrites /\ u[j].row = u[i].row
               /\ u[i].op = "write" =>
                    i > 1 /\ u[i-1].op = "read" /\ u[i-1].row = u[i].row
    <2>1. CASE i \in 1..Len(s)
      <3>1. \A j \in 1..i-1 : j \in 1..Len(s) /\ u[j] = s[j]
        BY <1>2, <2>1
      <3>2. u[i] = s[i] /\ (i > 1 => u[i-1] = s[i-1])
        BY <1>2, <2>1
      <3> QED
        BY <2>1, <3>1, <3>2 DEF Good, DisciplinedAfter
    <2>2. CASE i \notin 1..Len(s)
      <3> DEFINE k == i - Len(s)
      <3>1. k \in 1..Len(t) /\ u[i] = t[k]
        BY <1>2, <2>2
      <3>2. k > 1 => u[i-1] = t[k-1] /\ k-1 \in 1..Len(t)
        <4>1. k > 1 => k - 1 \in 1..Len(t) /\ Len(s) + (k - 1) = i - 1
          BY <1>2, <3>1
        <4> QED
          BY <1>2, <4>1
      <3>3. \A j \in 1..k-1 : Len(s) + j \in 1..i-1 /\ u[Len(s) + j] = t[j]
        BY <1>2, <3>1
      <3>4. 1..Len(s) \subseteq 1..i-1 /\ (k > 1 => i > 1)
        BY <1>2, <3>1, <2>2
      <3>5. M \subseteq L \cup Locks(s)
        BY DEF Good
      <3>6. t[k].op # "when"
        BY <3>1 DEF Good, DisciplinedAfter
      <3>7. ASSUME t[k].op = "read"
            PROVE  u[i].row \in L
                     \/ \E j \in 1..i-1 : u[j].op \in AccountWrites /\ u[j].row = u[i].row
        <4>1. t[k].row \in M
                \/ \E j \in 1..k-1 : t[j].op \in AccountWrites /\ t[j].row = t[k].row
          BY <3>1, <3>7 DEF Good, DisciplinedAfter
        <4>2. CASE t[k].row \in M
          BY <1>3, <3>1, <3>4, <3>5, <4>2
        <4>3. CASE \E j \in 1..k-1 : t[j].op \in AccountWrites /\ t[j].row = t[k].row
          BY <3>1, <3>3, <4>3
        <4> QED
          BY <4>1, <4>2, <4>3
      <3>8. ASSUME t[k].op = "write"
            PROVE  i > 1 /\ u[i-1].op = "read" /\ u[i-1].row = u[i].row
        <4>1. k > 1 /\ t[k-1].op = "read" /\ t[k-1].row = t[k].row
          BY <3>1, <3>8 DEF Good, DisciplinedAfter
        <4> QED
          BY <3>1, <3>2, <3>4, <4>1
      <3> QED
        BY <3>1, <3>6, <3>7, <3>8
    <2> QED
      BY <2>1, <2>2
  <1>5. Locks(s) \subseteq Locks(u) /\ Locks(t) \subseteq Locks(u)
    <2>1. \A j \in 1..Len(s) : j \in 1..Len(u)
      BY <1>2
    <2>2. \A j \in 1..Len(t) : Len(s) + j \in 1..Len(u)
      BY <1>2
    <2> QED
      BY <1>2, <2>1, <2>2 DEF Locks
  <1> QED
    BY <1>2, <1>4, <1>5 DEF Good, IsPiece, DisciplinedAfter, u
-----------------------------------------------------------------------------
(* The pieces. *)

LEMMA Nothing ==
    ASSUME NEW L PROVE Good(<< >>, L, L)
  <1>1. << >> \in Seq({}) /\ Len(<< >>) = 0
    OBVIOUS
  <1> QED
    BY <1>1 DEF Good, IsPiece, DisciplinedAfter

\* A statement the trigger has no part in.
LEMMA One ==
    ASSUME NEW x, x.op \notin {"when", "read", "write"}, NEW L
    PROVE  Good(<< x >>, L, L)
  <1> DEFINE s == << x >>
  <1>1. s \in Seq({x}) /\ Len(s) = 1 /\ s[1] = x
    OBVIOUS
  <1> HIDE DEF s
  <1>2. IsPiece(s)
    BY <1>1 DEF IsPiece
  <1>3. \A i \in 1..Len(s) : s[i] = x
    BY <1>1
  <1>4. DisciplinedAfter(s, L)
    BY <1>3 DEF DisciplinedAfter
  <1>5. Good(s, L, L)
    BY <1>2, <1>4 DEF Good
  <1> QED
    BY <1>5 DEF s

LEMMA OnAccount ==
    ASSUME NEW a, NEW n, NEW op, op \notin {"when", "read", "write"}, NEW L
    PROVE  Good(<< Do(op, a, n) >>, L, L)
  BY One DEF Do, Stmt

LEMMA OnAMeter ==
    ASSUME NEW a, NEW n, NEW m, NEW op, op \notin {"when", "read", "write"}, NEW L
    PROVE  Good(<< OnMeter(op, a, n, m) >>, L, L)
  BY One DEF OnMeter, Stmt

LEMMA OnStatus ==
    ASSUME NEW d, NEW was, NEW tag, NEW op, op \notin {"when", "read", "write"}, NEW L
    PROVE  Good(<< OnDoc(op, d, was, tag) >>, L, L)
  BY One DEF OnDoc, Stmt

LEMMA FundsAndLimit ==
    ASSUME NEW a, NEW n, NEW m, NEW k, NEW L
    PROVE  Good(<< Do("funds", a, n), OnMeter("limit", a, k, m) >>, L, L)
  <1> DEFINE x == Do("funds", a, n)  y == OnMeter("limit", a, k, m)
  <1>1. Good(<< x >>, L, L) /\ Good(<< y >>, L, L)
    BY OnAccount, OnAMeter
  <1> HIDE DEF x, y
  <1>2. << x, y >> = << x >> \o << y >>
    BY TwoOnes
  <1>3. Good(<< x, y >>, L, L)
    BY <1>1, <1>2, Concatenated
  <1> QED
    BY <1>3 DEF x, y

LEMMA ToCore ==
    ASSUME NEW n, NEW L
    PROVE  Good(Deposits(n), L, L) /\ Good(Ends, L, L)
  BY OnAccount DEF Deposits, Ends

LEMMA ForCustomer ==
    ASSUME NEW a, NEW op \in {"floor", "recompute"}, NEW L
    PROVE  Good(OfCustomer(op, a), L, L)
  BY Nothing, OnAccount DEF OfCustomer

\* The trigger's reads and writes, of two accounts that are locked.
LEMMA Legs ==
    ASSUME NEW debit, NEW credit, NEW n, NEW L, {debit, credit} \subseteq L
    PROVE  Good(PostTwoLegged(debit, credit, n), L, L)
  <1> DEFINE r == Do("read", debit, 0)  w == Do("write", debit, -n)
             q == Do("read", credit, 0) v == Do("write", credit, n)
             s == << r, w, q, v >>
  <1>1. /\ r.op = "read" /\ r.row = debit /\ w.op = "write" /\ w.row = debit
        /\ q.op = "read" /\ q.row = credit /\ v.op = "write" /\ v.row = credit
    BY DEF Do, Stmt
  <1>2. PostTwoLegged(debit, credit, n) = s
    BY DEF PostTwoLegged
  <1> HIDE DEF r, w, q, v
  <1>3. /\ s \in Seq({r, w, q, v}) /\ Len(s) = 4
        /\ s[1] = r /\ s[2] = w /\ s[3] = q /\ s[4] = v
    OBVIOUS
  <1> HIDE DEF s
  <1>4. DisciplinedAfter(s, L)
    <2> SUFFICES ASSUME NEW i \in 1..Len(s)
                 PROVE  /\ s[i].op # "when"
                        /\ s[i].op = "read" => s[i].row \in L
                        /\ s[i].op = "write" =>
                             i > 1 /\ s[i-1].op = "read" /\ s[i-1].row = s[i].row
      BY DEF DisciplinedAfter
    <2>1. i = 1 \/ i = 2 \/ i = 3 \/ i = 4
      BY <1>3
    <2> QED
      BY <1>1, <1>3, <2>1
  <1> QED
    BY <1>2, <1>3, <1>4 DEF Good, IsPiece

LEMMA Posting ==
    ASSUME NEW debit, NEW credit, NEW n, NEW L, {debit, credit} \subseteq L,
           NEW glPost, Good(glPost, L, L)
    PROVE  Good(PostMovement(debit, credit, n, glPost), L, L)
  <1>1. Good(OfCustomer("floor", debit) \o PostTwoLegged(debit, credit, n), L, L)
    BY ForCustomer, Legs, Concatenated
  <1>2. Good(OfCustomer("floor", debit) \o PostTwoLegged(debit, credit, n)
               \o OfCustomer("recompute", debit), L, L)
    BY <1>1, ForCustomer, Concatenated
  <1>3. Good(OfCustomer("floor", debit) \o PostTwoLegged(debit, credit, n)
               \o OfCustomer("recompute", debit) \o OfCustomer("recompute", credit), L, L)
    BY <1>2, ForCustomer, Concatenated
  <1> QED
    BY <1>3, Concatenated DEF PostMovement

\* Locking in the order of ids, EXTERNAL_CASH last, locks what is named.
LEMMA LocksInOrder ==
    ASSUME NEW order \in Seq(Accounts)
    PROVE  Good(LocksOf(order), {}, {order[i] : i \in 1..Len(order)})
  <1> DEFINE s == LocksOf(order)  S == {Do("lock", a, 0) : a \in Accounts}
  <1>1. /\ s \in Seq(S) /\ Len(s) = Len(order)
        /\ \A i \in 1..Len(order) : s[i] = Do("lock", order[i], 0)
    BY DEF LocksOf
  <1> HIDE DEF s, S
  <1>0. \A a : Do("lock", a, 0).op = "lock" /\ Do("lock", a, 0).row = a
    BY DEF Do, Stmt
  <1>2. \A i \in 1..Len(s) : s[i].op = "lock" /\ s[i].row = order[i]
    BY <1>0, <1>1
  <1>3. DisciplinedAfter(s, {})
    BY <1>2 DEF DisciplinedAfter
  <1>4. {order[i] : i \in 1..Len(order)} \subseteq Locks(s)
    BY <1>1, <1>2 DEF Locks, AccountWrites
  <1> QED
    BY <1>1, <1>3, <1>4 DEF Good, IsPiece, s

LEMMA LocksBoth ==
    ASSUME NEW a \in Accounts, NEW b \in Accounts
    PROVE  Good(LocksOf(CashLast(a, b)), {}, {a, b})
  <1>1. ASSUME NEW x \in Accounts, NEW y \in Accounts
        PROVE  Good(LocksOf(<< x, y >>), {}, {x, y})
    <2> DEFINE two == << x, y >>
    <2>1. two \in Seq(Accounts) /\ Len(two) = 2 /\ two[1] = x /\ two[2] = y
      OBVIOUS
    <2> HIDE DEF two
    <2>2. {two[i] : i \in 1..Len(two)} = {x, y}
      BY <2>1
    <2>3. Good(LocksOf(two), {}, {x, y})
      BY <2>1, <2>2, LocksInOrder
    <2> QED
      BY <2>3 DEF two
  <1>2. {b, a} = {a, b}
    OBVIOUS
  <1> QED
    BY <1>1, <1>2 DEF CashLast

LEMMA LocksAllThree ==
    ASSUME NEW a \in Accounts, NEW b \in Accounts
    PROVE  Good(LocksOf(Append(CashLast(a, b), Cash)), {}, {a, b, Cash})
  <1>1. ASSUME NEW x \in Accounts, NEW y \in Accounts
        PROVE  Good(LocksOf(Append(<< x, y >>, Cash)), {}, {x, y, Cash})
    <2> DEFINE three == Append(<< x, y >>, Cash)
    <2>1. /\ three \in Seq(Accounts) /\ Len(three) = 3
          /\ three[1] = x /\ three[2] = y /\ three[3] = Cash
      BY MovesAssumption
    <2> HIDE DEF three
    <2>2. {three[i] : i \in 1..Len(three)} = {x, y, Cash}
      BY <2>1
    <2>3. Good(LocksOf(three), {}, {x, y, Cash})
      BY <2>1, <2>2, LocksInOrder
    <2> QED
      BY <2>3 DEF three
  <1>2. {b, a, Cash} = {a, b, Cash}
    OBVIOUS
  <1> QED
    BY <1>1, <1>2 DEF CashLast

-----------------------------------------------------------------------------
(* The handlers. *)

\* A whole script: nothing is locked before it.
LEMMA Whole ==
    ASSUME NEW s, NEW L, Good(s, {}, L)
    PROVE  Disciplined(s)
  BY DEF Good, DisciplinedAfter, Disciplined

LEMMA MoveTypes ==
    ASSUME NEW m \in Move
    PROVE  m.from \in Accounts /\ m.to \in Accounts /\ Cash \in Accounts /\ m.kind \in Kinds
  BY MovesAssumption DEF Move

LEMMA DepositDisciplined ==
    ASSUME NEW m \in Move PROVE Disciplined(Deposit(m))
  <1> DEFINE L == {m.to, Cash}
  <1>1. Good(LocksOf(CashLast(m.to, Cash)), {}, L)
    BY MoveTypes, LocksBoth
  <1>2. Good(PostMovement(Cash, m.to, m.amt, Deposits(m.amt)), L, L)
    BY ToCore, Posting
  <1>3. Good(Deposit(m), {}, L)
    BY <1>1, <1>2, ToCore, Concatenated DEF Deposit
  <1> QED
    BY <1>3, Whole

LEMMA WithdrawDisciplined ==
    ASSUME NEW m \in Move PROVE Disciplined(Withdraw(m))
  <1> DEFINE L == {m.from, Cash}
             locks == LocksOf(CashLast(m.from, Cash))
             checks == << Do("funds", m.from, m.amt),
                          OnMeter("limit", m.from, m.amt, "withdrawal") >>
             post == PostMovement(m.from, Cash, m.amt, Deposits(-m.amt))
             use == << OnMeter("use", m.from, m.amt, "withdrawal") >>
  <1>1. Good(locks, {}, L)
    BY MoveTypes, LocksBoth
  <1>2. Good(checks, L, L)
    BY FundsAndLimit
  <1>3. Good(post, L, L)
    BY ToCore, Posting
  <1>4. Good(use, L, L)
    BY OnAMeter
  <1> HIDE DEF L, locks, checks, post, use
  <1>5. Good(locks \o checks, {}, L)
    BY <1>1, <1>2, Concatenated
  <1>6. Good(locks \o checks \o post, {}, L)
    BY <1>3, <1>5, Concatenated
  <1>7. Good(locks \o checks \o post \o use, {}, L)
    BY <1>4, <1>6, Concatenated
  <1>8. Good(locks \o checks \o post \o use \o Ends, {}, L)
    BY <1>7, ToCore, Concatenated
  <1>9. Withdraw(m) = locks \o checks \o post \o use \o Ends
    BY DEF Withdraw, locks, checks, post, use
  <1> QED
    BY <1>8, <1>9, Whole

LEMMA TransferDisciplined ==
    ASSUME NEW m \in Move PROVE Disciplined(Transfer(m))
  <1> DEFINE L == {m.from, m.to, Cash}
             find == Keyed(m, OnDoc("find", m.txn, Blank, Blank))
             locks == LocksOf(Append(CashLast(m.from, m.to), Cash))
             checks == << Do("funds", m.from, m.amt + TransferFee),
                          OnMeter("limit", m.from, m.amt, "transfer") >>
             insert == Keyed(m, OnDoc("insert", m.txn, Absent, "completed"))
             post == PostMovement(m.from, m.to, m.amt, << >>)
             use == << OnMeter("use", m.from, m.amt, "transfer") >>
  <1>1. Good(find, {}, {}) /\ Good(insert, L, L)
    BY Nothing, OnStatus DEF Keyed
  <1>2. Good(locks, {}, L)
    BY MoveTypes, LocksAllThree
  <1>3. Good(checks, L, L)
    BY FundsAndLimit
  <1>4. Good(post, L, L)
    BY Nothing, Posting
  <1>5. Good(ChargeFee(m), L, L)
    BY Nothing, ToCore, Posting DEF ChargeFee
  <1>6. Good(use, L, L)
    BY OnAMeter
  <1> HIDE DEF L, find, locks, checks, insert, post, use
  <1>7. Good(find \o locks \o checks, {}, L)
    BY <1>1, <1>2, <1>3, Concatenated
  <1>8. Good(find \o locks \o checks \o insert \o post, {}, L)
    BY <1>1, <1>4, <1>7, Concatenated
  <1>9. Good(find \o locks \o checks \o insert \o post \o ChargeFee(m) \o use, {}, L)
    BY <1>5, <1>6, <1>8, Concatenated
  <1>10. Good(find \o locks \o checks \o insert \o post \o ChargeFee(m) \o use \o Ends, {}, L)
    BY <1>9, ToCore, Concatenated
  <1>11. Transfer(m)
           = find \o locks \o checks \o insert \o post \o ChargeFee(m) \o use \o Ends
    BY DEF Transfer, find, locks, checks, insert, post, use
  <1> QED
    BY <1>10, <1>11, Whole

LEMMA ReverseDisciplined ==
    ASSUME NEW m \in Move PROVE Disciplined(Reverse(m))
  <1> DEFINE L == {m.to, m.from}
             expect == << OnDoc("expect", m.txn, "completed", Blank) >>
             locks == LocksOf(CashLast(m.to, m.from))
             mark == << OnDoc("mark", m.txn, "completed", "reversed") >>
             funds == IF m.to = Cash THEN << >> ELSE << Do("funds", m.to, m.amt) >>
             post == PostMovement(m.to, m.from, m.amt, UndoGL(m))
  <1>1. Good(expect, {}, {}) /\ Good(mark, L, L)
    BY OnStatus
  <1>2. Good(locks, {}, L)
    BY MoveTypes, LocksBoth
  <1>3. Good(funds, L, L)
    BY Nothing, OnAccount
  <1>4. Good(UndoGL(m), L, L)
    BY Nothing, ToCore DEF UndoGL
  <1>5. Good(post, L, L)
    BY <1>4, Posting
  <1> HIDE DEF L, expect, locks, mark, funds, post
  <1>6. Good(expect \o locks \o mark, {}, L)
    BY <1>1, <1>2, Concatenated
  <1>7. Good(expect \o locks \o mark \o funds \o post, {}, L)
    BY <1>3, <1>5, <1>6, Concatenated
  <1>8. Good(expect \o locks \o mark \o funds \o post \o Ends, {}, L)
    BY <1>7, ToCore, Concatenated
  <1>9. Reverse(m) = expect \o locks \o mark \o funds \o post \o Ends
    BY DEF Reverse, expect, locks, mark, funds, post
  <1> QED
    BY <1>8, <1>9, Whole

LEMMA MovementsDisciplined == AllDisciplined
  <1> SUFFICES ASSUME NEW t \in Tasks PROVE Disciplined(Script[t])
    BY DEF AllDisciplined
  <1>1. Moves[t] \in Move /\ Script[t] = ScriptOf(Moves[t])
    BY MovesAssumption, ScriptsAssumption
  <1>2. Moves[t].kind \in Kinds
    BY <1>1, MoveTypes
  <1>3. \/ ScriptOf(Moves[t]) = Deposit(Moves[t])  \/ ScriptOf(Moves[t]) = Withdraw(Moves[t])
        \/ ScriptOf(Moves[t]) = Transfer(Moves[t]) \/ ScriptOf(Moves[t]) = Reverse(Moves[t])
    BY <1>2 DEF ScriptOf, Kinds
  <1> QED
    BY <1>1, <1>3, DepositDisciplined, WithdrawDisciplined, TransferDisciplined,
       ReverseDisciplined

\* Deposits, withdrawals, transfers and reversals, as many at once as one likes
\* and cut off wherever one likes, never lose a posting: every stored balance is
\* the opening balance and the committed entries.
THEOREM MovementsLoseNothing == Spec => []BalanceIsJournal
  BY MovementsDisciplined, NoLostUpdate
-----------------------------------------------------------------------------
(***************************************************************************)
(* The lock order: customers by the order of their ids, EXTERNAL_CASH      *)
(* after them, and the transaction record last.                            *)
(***************************************************************************)

LockOrder ==
    {p \in Rows \X Rows :
        \/ p[1] \in Customers /\ p[2] \in Customers /\ Rank[p[1]] < Rank[p[2]]
        \/ p[1] \in Customers /\ p[2] = Cash
        \/ p[1] \in Accounts /\ p[2] \in Docs}

\* The rows a piece locks before its statement n.
Touched(s, n) == {s[j].row : j \in {i \in 1..n-1 : s[i].op \in Locking}}

\* A piece that keeps the order after `locked`, and locks `held` with it.
Climbs(s, locked, held) ==
    /\ IsPiece(s)
    /\ \A i \in 1..Len(s) :
         /\ s[i].op \notin {"when", "sweep"}
         /\ s[i].op \in Locking =>
              LET before == locked \cup Touched(s, i) IN
                \/ s[i].row \in before
                \/ \A x \in before : <<x, s[i].row>> \in LockOrder
    /\ held = locked \cup Touched(s, Len(s) + 1)

LEMMA IsStrict == StrictOrder(LockOrder)
  <1>1. \A a \in Customers : Rank[a] \in Nat /\ a \in Accounts /\ a # Cash
    BY MovesAssumption DEF Customers
  <1>2. Cash \in Accounts /\ Accounts \cap Docs = {}
    BY MovesAssumption, NamesAssumption
  <1>3. \A x \in Rows : <<x, x>> \notin LockOrder
    BY <1>1, <1>2 DEF LockOrder
  <1>4. ASSUME NEW x \in Rows, NEW y \in Rows, NEW z \in Rows,
               <<x, y>> \in LockOrder, <<y, z>> \in LockOrder
        PROVE  <<x, z>> \in LockOrder
    BY <1>1, <1>2, <1>4 DEF LockOrder
  <1> QED
    BY <1>3, <1>4 DEF StrictOrder

LEMMA WholeOrdered ==
    ASSUME NEW s, NEW L, Climbs(s, {}, L)
    PROVE  Ordered(s, LockOrder)
  <1> SUFFICES ASSUME NEW i \in 1..Len(s)
               PROVE  /\ s[i].op \notin {"when", "sweep"}
                      /\ s[i].op \in Locking =>
                           \/ \E j \in 1..i-1 : s[j].op \in Locking /\ s[j].row = s[i].row
                           \/ \A j \in 1..i-1 :
                                s[j].op \in Locking => <<s[j].row, s[i].row>> \in LockOrder
    BY DEF Ordered
  <1>1. \A x : x \in {} \cup Touched(s, i)
                 <=> \E j \in 1..i-1 : s[j].op \in Locking /\ s[j].row = x
    BY DEF Touched
  <1> QED
    BY <1>1 DEF Climbs

LEMMA ClimbsOn ==
    ASSUME NEW s, NEW t, NEW L, NEW M, NEW N, Climbs(s, L, M), Climbs(t, M, N)
    PROVE  Climbs(s \o t, L, N)
  <1> DEFINE u == s \o t
  <1>1. PICK S : s \in Seq(S) /\ t \in Seq(S)
    <2>1. PICK A : s \in Seq(A)
      BY DEF Climbs, IsPiece
    <2>2. PICK B : t \in Seq(B)
      BY DEF Climbs, IsPiece
    <2>3. s \in Seq(A \cup B) /\ t \in Seq(A \cup B)
      BY <2>1, <2>2
    <2> QED
      BY <2>3
  <1>2. /\ u \in Seq(S) /\ Len(u) = Len(s) + Len(t)
        /\ Len(s) \in Nat /\ Len(t) \in Nat
        /\ \A i \in 1..Len(s) : u[i] = s[i]
        /\ \A i \in 1..Len(t) : u[Len(s) + i] = t[i]
    BY <1>1
  <1> HIDE DEF u
  <1>3. \A i \in 1..Len(s)+1 : Touched(u, i) = Touched(s, i)
    <2> SUFFICES ASSUME NEW i \in 1..Len(s)+1 PROVE Touched(u, i) = Touched(s, i)
      OBVIOUS
    <2>1. \A j \in 1..i-1 : u[j] = s[j]
      BY <1>2
    <2> QED
      BY <2>1 DEF Touched
  <1>4. \A k \in 1..Len(t)+1 :
          L \cup Touched(u, Len(s) + k) = M \cup Touched(t, k)
    <2> SUFFICES ASSUME NEW k \in 1..Len(t)+1, NEW x
                 PROVE  x \in Touched(u, Len(s) + k)
                          <=> x \in Touched(s, Len(s) + 1) \/ x \in Touched(t, k)
      BY DEF Climbs
    <2>1. \A j \in 1..k-1 : Len(s) + j \in 1..(Len(s) + k)-1 /\ u[Len(s) + j] = t[j]
      BY <1>2
    <2>2. \A j \in 1..Len(s) : j \in 1..(Len(s) + k)-1 /\ u[j] = s[j]
      BY <1>2
    <2>3. \A j \in 1..(Len(s) + k)-1 :
            j \in 1..Len(s) \/ (j - Len(s) \in 1..k-1 /\ Len(s) + (j - Len(s)) = j)
      BY <1>2
    <2>4. (Len(s) + 1) - 1 = Len(s)
      BY <1>2
    <2>5. x \in Touched(u, Len(s) + k) <=>
            \E j \in 1..(Len(s) + k)-1 : u[j].op \in Locking /\ u[j].row = x
      BY DEF Touched
    <2>6. x \in Touched(s, Len(s) + 1) <=>
            \E j \in 1..Len(s) : s[j].op \in Locking /\ s[j].row = x
      BY <2>4 DEF Touched
    <2>7. x \in Touched(t, k) <=> \E j \in 1..k-1 : t[j].op \in Locking /\ t[j].row = x
      BY DEF Touched
    <2>8. ASSUME NEW j \in 1..(Len(s) + k)-1, u[j].op \in Locking, u[j].row = x
          PROVE  x \in Touched(s, Len(s) + 1) \/ x \in Touched(t, k)
      <3>1. CASE j \in 1..Len(s)
        BY <2>2, <2>6, <2>8, <3>1
      <3>2. CASE j - Len(s) \in 1..k-1 /\ Len(s) + (j - Len(s)) = j
        BY <2>1, <2>7, <2>8, <3>2
      <3> QED
        BY <2>3, <3>1, <3>2
    <2>9. ASSUME NEW j \in 1..Len(s), s[j].op \in Locking, s[j].row = x
          PROVE  x \in Touched(u, Len(s) + k)
      BY <2>2, <2>5, <2>9
    <2>10. ASSUME NEW j \in 1..k-1, t[j].op \in Locking, t[j].row = x
           PROVE  x \in Touched(u, Len(s) + k)
      BY <2>1, <2>5, <2>10
    <2> QED
      BY <2>5, <2>6, <2>7, <2>8, <2>9, <2>10
  <1>5. ASSUME NEW i \in 1..Len(u)
        PROVE  /\ u[i].op \notin {"when", "sweep"}
               /\ u[i].op \in Locking =>
                    \/ u[i].row \in L \cup Touched(u, i)
                    \/ \A x \in L \cup Touched(u, i) : <<x, u[i].row>> \in LockOrder
    <2>1. CASE i \in 1..Len(s)
      <3>1. u[i] = s[i] /\ Touched(u, i) = Touched(s, i)
        BY <1>2, <1>3, <2>1
      <3>2. /\ s[i].op \notin {"when", "sweep"}
            /\ s[i].op \in Locking =>
                 \/ s[i].row \in L \cup Touched(s, i)
                 \/ \A x \in L \cup Touched(s, i) : <<x, s[i].row>> \in LockOrder
        BY <2>1 DEF Climbs
      <3> QED
        BY <3>1, <3>2
    <2>2. CASE i \notin 1..Len(s)
      <3> DEFINE k == i - Len(s)
      <3>1. k \in 1..Len(t) /\ k \in 1..Len(t)+1 /\ Len(s) + k = i
        BY <1>2, <2>2
      <3> HIDE DEF k
      <3>2. u[i] = t[k] /\ L \cup Touched(u, i) = M \cup Touched(t, k)
        BY <1>2, <1>4, <3>1
      <3> QED
        BY <3>1, <3>2 DEF Climbs
    <2> QED
      BY <2>1, <2>2
  <1>6. N = L \cup Touched(u, Len(u) + 1)
    <2>1. Len(t) + 1 \in 1..Len(t)+1 /\ Len(s) + (Len(t) + 1) = Len(u) + 1
      BY <1>2
    <2> QED
      BY <1>4, <2>1 DEF Climbs
  <1> QED
    BY <1>2, <1>5, <1>6 DEF Climbs, IsPiece, u

\* A piece that locks nothing new.
LEMMA StaysWithin ==
    ASSUME NEW s, NEW L, IsPiece(s),
           \A i \in 1..Len(s) : /\ s[i].op \notin {"when", "sweep"}
                                /\ s[i].op \in Locking => s[i].row \in L
    PROVE  Climbs(s, L, L)
  <1>0. Len(s) \in Nat
    BY DEF IsPiece
  <1>1. \A n \in 1..Len(s)+1 : Touched(s, n) \subseteq L
    <2> SUFFICES ASSUME NEW n \in 1..Len(s)+1, NEW j \in 1..n-1, s[j].op \in Locking
                 PROVE  s[j].row \in L
      BY DEF Touched
    <2>1. j \in 1..Len(s)
      BY <1>0
    <2> QED
      BY <2>1
  <1>2. Len(s) + 1 \in 1..Len(s)+1
    BY <1>0
  <1> QED
    BY <1>1, <1>2 DEF Climbs

LEMMA OneStays ==
    ASSUME NEW x, NEW L, x.op \notin {"when", "sweep"}, x.op \in Locking => x.row \in L
    PROVE  Climbs(<< x >>, L, L)
  <1> DEFINE s == << x >>
  <1>1. s \in Seq({x}) /\ Len(s) = 1 /\ s[1] = x
    OBVIOUS
  <1> HIDE DEF s
  <1>2. IsPiece(s) /\ \A i \in 1..Len(s) : s[i] = x
    BY <1>1 DEF IsPiece
  <1>3. Climbs(s, L, L)
    BY <1>2, StaysWithin
  <1> QED
    BY <1>3 DEF s

LEMMA OneClimbs ==
    ASSUME NEW x, NEW L, x.op \in Locking,
           x.row \in L \/ \A y \in L : <<y, x.row>> \in LockOrder
    PROVE  Climbs(<< x >>, L, L \cup {x.row})
  <1> DEFINE s == << x >>
  <1>1. s \in Seq({x}) /\ Len(s) = 1 /\ s[1] = x
    OBVIOUS
  <1> HIDE DEF s
  <1>2. IsPiece(s) /\ \A i \in 1..Len(s) : i = 1 /\ s[i] = x
    BY <1>1 DEF IsPiece
  <1>3. Touched(s, 1) = {} /\ Touched(s, Len(s) + 1) = {x.row}
    <2>1. 1..1-1 = {} /\ 1..(Len(s) + 1)-1 = {1}
      BY <1>1
    <2> QED
      BY <1>1, <2>1 DEF Touched
  <1>4. x.op \notin {"when", "sweep"}
    BY DEF Locking, AccountWrites, DocWrites
  <1>5. Climbs(s, L, L \cup {x.row})
    BY <1>2, <1>3, <1>4 DEF Climbs
  <1> QED
    BY <1>5 DEF s

LEMMA NoneStays ==
    ASSUME NEW L PROVE Climbs(<< >>, L, L)
  <1> DEFINE s == << >>
  <1>1. s \in Seq({}) /\ Len(s) = 0
    OBVIOUS
  <1> HIDE DEF s
  <1>2. IsPiece(s) /\ 1..Len(s) = {}
    BY <1>1 DEF IsPiece
  <1>3. Climbs(s, L, L)
    BY <1>2, StaysWithin
  <1> QED
    BY <1>3 DEF s

-----------------------------------------------------------------------------
(* The handlers keep the order. *)

LEMMA DoFields ==
    ASSUME NEW op, NEW a, NEW n, NEW m, NEW was, NEW tag
    PROVE  /\ Do(op, a, n).op = op /\ Do(op, a, n).row = a
           /\ OnMeter(op, a, n, m).op = op /\ OnMeter(op, a, n, m).row = a
           /\ OnDoc(op, a, was, tag).op = op /\ OnDoc(op, a, was, tag).row = a
  BY DEF Do, OnMeter, OnDoc, Stmt

LEMMA PostsWithin ==
    ASSUME NEW debit, NEW credit, NEW n, NEW L, {debit, credit} \subseteq L,
           NEW glPost, Climbs(glPost, L, L)
    PROVE  Climbs(PostMovement(debit, credit, n, glPost), L, L)
  <1>1. ASSUME NEW op \in {"floor", "recompute"}, NEW a \in L
        PROVE  Climbs(OfCustomer(op, a), L, L)
    BY <1>1, NoneStays, OneStays, DoFields DEF OfCustomer
  <1>2. Climbs(PostTwoLegged(debit, credit, n), L, L)
    <2> DEFINE r == Do("read", debit, 0)  w == Do("write", debit, -n)
               q == Do("read", credit, 0) v == Do("write", credit, n)
               s == << r, w, q, v >>
    <2>1. \A x \in {r, w, q, v} : x.op \notin {"when", "sweep"} /\ x.row \in L
      BY DoFields
    <2>2. PostTwoLegged(debit, credit, n) = s
      BY DEF PostTwoLegged
    <2> HIDE DEF r, w, q, v
    <2>3. s \in Seq({r, w, q, v})
      OBVIOUS
    <2> HIDE DEF s
    <2>4. IsPiece(s) /\ \A i \in 1..Len(s) : s[i] \in {r, w, q, v}
      BY <2>3 DEF IsPiece
    <2>5. Climbs(s, L, L)
      BY <2>1, <2>4, StaysWithin
    <2> QED
      BY <2>2, <2>5
  <1>3. Climbs(OfCustomer("floor", debit) \o PostTwoLegged(debit, credit, n), L, L)
    BY <1>1, <1>2, ClimbsOn
  <1>4. Climbs(OfCustomer("floor", debit) \o PostTwoLegged(debit, credit, n)
                 \o OfCustomer("recompute", debit), L, L)
    BY <1>1, <1>3, ClimbsOn
  <1>5. Climbs(OfCustomer("floor", debit) \o PostTwoLegged(debit, credit, n)
                 \o OfCustomer("recompute", debit) \o OfCustomer("recompute", credit), L, L)
    BY <1>1, <1>4, ClimbsOn
  <1> QED
    BY <1>5, ClimbsOn DEF PostMovement

LEMMA CoreWithin ==
    ASSUME NEW n, NEW L PROVE Climbs(Deposits(n), L, L) /\ Climbs(Ends, L, L)
  BY OneStays, DoFields DEF Deposits, Ends, Locking, AccountWrites, DocWrites

\* lock_accounts_cash_last locks its two accounts in the order.
LEMMA PairClimbs ==
    ASSUME NEW a \in Accounts, NEW b \in Accounts
    PROVE  Climbs(LocksOf(CashLast(a, b)), {}, {a, b})
  <1>1. ASSUME NEW x \in Accounts, NEW y \in Accounts,
               x = y \/ <<x, y>> \in LockOrder
        PROVE  Climbs(LocksOf(<< x, y >>), {}, {x, y})
    <2> DEFINE p == Do("lock", x, 0)  q == Do("lock", y, 0)
    <2>1. p.op \in Locking /\ p.row = x /\ q.op \in Locking /\ q.row = y
      BY DoFields DEF Locking, AccountWrites
    <2>2. LocksOf(<< x, y >>) = << p, q >>
      BY DEF LocksOf
    <2> HIDE DEF p, q
    <2>3. Climbs(<< p >>, {}, {} \cup {p.row})
      BY <2>1, OneClimbs
    <2>4. Climbs(<< q >>, {x}, {x} \cup {q.row})
      BY <1>1, <2>1, OneClimbs
    <2>5. {} \cup {p.row} = {x} /\ {x} \cup {q.row} = {x, y}
      BY <2>1
    <2>6. Climbs(<< p >> \o << q >>, {}, {x, y})
      BY <2>3, <2>4, <2>5, ClimbsOn
    <2> QED
      BY <2>2, <2>6, TwoOnes
  <1>2. {b, a} = {a, b}
    OBVIOUS
  <1>3. /\ Rank[a] \in Nat /\ Rank[b] \in Nat /\ (Rank[a] = Rank[b] => a = b)
    BY MovesAssumption, IdsAssumption
  <1>4. CASE b # Cash /\ (a = Cash \/ Rank[b] < Rank[a])
    <2>1. <<b, a>> \in LockOrder
      BY <1>3, <1>4 DEF LockOrder, Customers, Rows
    <2>2. CashLast(a, b) = << b, a >>
      BY <1>4 DEF CashLast
    <2> QED
      BY <1>1, <1>2, <2>1, <2>2
  <1>5. CASE ~(b # Cash /\ (a = Cash \/ Rank[b] < Rank[a]))
    <2>1. a = b \/ <<a, b>> \in LockOrder
      BY <1>3, <1>5 DEF LockOrder, Customers, Rows
    <2>2. CashLast(a, b) = << a, b >>
      BY <1>5 DEF CashLast
    <2> QED
      BY <1>1, <2>1, <2>2
  <1> QED
    BY <1>4, <1>5

LEMMA OneMoreLock ==
    ASSUME NEW order \in Seq(Accounts), NEW z \in Accounts
    PROVE  LocksOf(Append(order, z)) = LocksOf(order) \o << Do("lock", z, 0) >>
  <1> DEFINE S == {Do("lock", a, 0) : a \in Accounts}
             more == Append(order, z)
             l == LocksOf(order)
             o == << Do("lock", z, 0) >>
             r == LocksOf(more)
  <1>1. /\ more \in Seq(Accounts) /\ Len(more) = Len(order) + 1
        /\ \A i \in 1..Len(order) : more[i] = order[i]
        /\ more[Len(order) + 1] = z /\ Len(order) \in Nat
    OBVIOUS
  <1>2. /\ o \in Seq(S) /\ Len(o) = 1 /\ o[1] = Do("lock", z, 0)
    OBVIOUS
  <1>3. /\ l \in Seq(S) /\ Len(l) = Len(order)
        /\ \A i \in 1..Len(order) : l[i] = Do("lock", order[i], 0)
    BY DEF LocksOf
  <1> HIDE DEF more
  <1>4. /\ r \in Seq(S) /\ Len(r) = Len(more)
        /\ \A i \in 1..Len(more) : r[i] = Do("lock", more[i], 0)
    BY <1>1 DEF LocksOf
  <1> HIDE DEF l, o, r, S
  <1>5. /\ l \o o \in Seq(S) /\ Len(l \o o) = Len(l) + Len(o)
        /\ \A i \in 1..Len(l) : (l \o o)[i] = l[i]
        /\ \A i \in 1..Len(o) : (l \o o)[Len(l) + i] = o[i]
    <2>1. ASSUME NEW T, l \in Seq(T), o \in Seq(T)
          PROVE  /\ l \o o \in Seq(T) /\ Len(l \o o) = Len(l) + Len(o)
                 /\ \A i \in 1..Len(l) : (l \o o)[i] = l[i]
                 /\ \A i \in 1..Len(o) : (l \o o)[Len(l) + i] = o[i]
      BY <2>1
    <2> QED
      BY <1>2, <1>3, <2>1
  <1>6. \A i \in 1..Len(more) : i \in 1..Len(order) \/ i = Len(order) + 1
    BY <1>1
  <1>7. \A i \in 1..Len(order) : r[i] = (l \o o)[i]
    <2>1. \A i \in 1..Len(order) : i \in 1..Len(more)
      BY <1>1
    <2> QED
      BY <1>1, <1>3, <1>4, <1>5, <2>1
  <1>8. r[Len(order) + 1] = (l \o o)[Len(order) + 1]
    <2>1. Len(order) + 1 \in 1..Len(more) /\ 1 \in 1..Len(o)
      BY <1>1, <1>2
    <2> QED
      BY <1>1, <1>2, <1>3, <1>4, <1>5, <2>1
  <1>9. Len(r) = Len(l \o o)
    BY <1>1, <1>2, <1>3, <1>4, <1>5
  <1>10. \A i \in 1..Len(r) : r[i] = (l \o o)[i]
    BY <1>4, <1>6, <1>7, <1>8
  <1>11. r = l \o o
    <2>1. ASSUME NEW T, NEW p \in Seq(T), NEW q \in Seq(T), Len(p) = Len(q),
                 \A i \in 1..Len(p) : p[i] = q[i]
          PROVE  p = q
      BY <2>1
    <2> QED
      BY <1>4, <1>5, <1>9, <1>10, <2>1
  <1> QED
    BY <1>11 DEF l, o, r, more

LEMMA ThreeClimb ==
    ASSUME NEW a \in Accounts, NEW b \in Accounts
    PROVE  Climbs(LocksOf(Append(CashLast(a, b), Cash)), {}, {a, b, Cash})
  <1> DEFINE c == Do("lock", Cash, 0)
  <1>1. c.op \in Locking /\ c.row = Cash
    BY DoFields DEF Locking, AccountWrites
  <1>2. \A x \in {a, b} : x = Cash \/ <<x, Cash>> \in LockOrder
    BY MovesAssumption DEF LockOrder, Customers, Rows
  <1>3. CashLast(a, b) \in Seq(Accounts) /\ Cash \in Accounts
    BY MovesAssumption DEF CashLast
  <1>4. LocksOf(Append(CashLast(a, b), Cash)) = LocksOf(CashLast(a, b)) \o << c >>
    BY <1>3, OneMoreLock
  <1> HIDE DEF c
  <1>5. Cash \in {a, b} \/ \A x \in {a, b} : <<x, Cash>> \in LockOrder
    BY <1>2
  <1>6. Climbs(<< c >>, {a, b}, {a, b} \cup {c.row})
    BY <1>1, <1>5, OneClimbs
  <1>7. {a, b} \cup {c.row} = {a, b, Cash}
    BY <1>1
  <1>8. Climbs(LocksOf(CashLast(a, b)), {}, {a, b})
    BY PairClimbs
  <1>9. Climbs(<< c >>, {a, b}, {a, b, Cash})
    BY <1>6, <1>7
  <1>10. Climbs(LocksOf(CashLast(a, b)) \o << c >>, {}, {a, b, Cash})
    BY <1>8, <1>9, ClimbsOn
  <1> QED
    BY <1>4, <1>10

\* A transaction record is locked after the accounts.
LEMMA RecordClimbs ==
    ASSUME NEW d \in Docs, NEW op \in {"insert", "mark"}, NEW was, NEW tag,
           NEW L, L \subseteq Accounts
    PROVE  Climbs(<< OnDoc(op, d, was, tag) >>, L, L \cup {d})
  <1> DEFINE x == OnDoc(op, d, was, tag)
  <1>1. x.op \in Locking /\ x.row = d
    BY DoFields DEF Locking, DocWrites
  <1>2. \A y \in L : <<y, d>> \in LockOrder
    BY DEF LockOrder, Rows
  <1> HIDE DEF x
  <1>3. Climbs(<< x >>, L, L \cup {x.row})
    BY <1>1, <1>2, OneClimbs
  <1> QED
    BY <1>1, <1>3 DEF x

LEMMA DepositOrdered ==
    ASSUME NEW m \in Move PROVE Ordered(Deposit(m), LockOrder)
  <1> DEFINE L == {m.to, Cash}
  <1>1. Climbs(LocksOf(CashLast(m.to, Cash)), {}, L)
    BY MoveTypes, PairClimbs
  <1>2. Climbs(PostMovement(Cash, m.to, m.amt, Deposits(m.amt)), L, L)
    BY CoreWithin, PostsWithin
  <1>3. Climbs(Deposit(m), {}, L)
    BY <1>1, <1>2, CoreWithin, ClimbsOn DEF Deposit
  <1> QED
    BY <1>3, WholeOrdered

\* The checks under the locks lock nothing.
LEMMA ChecksStay ==
    ASSUME NEW a, NEW n, NEW k, NEW m, NEW L
    PROVE  /\ Climbs(<< Do("funds", a, n), OnMeter("limit", a, k, m) >>, L, L)
           /\ Climbs(<< Do("funds", a, n) >>, L, L)
  <1> DEFINE x == Do("funds", a, n)  y == OnMeter("limit", a, k, m)
  <1>1. x.op \notin Locking \cup {"when", "sweep"} /\ y.op \notin Locking \cup {"when", "sweep"}
    BY DoFields DEF Locking, AccountWrites, DocWrites
  <1> HIDE DEF x, y
  <1>2. Climbs(<< x >>, L, L) /\ Climbs(<< y >>, L, L)
    BY <1>1, OneStays
  <1>3. Climbs(<< x, y >>, L, L)
    BY <1>2, TwoOnes, ClimbsOn
  <1> QED
    BY <1>2, <1>3 DEF x, y

LEMMA WithdrawOrdered ==
    ASSUME NEW m \in Move PROVE Ordered(Withdraw(m), LockOrder)
  <1> DEFINE L == {m.from, Cash}
             locks == LocksOf(CashLast(m.from, Cash))
             checks == << Do("funds", m.from, m.amt),
                          OnMeter("limit", m.from, m.amt, "withdrawal") >>
             post == PostMovement(m.from, Cash, m.amt, Deposits(-m.amt))
             use == << OnMeter("use", m.from, m.amt, "withdrawal") >>
  <1>1. Climbs(locks, {}, L)
    BY MoveTypes, PairClimbs
  <1>2. Climbs(checks, L, L)
    BY ChecksStay
  <1>3. Climbs(post, L, L)
    BY CoreWithin, PostsWithin
  <1>4. Climbs(use, L, L)
    BY OneStays, DoFields
  <1> HIDE DEF L, locks, checks, post, use
  <1>5. Climbs(locks \o checks \o post, {}, L)
    BY <1>1, <1>2, <1>3, ClimbsOn
  <1>6. Climbs(locks \o checks \o post \o use \o Ends, {}, L)
    BY <1>4, <1>5, CoreWithin, ClimbsOn
  <1>7. Withdraw(m) = locks \o checks \o post \o use \o Ends
    BY DEF Withdraw, locks, checks, post, use
  <1> QED
    BY <1>6, <1>7, WholeOrdered

LEMMA TransferOrdered ==
    ASSUME NEW m \in Move PROVE Ordered(Transfer(m), LockOrder)
  <1> DEFINE L == {m.from, m.to, Cash}
             M == IF m.txn = NoKey THEN L ELSE L \cup {m.txn}
             find == Keyed(m, OnDoc("find", m.txn, Blank, Blank))
             locks == LocksOf(Append(CashLast(m.from, m.to), Cash))
             checks == << Do("funds", m.from, m.amt + TransferFee),
                          OnMeter("limit", m.from, m.amt, "transfer") >>
             insert == Keyed(m, OnDoc("insert", m.txn, Absent, "completed"))
             post == PostMovement(m.from, m.to, m.amt, << >>)
             use == << OnMeter("use", m.from, m.amt, "transfer") >>
  <1>1. L \subseteq Accounts /\ L \subseteq M /\ m.txn \in Docs \cup {NoKey}
    BY MoveTypes DEF Move
  <1>2. Climbs(find, {}, {})
    BY NoneStays, OneStays, DoFields DEF Keyed, Locking, AccountWrites, DocWrites
  <1>3. Climbs(locks, {}, L)
    BY MoveTypes, ThreeClimb
  <1>4. Climbs(checks, L, L)
    BY ChecksStay
  <1>5. Climbs(insert, L, M)
    <2>1. CASE m.txn = NoKey
      BY <2>1, NoneStays DEF Keyed
    <2>2. CASE m.txn # NoKey
      BY <1>1, <2>2, RecordClimbs DEF Keyed
    <2> QED
      BY <2>1, <2>2
  <1>6. Climbs(post, M, M)
    BY <1>1, NoneStays, PostsWithin
  <1>7. Climbs(ChargeFee(m), M, M)
    BY <1>1, NoneStays, CoreWithin, PostsWithin DEF ChargeFee
  <1>8. Climbs(use, M, M)
    BY <1>1, OneStays, DoFields
  <1> HIDE DEF L, M, find, locks, checks, insert, post, use
  <1>9. Climbs(find \o locks \o checks, {}, L)
    BY <1>2, <1>3, <1>4, ClimbsOn
  <1>10. Climbs(find \o locks \o checks \o insert \o post, {}, M)
    BY <1>5, <1>6, <1>9, ClimbsOn
  <1>11. Climbs(find \o locks \o checks \o insert \o post \o ChargeFee(m) \o use, {}, M)
    BY <1>7, <1>8, <1>10, ClimbsOn
  <1>12. Climbs(find \o locks \o checks \o insert \o post \o ChargeFee(m) \o use \o Ends, {}, M)
    BY <1>11, CoreWithin, ClimbsOn
  <1>13. Transfer(m)
           = find \o locks \o checks \o insert \o post \o ChargeFee(m) \o use \o Ends
    BY DEF Transfer, find, locks, checks, insert, post, use
  <1> QED
    BY <1>12, <1>13, WholeOrdered

LEMMA ReverseOrdered ==
    ASSUME NEW m \in Move, m.txn \in Docs PROVE Ordered(Reverse(m), LockOrder)
  <1> DEFINE L == {m.to, m.from}
             M == L \cup {m.txn}
             expect == << OnDoc("expect", m.txn, "completed", Blank) >>
             locks == LocksOf(CashLast(m.to, m.from))
             mark == << OnDoc("mark", m.txn, "completed", "reversed") >>
             funds == IF m.to = Cash THEN << >> ELSE << Do("funds", m.to, m.amt) >>
             post == PostMovement(m.to, m.from, m.amt, UndoGL(m))
  <1>1. Climbs(expect, {}, {})
    BY OneStays, DoFields DEF Locking, AccountWrites, DocWrites
  <1>2. Climbs(locks, {}, L)
    BY MoveTypes, PairClimbs
  <1>3. Climbs(mark, L, M)
    BY MoveTypes, RecordClimbs
  <1>4. Climbs(funds, M, M)
    BY NoneStays, ChecksStay
  <1>5. Climbs(UndoGL(m), M, M)
    BY NoneStays, CoreWithin DEF UndoGL
  <1>6. Climbs(post, M, M)
    BY <1>5, PostsWithin
  <1> HIDE DEF L, M, expect, locks, mark, funds, post
  <1>7. Climbs(expect \o locks \o mark, {}, M)
    BY <1>1, <1>2, <1>3, ClimbsOn
  <1>8. Climbs(expect \o locks \o mark \o funds \o post, {}, M)
    BY <1>4, <1>6, <1>7, ClimbsOn
  <1>9. Climbs(expect \o locks \o mark \o funds \o post \o Ends, {}, M)
    BY <1>8, CoreWithin, ClimbsOn
  <1>10. Reverse(m) = expect \o locks \o mark \o funds \o post \o Ends
    BY DEF Reverse, expect, locks, mark, funds, post
  <1> QED
    BY <1>9, <1>10, WholeOrdered

LEMMA MovementsOrdered == AllOrdered(LockOrder)
  <1> SUFFICES ASSUME NEW t \in Tasks PROVE Ordered(Script[t], LockOrder)
    BY DEF AllOrdered
  <1>1. Moves[t] \in Move /\ Script[t] = ScriptOf(Moves[t])
    BY MovesAssumption, ScriptsAssumption
  <1>2. Moves[t].kind \in Kinds /\ (Moves[t].kind = "reversal" => Moves[t].txn \in Docs)
    BY <1>1, MoveTypes, SidesAssumption
  <1>3. \/ ScriptOf(Moves[t]) = Deposit(Moves[t])  \/ ScriptOf(Moves[t]) = Withdraw(Moves[t])
        \/ ScriptOf(Moves[t]) = Transfer(Moves[t])
        \/ Moves[t].txn \in Docs /\ ScriptOf(Moves[t]) = Reverse(Moves[t])
    BY <1>2 DEF ScriptOf, Kinds
  <1> QED
    BY <1>1, <1>3, DepositOrdered, WithdrawOrdered, TransferOrdered, ReverseOrdered

\* Deposits, withdrawals, transfers and reversals, as many at once as one likes,
\* never wait for each other in a circle: lock_accounts_cash_last, cash third in
\* a transfer, and the record after the accounts are one order.
THEOREM MovementsNeverDeadlock == Spec => []NoWaitCycle
  BY IsStrict, IdsAssumption, MovementsOrdered, NeverDeadlocks
-----------------------------------------------------------------------------
(* What a script has done so far, run alone. *)

Progress ==
    [locked : SUBSET Rows,                \* the rows it has locked
     net    : [Accounts -> Int],          \* the entries it has inserted
     use    : [Accounts -> [Meters -> Int]],  \* the counters it has consumed
     stale  : SUBSET Accounts,            \* available not what balance says
     funds  : [Accounts -> Int],          \* what it has found available
     made   : SUBSET Docs,                \* the records it has inserted
     undone : SUBSET Docs]                \* the records it has reversed

NothingDone ==
    [locked |-> {}, net |-> NoEntries, use |-> [a \in Accounts |-> [m \in Meters |-> 0]],
     stale |-> {}, funds |-> NoEntries, made |-> {}, undone |-> {}]

Added(entries, a, n) == [entries EXCEPT ![a] = @ + n]
Counted(use, a, m, n) == [use EXCEPT ![a][m] = @ + n]

\* Statement s takes progress g to h.
Adds(g, s, h) ==
    \/ s.op \in {"find", "expect", "limit", "read", "gl", "commit"} /\ h = g
    \/ /\ s.op = "lock"
       /\ h = [g EXCEPT !.locked = @ \cup {s.row}]
    \/ /\ s.op = "funds" /\ s.tag = Blank
       /\ s.row \in g.locked \ g.stale /\ g.net[s.row] = 0
       /\ h = [g EXCEPT !.funds = [g.funds EXCEPT ![s.row] = s.amt]]
    \/ /\ s.op = "floor" /\ s.row \in g.locked \cap Customers
       /\ h = [g EXCEPT !.stale = @ \cup {s.row}]
    \/ /\ s.op = "write" /\ s.tag = Blank /\ s.row \in g.locked
       /\ h = [g EXCEPT !.net = Added(g.net, s.row, s.amt),
                        !.stale = @ \cup ({s.row} \ {Cash})]
    \/ /\ s.op = "recompute" /\ s.row \in g.locked \cap Customers
       /\ h = [g EXCEPT !.stale = @ \ {s.row}]
    \/ /\ s.op = "use" /\ s.row \in g.locked
       /\ h = [g EXCEPT !.use = Counted(g.use, s.row, s.tag, s.amt)]
    \/ /\ s.op = "insert" /\ s.was = Absent /\ s.tag = "completed"
       /\ s.row \in Docs \ g.locked
       /\ h = [g EXCEPT !.locked = @ \cup {s.row}, !.made = @ \cup {s.row}]
    \/ /\ s.op = "mark" /\ s.was = "completed" /\ s.tag = "reversed"
       /\ s.row \in Docs \ g.locked
       /\ h = [g EXCEPT !.locked = @ \cup {s.row}, !.undone = @ \cup {s.row}]

\* The progress before each statement of s, and after the last.
IsCourse(w, s) ==
    /\ w \in [1..Len(s)+1 -> Progress]
    /\ \A i \in 1..Len(s) : Adds(w[i], s[i], w[i+1])

Makes(s, g, h) ==
    /\ IsPiece(s)
    /\ \E w : IsCourse(w, s) /\ w[1] = g /\ w[Len(s)+1] = h

\* The progress of a finished script: its movement, all of it, paid for out of
\* what it has found available, and no available balance left stale.
Complete(g, m) ==
    /\ g.net = Net(m)
    /\ g.use = Consumes(m)
    /\ g.stale = {}
    /\ g.made = (IF m.kind = "transfer" THEN {m.txn} \ {NoKey} ELSE {})
    /\ g.undone = (IF m.kind = "reversal" THEN {m.txn} ELSE {})
    /\ \A a \in Customers : g.net[a] < 0 => g.funds[a] + g.net[a] >= 0

LEMMA MakesNothing ==
    ASSUME NEW g \in Progress PROVE Makes(<< >>, g, g)
  <1> DEFINE s == << >>  w == [i \in 1..1 |-> g]
  <1>1. s \in Seq({}) /\ Len(s) = 0
    OBVIOUS
  <1>2. w \in [1..1 -> Progress] /\ w[1] = g
    OBVIOUS
  <1> HIDE DEF s, w
  <1>3. IsPiece(s) /\ 1..Len(s) = {} /\ Len(s) + 1 = 1
    BY <1>1 DEF IsPiece
  <1>4. Makes(s, g, g)
    BY <1>2, <1>3 DEF Makes, IsCourse
  <1> QED
    BY <1>4 DEF s

LEMMA MakesByOne ==
    ASSUME NEW x, NEW g \in Progress, NEW h \in Progress, Adds(g, x, h)
    PROVE  Makes(<< x >>, g, h)
  <1> DEFINE s == << x >>  w == [i \in 1..2 |-> IF i = 1 THEN g ELSE h]
  <1>1. s \in Seq({x}) /\ Len(s) = 1 /\ s[1] = x
    OBVIOUS
  <1>2. w \in [1..2 -> Progress] /\ w[1] = g /\ w[2] = h
    OBVIOUS
  <1> HIDE DEF s, w
  <1>3. IsPiece(s) /\ Len(s) + 1 = 2 /\ \A i \in 1..Len(s) : i = 1
    BY <1>1 DEF IsPiece
  <1>4. IsCourse(w, s)
    BY <1>1, <1>2, <1>3 DEF IsCourse
  <1>5. Makes(s, g, h)
    BY <1>2, <1>3, <1>4 DEF Makes
  <1> QED
    BY <1>5 DEF s

LEMMA MakesOn ==
    ASSUME NEW s, NEW t, NEW f, NEW g, NEW h, Makes(s, f, g), Makes(t, g, h)
    PROVE  Makes(s \o t, f, h)
  <1> DEFINE u == s \o t
  <1>1. PICK S : s \in Seq(S) /\ t \in Seq(S)
    <2>1. PICK A : s \in Seq(A)
      BY DEF Makes, IsPiece
    <2>2. PICK B : t \in Seq(B)
      BY DEF Makes, IsPiece
    <2>3. s \in Seq(A \cup B) /\ t \in Seq(A \cup B)
      BY <2>1, <2>2
    <2> QED
      BY <2>3
  <1>2. /\ u \in Seq(S) /\ Len(u) = Len(s) + Len(t)
        /\ Len(s) \in Nat /\ Len(t) \in Nat
        /\ \A i \in 1..Len(s) : u[i] = s[i]
        /\ \A i \in 1..Len(t) : u[Len(s) + i] = t[i]
    BY <1>1
  <1>3. PICK v : IsCourse(v, s) /\ v[1] = f /\ v[Len(s)+1] = g
    BY DEF Makes
  <1>4. PICK w : IsCourse(w, t) /\ w[1] = g /\ w[Len(t)+1] = h
    BY DEF Makes
  <1> DEFINE x == [i \in 1..Len(u)+1 |-> IF i <= Len(s) THEN v[i] ELSE w[i - Len(s)]]
  <1> HIDE DEF u
  <1>5. \A i \in 1..Len(u)+1 :
          /\ i <= Len(s) => x[i] = v[i] /\ i \in 1..Len(s)+1
          /\ ~(i <= Len(s)) => x[i] = w[i - Len(s)] /\ i - Len(s) \in 1..Len(t)+1
    BY <1>2
  <1>6. x \in [1..Len(u)+1 -> Progress]
    <2>1. \A i \in 1..Len(u)+1 : x[i] \in Progress
      BY <1>3, <1>4, <1>5 DEF IsCourse
    <2> QED
      BY <2>1
  <1>7. 1 \in 1..Len(u)+1 /\ Len(u) + 1 \in 1..Len(u)+1
    BY <1>2
  <1>8. x[1] = f
    <2>1. CASE 1 <= Len(s)
      BY <1>3, <1>5, <1>7, <2>1
    <2>2. CASE ~(1 <= Len(s))
      <3>1. Len(s) = 0
        BY <1>2, <2>2
      <3> QED
        BY <1>3, <1>4, <1>5, <1>7, <2>2, <3>1
    <2> QED
      BY <2>1, <2>2
  <1>9. x[Len(u)+1] = h
    <2>1. ~(Len(u) + 1 <= Len(s)) /\ (Len(u) + 1) - Len(s) = Len(t) + 1
      BY <1>2
    <2> QED
      BY <1>4, <1>5, <1>7, <2>1
  <1>10. ASSUME NEW i \in 1..Len(u)
         PROVE  Adds(x[i], u[i], x[i+1])
    <2>1. i \in 1..Len(u)+1 /\ i + 1 \in 1..Len(u)+1
      BY <1>2
    <2>2. CASE i + 1 <= Len(s)
      <3>1. i \in 1..Len(s) /\ i <= Len(s)
        BY <1>2, <2>2
      <3>2. x[i] = v[i] /\ x[i+1] = v[i+1] /\ u[i] = s[i]
        BY <1>2, <1>5, <2>1, <2>2, <3>1
      <3> QED
        BY <1>3, <3>1, <3>2 DEF IsCourse
    <2>3. CASE i = Len(s)
      <3>1. i \in 1..Len(s) /\ i <= Len(s) /\ ~(i + 1 <= Len(s)) /\ (i + 1) - Len(s) = 1
        BY <1>2, <2>3
      <3>2. x[i] = v[i] /\ x[i+1] = w[1] /\ u[i] = s[i]
        BY <1>2, <1>5, <2>1, <3>1
      <3>3. Adds(v[i], s[i], v[i+1]) /\ v[i+1] = w[1]
        BY <1>3, <1>4, <2>3, <3>1 DEF IsCourse
      <3> QED
        BY <3>2, <3>3
    <2>4. CASE i > Len(s)
      <3> DEFINE k == i - Len(s)
      <3>1. /\ k \in 1..Len(t) /\ Len(s) + k = i /\ ~(i <= Len(s)) /\ ~(i + 1 <= Len(s))
            /\ (i + 1) - Len(s) = k + 1 /\ i - Len(s) = k
        BY <1>2, <2>4
      <3> HIDE DEF k
      <3>2. x[i] = w[k] /\ x[i+1] = w[k+1] /\ u[i] = t[k]
        BY <1>2, <1>5, <2>1, <3>1
      <3> QED
        BY <1>4, <3>1, <3>2 DEF IsCourse
    <2> QED
      BY <1>2, <2>2, <2>3, <2>4
  <1>11. IsCourse(x, u)
    BY <1>6, <1>10 DEF IsCourse
  <1>12. Makes(u, f, h)
    BY <1>2, <1>8, <1>9, <1>11 DEF Makes, IsPiece
  <1> QED
    BY <1>12 DEF u

-----------------------------------------------------------------------------
(* The pieces of the scripts. *)

\* Progress g with other entries and other stale balances.
With(g, entries, stale) == [g EXCEPT !.net = entries, !.stale = stale]

LEMMA WithType ==
    ASSUME NEW g \in Progress, NEW e \in [Accounts -> Int], NEW S \in SUBSET Accounts
    PROVE  /\ With(g, e, S) \in Progress
           /\ With(g, e, S).net = e /\ With(g, e, S).stale = S
           /\ With(g, e, S).locked = g.locked
           /\ \A f, T : With(With(g, e, S), f, T) = With(g, f, T)
           /\ With(g, g.net, g.stale) = g
  BY DEF With, Progress

LEMMA AddedType ==
    ASSUME NEW e \in [Accounts -> Int], NEW a \in Accounts, NEW n \in Int
    PROVE  Added(e, a, n) \in [Accounts -> Int]
  BY DEF Added

\* A statement that adds nothing.
LEMMA Idles ==
    ASSUME NEW g \in Progress, NEW x,
           x.op \in {"find", "expect", "limit", "read", "gl", "commit"}
    PROVE  Makes(<< x >>, g, g)
  BY MakesByOne DEF Adds

LEMMA WriteMakes ==
    ASSUME NEW g \in Progress, NEW a \in Accounts, NEW n \in Int,
           NEW e \in [Accounts -> Int], NEW S \in SUBSET Accounts, a \in g.locked
    PROVE  Makes(<< Do("read", a, 0) >> \o << Do("write", a, n) >>,
                 With(g, e, S), With(g, Added(e, a, n), S \cup ({a} \ {Cash})))
  <1> DEFINE x == Do("read", a, 0)  y == Do("write", a, n)
             f == With(g, e, S)
             h == With(g, Added(e, a, n), S \cup ({a} \ {Cash}))
  <1>1. f \in Progress /\ h \in Progress
    BY WithType, AddedType
  <1>2. Makes(<< x >>, f, f)
    BY <1>1, Idles, DoFields
  <1>3. Adds(f, y, h)
    <2>1. y.op = "write" /\ y.tag = Blank /\ y.row = a /\ y.amt = n
      BY DEF Do, Stmt
    <2>2. h = [f EXCEPT !.net = Added(f.net, a, n), !.stale = @ \cup ({a} \ {Cash})]
      BY DEF With, Progress
    <2>3. a \in f.locked
      BY WithType
    <2> HIDE DEF y, f, h
    <2>4. h = [f EXCEPT !.net = Added(f.net, y.row, y.amt),
                        !.stale = @ \cup ({y.row} \ {Cash})]
      BY <2>1, <2>2
    <2> QED
      BY <2>1, <2>3, <2>4 DEF Adds
  <1>4. Makes(<< y >>, f, h)
    BY <1>1, <1>3, MakesByOne
  <1> QED
    BY <1>2, <1>4, MakesOn

LEMMA FloorMakes ==
    ASSUME NEW g \in Progress, NEW a \in Accounts, a \in g.locked,
           NEW e \in [Accounts -> Int], NEW S \in SUBSET Accounts
    PROVE  Makes(OfCustomer("floor", a), With(g, e, S), With(g, e, S \cup ({a} \ {Cash})))
  <1> DEFINE x == Do("floor", a, 0)  f == With(g, e, S)
             h == With(g, e, S \cup ({a} \ {Cash}))
  <1>1. f \in Progress /\ h \in Progress
    BY WithType
  <1>2. CASE a = Cash
    <2>1. h = f
      BY <1>2 DEF With
    <2> QED
      BY <1>1, <1>2, <2>1, MakesNothing DEF OfCustomer
  <1>3. CASE a # Cash
    <2>1. x.op = "floor" /\ x.row = a
      BY DoFields
    <2>2. h = [f EXCEPT !.stale = @ \cup {a}]
      BY <1>3 DEF With, Progress
    <2>3. a \in f.locked \cap Customers
      BY <1>3, WithType DEF Customers
    <2>4. Adds(f, x, h)
      BY <2>1, <2>2, <2>3 DEF Adds
    <2>5. Makes(<< x >>, f, h)
      BY <1>1, <2>4, MakesByOne
    <2> QED
      BY <1>3, <2>5 DEF OfCustomer
  <1> QED
    BY <1>2, <1>3

LEMMA RecomputeMakes ==
    ASSUME NEW g \in Progress, NEW a \in Accounts, a \in g.locked,
           NEW e \in [Accounts -> Int], NEW S \in SUBSET Accounts
    PROVE  Makes(OfCustomer("recompute", a), With(g, e, S), With(g, e, S \ ({a} \ {Cash})))
  <1> DEFINE x == Do("recompute", a, 0)  f == With(g, e, S)
             h == With(g, e, S \ ({a} \ {Cash}))
  <1>1. f \in Progress /\ h \in Progress
    BY WithType
  <1>2. CASE a = Cash
    <2>1. h = f
      BY <1>2 DEF With
    <2> QED
      BY <1>1, <1>2, <2>1, MakesNothing DEF OfCustomer
  <1>3. CASE a # Cash
    <2>1. x.op = "recompute" /\ x.row = a
      BY DoFields
    <2>2. h = [f EXCEPT !.stale = @ \ {a}]
      BY <1>3 DEF With, Progress
    <2>3. a \in f.locked \cap Customers
      BY <1>3, WithType DEF Customers
    <2>4. Adds(f, x, h)
      BY <2>1, <2>2, <2>3 DEF Adds
    <2>5. Makes(<< x >>, f, h)
      BY <1>1, <2>4, MakesByOne
    <2> QED
      BY <1>3, <2>5 DEF OfCustomer
  <1> QED
    BY <1>2, <1>3

\* post_movement moves n from one account to the other, and leaves no balance
\* stale.
Moved(g, debit, credit, n) ==
    With(g, Added(Added(g.net, debit, -n), credit, n), {})

LEMMA MovedInProgress ==
    ASSUME NEW g \in Progress, NEW debit \in Accounts, NEW credit \in Accounts, NEW n \in Int
    PROVE  Moved(g, debit, credit, n) \in Progress
  <1>1. g.net \in [Accounts -> Int] /\ -n \in Int
    BY DEF Progress
  <1>2. Added(Added(g.net, debit, -n), credit, n) \in [Accounts -> Int]
    BY <1>1, AddedType
  <1> QED
    BY <1>2, WithType DEF Moved

LEMMA PostingMakes ==
    ASSUME NEW g \in Progress, g.stale = {},
           NEW debit \in Accounts, NEW credit \in Accounts, {debit, credit} \subseteq g.locked,
           NEW n \in Int, NEW glPost,
           Makes(glPost, Moved(g, debit, credit, n), Moved(g, debit, credit, n))
    PROVE  /\ Makes(PostMovement(debit, credit, n, glPost), g, Moved(g, debit, credit, n))
           /\ Moved(g, debit, credit, n) \in Progress
  <1> DEFINE e == g.net
             e2 == Added(e, debit, -n)
             e3 == Added(e2, credit, n)
             D == {debit} \ {Cash}
             C == {credit} \ {Cash}
             floor == OfCustomer("floor", debit)
             r == Do("read", debit, 0)  w == Do("write", debit, -n)
             q == Do("read", credit, 0) v == Do("write", credit, n)
  <1>1. e \in [Accounts -> Int] /\ -n \in Int /\ g = With(g, e, {})
    <2>1. g.net \in [Accounts -> Int] /\ g.stale \in SUBSET Accounts
      BY DEF Progress
    <2>2. With(g, g.net, g.stale) = g
      BY <2>1, WithType
    <2> QED
      BY <2>1, <2>2
  <1>2. e2 \in [Accounts -> Int] /\ e3 \in [Accounts -> Int]
    BY <1>1, AddedType
  <1>3. D \in SUBSET Accounts /\ C \in SUBSET Accounts /\ debit \in g.locked /\ credit \in g.locked
    OBVIOUS
  <1>4. Makes(floor, With(g, e, {}), With(g, e, {} \cup D))
    BY <1>1, <1>3, FloorMakes
  <1>a. ASSUME NEW a \in Accounts, NEW k \in Int, NEW f \in [Accounts -> Int],
               NEW S \in SUBSET Accounts, a \in g.locked
        PROVE  Makes(<< Do("read", a, 0) >> \o << Do("write", a, k) >>,
                     With(g, f, S), With(g, Added(f, a, k), S \cup ({a} \ {Cash})))
    BY <1>a, WriteMakes
  <1>5. Makes(<< r >> \o << w >>, With(g, e, {} \cup D), With(g, e2, ({} \cup D) \cup D))
    BY <1>1, <1>3, <1>a
  <1>6. Makes(<< q >> \o << v >>, With(g, e2, ({} \cup D) \cup D), With(g, e3, (({} \cup D) \cup D) \cup C))
    BY <1>2, <1>3, <1>a
  <1>7. (({} \cup D) \cup D) \cup C = D \cup C
    OBVIOUS
  <1>8. PostTwoLegged(debit, credit, n) = (<< r >> \o << w >>) \o (<< q >> \o << v >>)
    <2>1. PostTwoLegged(debit, credit, n) = << r, w, q, v >>
      BY DEF PostTwoLegged
    <2> HIDE DEF r, w, q, v
    <2>2. << r, w, q, v >> = << r, w >> \o << q, v >>
      OBVIOUS
    <2>3. << r, w >> = << r >> \o << w >> /\ << q, v >> = << q >> \o << v >>
      BY TwoOnes
    <2> QED
      BY <2>1, <2>2, <2>3
  <1>9. Makes(OfCustomer("recompute", debit), With(g, e3, D \cup C), With(g, e3, (D \cup C) \ D))
    BY <1>2, <1>3, RecomputeMakes
  <1>10. Makes(OfCustomer("recompute", credit), With(g, e3, (D \cup C) \ D),
               With(g, e3, ((D \cup C) \ D) \ C))
    BY <1>2, <1>3, RecomputeMakes
  <1>11. ((D \cup C) \ D) \ C = {}
    OBVIOUS
  <1>12. Moved(g, debit, credit, n) = With(g, e3, {})
    BY DEF Moved
  <1> HIDE DEF e2, e3, D, C, floor, r, w, q, v
  <1>13. Makes(PostTwoLegged(debit, credit, n), With(g, e, {} \cup D), With(g, e3, D \cup C))
    BY <1>5, <1>6, <1>7, <1>8, MakesOn
  <1>14. Makes(floor \o PostTwoLegged(debit, credit, n), g, With(g, e3, D \cup C))
    BY <1>1, <1>4, <1>13, MakesOn
  <1>15. Makes(floor \o PostTwoLegged(debit, credit, n) \o OfCustomer("recompute", debit),
               g, With(g, e3, (D \cup C) \ D))
    BY <1>9, <1>14, MakesOn
  <1>16. Makes(floor \o PostTwoLegged(debit, credit, n) \o OfCustomer("recompute", debit)
                \o OfCustomer("recompute", credit), g, With(g, e3, {}))
    BY <1>10, <1>11, <1>15, MakesOn
  <1>17. Makes(floor \o PostTwoLegged(debit, credit, n) \o OfCustomer("recompute", debit)
                \o OfCustomer("recompute", credit) \o glPost, g, With(g, e3, {}))
    BY <1>12, <1>16, MakesOn
  <1>18. With(g, e3, {}) \in Progress
    BY <1>2, WithType
  <1> QED
    BY <1>12, <1>17, <1>18 DEF PostMovement, floor

\* Progress h is g with n moved.
Shifts(h, g, debit, credit, n) ==
    /\ h.locked = g.locked /\ h.use = g.use /\ h.funds = g.funds
    /\ h.made = g.made /\ h.undone = g.undone /\ h.stale = {}
    /\ h.net \in [Accounts -> Int]
    /\ \A x \in Accounts :
         h.net[x] = g.net[x] + (IF x = credit THEN n ELSE 0)
                             - (IF x = debit THEN n ELSE 0)

LEMMA MovedFields ==
    ASSUME NEW g \in Progress, NEW debit \in Accounts, NEW credit \in Accounts, NEW n \in Int
    PROVE  Shifts(Moved(g, debit, credit, n), g, debit, credit, n)
  <1> DEFINE e == g.net  e2 == Added(e, debit, -n)  e3 == Added(e2, credit, n)
             h == Moved(g, debit, credit, n)
  <1>1. e \in [Accounts -> Int] /\ -n \in Int
    BY DEF Progress
  <1>2. e2 \in [Accounts -> Int] /\ e3 \in [Accounts -> Int]
    BY <1>1, AddedType
  <1>3. \A x \in Accounts : e2[x] = e[x] - (IF x = debit THEN n ELSE 0)
    BY <1>1 DEF Added
  <1>4. \A x \in Accounts : e3[x] = e2[x] + (IF x = credit THEN n ELSE 0)
    BY <1>2 DEF Added
  <1>5. h = [g EXCEPT !.net = e3, !.stale = {}]
    BY DEF Moved, With
  <1> HIDE DEF e2, e3, h
  <1>6. /\ h.locked = g.locked /\ h.use = g.use /\ h.funds = g.funds
        /\ h.made = g.made /\ h.undone = g.undone /\ h.stale = {} /\ h.net = e3
    BY <1>5 DEF Progress
  <1>7. \A x \in Accounts : e3[x] = e[x] + (IF x = credit THEN n ELSE 0)
                                        - (IF x = debit THEN n ELSE 0)
    BY <1>1, <1>2, <1>3, <1>4
  <1>8. Shifts(h, g, debit, credit, n)
    BY <1>2, <1>6, <1>7 DEF Shifts
  <1> QED
    BY <1>8 DEF h

\* The rows L locked, and nothing else done.
OnlyLocked(L) == [NothingDone EXCEPT !.locked = L]

LEMMA OnlyLockedType ==
    ASSUME NEW L \in SUBSET Rows
    PROVE  /\ OnlyLocked(L) \in Progress /\ OnlyLocked(L).locked = L
           /\ OnlyLocked(L).stale = {} /\ OnlyLocked(L).net = NoEntries
           /\ OnlyLocked(L).funds = NoEntries /\ OnlyLocked(L).use = NothingDone.use
           /\ OnlyLocked(L).made = {} /\ OnlyLocked(L).undone = {}
           /\ NothingDone = OnlyLocked({}) /\ NothingDone \in Progress
           /\ NothingDone.use \in [Accounts -> [Meters -> Int]]
  <1> DEFINE h == OnlyLocked(L)  u == [a \in Accounts |-> [m \in Meters |-> 0]]
  <1>1. u \in [Accounts -> [Meters -> Int]] /\ NoEntries \in [Accounts -> Int]
    BY DEF NoEntries
  <1>2. NothingDone.use = u
    BY DEF NothingDone
  <1>3. h = [locked |-> L, net |-> NoEntries, use |-> u, stale |-> {},
             funds |-> NoEntries, made |-> {}, undone |-> {}]
    BY DEF OnlyLocked, NothingDone
  <1>4. NothingDone = [locked |-> {}, net |-> NoEntries, use |-> u, stale |-> {},
                       funds |-> NoEntries, made |-> {}, undone |-> {}]
    BY DEF NothingDone
  <1>5. NothingDone = OnlyLocked({})
    BY DEF OnlyLocked, NothingDone
  <1> HIDE DEF h, u
  <1>6. /\ h.locked = L /\ h.stale = {} /\ h.net = NoEntries /\ h.funds = NoEntries
        /\ h.use = u /\ h.made = {} /\ h.undone = {}
    BY <1>3
  <1>7. h \in Progress /\ NothingDone \in Progress
    BY <1>1, <1>3, <1>4 DEF Progress
  <1> QED
    BY <1>1, <1>2, <1>5, <1>6, <1>7 DEF h

LEMMA StartType == NothingDone \in Progress
  BY OnlyLockedType

LEMMA LockMakes ==
    ASSUME NEW L \in SUBSET Rows, NEW a \in Accounts
    PROVE  Makes(<< Do("lock", a, 0) >>, OnlyLocked(L), OnlyLocked(L \cup {a}))
  <1> DEFINE x == Do("lock", a, 0)
  <1>1. x.op = "lock" /\ x.row = a
    BY DoFields
  <1>2. L \cup {a} \in SUBSET Rows
    BY DEF Rows
  <1>3. OnlyLocked(L) \in Progress /\ OnlyLocked(L \cup {a}) \in Progress
    BY <1>2, OnlyLockedType
  <1>4. OnlyLocked(L \cup {a}) = [OnlyLocked(L) EXCEPT !.locked = @ \cup {a}]
    BY DEF OnlyLocked, NothingDone
  <1> HIDE DEF x
  <1>5. Adds(OnlyLocked(L), x, OnlyLocked(L \cup {a}))
    BY <1>1, <1>4 DEF Adds
  <1>6. Makes(<< x >>, OnlyLocked(L), OnlyLocked(L \cup {a}))
    BY <1>3, <1>5, MakesByOne
  <1> QED
    BY <1>6 DEF x

LEMMA LocksLead ==
    ASSUME NEW a \in Accounts, NEW b \in Accounts
    PROVE  /\ Makes(LocksOf(CashLast(a, b)), NothingDone, OnlyLocked({a, b}))
           /\ Makes(LocksOf(Append(CashLast(a, b), Cash)), NothingDone, OnlyLocked({a, b, Cash}))
  <1>1. ASSUME NEW x \in Accounts, NEW y \in Accounts
        PROVE  Makes(LocksOf(<< x, y >>), NothingDone, OnlyLocked({x, y}))
    <2> DEFINE p == Do("lock", x, 0)  q == Do("lock", y, 0)
    <2>1. LocksOf(<< x, y >>) = << p, q >>
      BY DEF LocksOf
    <2>2. {} \in SUBSET Rows /\ {} \cup {x} \in SUBSET Rows /\ ({} \cup {x}) \cup {y} = {x, y}
      BY DEF Rows
    <2>3. Makes(<< p >>, OnlyLocked({}), OnlyLocked({} \cup {x}))
      BY <2>2, LockMakes
    <2>4. Makes(<< q >>, OnlyLocked({} \cup {x}), OnlyLocked(({} \cup {x}) \cup {y}))
      BY <2>2, LockMakes
    <2>5. << p, q >> = << p >> \o << q >>
      BY TwoOnes
    <2>6. NothingDone = OnlyLocked({})
      BY <2>2, OnlyLockedType
    <2> HIDE DEF p, q
    <2>7. Makes(<< p >> \o << q >>, OnlyLocked({}), OnlyLocked({x, y}))
      BY <2>2, <2>3, <2>4, MakesOn
    <2> QED
      BY <2>1, <2>5, <2>6, <2>7
  <1>2. {b, a} = {a, b}
    OBVIOUS
  <1>3. Makes(LocksOf(CashLast(a, b)), NothingDone, OnlyLocked({a, b}))
    BY <1>1, <1>2 DEF CashLast
  <1>4. CashLast(a, b) \in Seq(Accounts) /\ Cash \in Accounts
    BY MovesAssumption DEF CashLast
  <1>5. LocksOf(Append(CashLast(a, b), Cash)) = LocksOf(CashLast(a, b)) \o << Do("lock", Cash, 0) >>
    BY <1>4, OneMoreLock
  <1>6. {a, b} \in SUBSET Rows /\ {a, b} \cup {Cash} = {a, b, Cash}
    BY DEF Rows
  <1>7. Makes(<< Do("lock", Cash, 0) >>, OnlyLocked({a, b}), OnlyLocked({a, b, Cash}))
    BY <1>4, <1>6, LockMakes
  <1> QED
    BY <1>3, <1>5, <1>7, MakesOn

\* The funds check, before anything is added.
Checked(g, a, n) == [g EXCEPT !.funds = [g.funds EXCEPT ![a] = n]]

LEMMA FundsLead ==
    ASSUME NEW g \in Progress, NEW a \in Accounts, NEW n \in Int,
           a \in g.locked, g.stale = {}, g.net = NoEntries
    PROVE  /\ Makes(<< Do("funds", a, n) >>, g, Checked(g, a, n))
           /\ \A k, m : Makes(<< Do("funds", a, n), OnMeter("limit", a, k, m) >>,
                              g, Checked(g, a, n))
           /\ Checked(g, a, n) \in Progress
           /\ Checked(g, a, n) = [g EXCEPT !.funds = [g.funds EXCEPT ![a] = n]]
  <1> DEFINE x == Do("funds", a, n)  h == Checked(g, a, n)
  <1>1. x.op = "funds" /\ x.row = a /\ x.amt = n /\ x.tag = Blank
    BY DEF Do, Stmt
  <1>2. h = [g EXCEPT !.funds = [g.funds EXCEPT ![a] = n]]
    BY DEF Checked
  <1>3. h \in Progress
    <2>1. [g.funds EXCEPT ![a] = n] \in [Accounts -> Int]
      BY DEF Progress
    <2> HIDE DEF h
    <2> QED
      BY <1>2, <2>1 DEF Progress
  <1>4. g.net[a] = 0
    BY DEF NoEntries
  <1> HIDE DEF x, h
  <1>5. Adds(g, x, h)
    BY <1>1, <1>2, <1>4 DEF Adds
  <1>6. Makes(<< x >>, g, h)
    BY <1>3, <1>5, MakesByOne
  <1>7. ASSUME NEW k, NEW m
        PROVE  Makes(<< x, OnMeter("limit", a, k, m) >>, g, h)
    <2>1. Makes(<< OnMeter("limit", a, k, m) >>, h, h)
      BY <1>3, Idles, DoFields
    <2> QED
      BY <1>6, <2>1, TwoOnes, MakesOn
  <1> QED
    BY <1>2, <1>3, <1>6, <1>7 DEF x, h

LEMMA CountedType ==
    ASSUME NEW u \in [Accounts -> [Meters -> Int]], NEW a \in Accounts, NEW n \in Int, NEW m
    PROVE  /\ Counted(u, a, m, n) \in [Accounts -> [Meters -> Int]]
           /\ \A x \in Accounts, y \in Meters :
                Counted(u, a, m, n)[x][y] = IF x = a /\ y = m THEN u[x][y] + n ELSE u[x][y]
  <1> DEFINE v == [u[a] EXCEPT ![m] = u[a][m] + n]
             w == Counted(u, a, m, n)
  <1>1. w = [u EXCEPT ![a] = v]
    BY DEF Counted
  <1>2. u[a] \in [Meters -> Int]
    OBVIOUS
  <1>3. v \in [Meters -> Int] /\ \A y \in Meters : v[y] = IF y = m THEN u[a][y] + n ELSE u[a][y]
    <2>1. ASSUME NEW f \in [Meters -> Int], NEW k, m \in Meters => k \in Int
          PROVE  /\ [f EXCEPT ![m] = k] \in [Meters -> Int]
                 /\ \A y \in Meters : [f EXCEPT ![m] = k][y] = IF y = m THEN k ELSE f[y]
      BY <2>1
    <2>2. m \in Meters => u[a][m] + n \in Int
      BY <1>2
    <2>3. \A y \in Meters : v[y] = IF y = m THEN u[a][m] + n ELSE u[a][y]
      BY <1>2, <2>1, <2>2
    <2>4. v \in [Meters -> Int]
      BY <1>2, <2>1, <2>2
    <2> QED
      BY <2>3, <2>4
  <1> HIDE DEF v, w
  <1>4. w \in [Accounts -> [Meters -> Int]]
    BY <1>1, <1>3
  <1>5. \A x \in Accounts : w[x] = IF x = a THEN v ELSE u[x]
    BY <1>1
  <1> QED
    BY <1>3, <1>4, <1>5 DEF w

LEMMA UseMakes ==
    ASSUME NEW g \in Progress, NEW a \in Accounts, NEW n \in Int, NEW m, a \in g.locked
    PROVE  LET h == [g EXCEPT !.use = Counted(g.use, a, m, n)] IN
             h \in Progress /\ Makes(<< OnMeter("use", a, n, m) >>, g, h)
  <1> DEFINE x == OnMeter("use", a, n, m)  h == [g EXCEPT !.use = Counted(g.use, a, m, n)]
  <1>1. x.op = "use" /\ x.row = a /\ x.amt = n /\ x.tag = m
    BY DEF OnMeter, Stmt
  <1>2. h \in Progress
    <2>1. g.use \in [Accounts -> [Meters -> Int]]
      BY DEF Progress
    <2>2. Counted(g.use, a, m, n) \in [Accounts -> [Meters -> Int]]
      BY <2>1, CountedType
    <2> QED
      BY <2>2 DEF Progress
  <1> HIDE DEF x
  <1>3. Adds(g, x, h)
    BY <1>1 DEF Adds
  <1>4. Makes(<< x >>, g, h)
    BY <1>2, <1>3, MakesByOne
  <1> QED
    BY <1>2, <1>4 DEF x

\* The counter a movement consumes is that of its kind.
LEMMA CountedIsConsumed ==
    ASSUME NEW m \in Move, NEW u, u = Counted(NothingDone.use, m.from, m.kind, m.amt)
    PROVE  u = Consumes(m)
  <1>1. m.from \in Accounts /\ m.amt \in Nat
    BY DEF Move
  <1>2. /\ NothingDone.use \in [Accounts -> [Meters -> Int]]
        /\ \A x \in Accounts, y \in Meters : NothingDone.use[x][y] = 0
    BY DEF NothingDone
  <1>3. /\ u \in [Accounts -> [Meters -> Int]]
        /\ \A x \in Accounts, y \in Meters :
             u[x][y] = IF x = m.from /\ m.kind = y THEN m.amt ELSE 0
    BY <1>1, <1>2, CountedType
  <1> DEFINE v == Consumes(m)
  <1>4. v \in [Accounts -> [Meters -> Int]]
        /\ \A x \in Accounts, y \in Meters :
             v[x][y] = IF x = m.from /\ m.kind = y THEN m.amt ELSE 0
    BY <1>1 DEF Consumes
  <1> HIDE DEF v
  <1>5. \A x \in Accounts : u[x] = v[x]
    <2> SUFFICES ASSUME NEW x \in Accounts PROVE u[x] = v[x]
      OBVIOUS
    <2>1. u[x] \in [Meters -> Int] /\ v[x] \in [Meters -> Int]
      BY <1>3, <1>4
    <2>2. \A y \in Meters : u[x][y] = v[x][y]
      BY <1>3, <1>4
    <2> QED
      BY <2>1, <2>2
  <1>6. u = v
    BY <1>3, <1>4, <1>5
  <1> QED
    BY <1>6 DEF v

\* Movements of other kinds consume none.
LEMMA ConsumesNothing ==
    ASSUME NEW m \in Move, m.kind \in {"deposit", "reversal"}
    PROVE  NothingDone.use = Consumes(m)
  <1>1. \A y \in Meters : m.kind # y
    BY SidesAssumption
  <1> QED
    BY <1>1 DEF NothingDone, Consumes

\* The record of a transfer goes in, that of the reversed movement is marked.
Inserted(g, d) == [g EXCEPT !.locked = g.locked \cup {d}, !.made = g.made \cup {d}]
Reversed(g, d) == [g EXCEPT !.locked = g.locked \cup {d}, !.undone = g.undone \cup {d}]

LEMMA RecordMakes ==
    ASSUME NEW g \in Progress, NEW d \in Docs \ g.locked
    PROVE  /\ Makes(<< OnDoc("insert", d, Absent, "completed") >>, g, Inserted(g, d))
           /\ Makes(<< OnDoc("mark", d, "completed", "reversed") >>, g, Reversed(g, d))
           /\ Inserted(g, d) \in Progress /\ Reversed(g, d) \in Progress
  <1> DEFINE x == OnDoc("insert", d, Absent, "completed")
             y == OnDoc("mark", d, "completed", "reversed")
  <1>1. Inserted(g, d) \in Progress /\ Reversed(g, d) \in Progress
    BY DEF Inserted, Reversed, Progress, Rows
  <1>2. /\ x.op = "insert" /\ x.row = d /\ x.was = Absent /\ x.tag = "completed"
        /\ y.op = "mark" /\ y.row = d /\ y.was = "completed" /\ y.tag = "reversed"
    BY DEF OnDoc, Stmt
  <1> HIDE DEF x, y
  <1>3. Adds(g, x, Inserted(g, d))
    BY <1>2 DEF Adds, Inserted
  <1>4. Adds(g, y, Reversed(g, d))
    BY <1>2 DEF Adds, Reversed
  <1>5. Makes(<< x >>, g, Inserted(g, d)) /\ Makes(<< y >>, g, Reversed(g, d))
    BY <1>1, <1>3, <1>4, MakesByOne
  <1> QED
    BY <1>1, <1>5 DEF x, y

LEMMA RecordFields ==
    ASSUME NEW g \in Progress, NEW d
    PROVE  /\ Inserted(g, d).locked = g.locked \cup {d}
           /\ Inserted(g, d).made = g.made \cup {d} /\ Inserted(g, d).undone = g.undone
           /\ Inserted(g, d).net = g.net /\ Inserted(g, d).use = g.use
           /\ Inserted(g, d).stale = g.stale /\ Inserted(g, d).funds = g.funds
           /\ Reversed(g, d).locked = g.locked \cup {d}
           /\ Reversed(g, d).made = g.made /\ Reversed(g, d).undone = g.undone \cup {d}
           /\ Reversed(g, d).net = g.net /\ Reversed(g, d).use = g.use
           /\ Reversed(g, d).stale = g.stale /\ Reversed(g, d).funds = g.funds
  BY DEF Inserted, Reversed, Progress

LEMMA CheckedFields ==
    ASSUME NEW g \in Progress, NEW a \in Accounts, NEW n \in Int
    PROVE  /\ Checked(g, a, n).locked = g.locked /\ Checked(g, a, n).net = g.net
           /\ Checked(g, a, n).use = g.use /\ Checked(g, a, n).stale = g.stale
           /\ Checked(g, a, n).made = g.made /\ Checked(g, a, n).undone = g.undone
           /\ Checked(g, a, n).funds[a] = n
  BY DEF Checked, Progress

LEMMA CoreMakes ==
    ASSUME NEW g \in Progress, NEW n
    PROVE  Makes(Deposits(n), g, g) /\ Makes(Ends, g, g)
  BY Idles, DoFields DEF Deposits, Ends

LEMMA NetValues ==
    ASSUME NEW m \in Move
    PROVE  /\ Net(m) \in [Accounts -> Int]
           /\ \A x \in Accounts :
                /\ m.kind \in {"deposit", "withdrawal"} =>
                     Net(m)[x] = (IF x = m.to THEN m.amt ELSE 0)
                                   - (IF x = m.from THEN m.amt ELSE 0)
                /\ m.kind = "transfer" =>
                     Net(m)[x] = (IF x = m.to THEN m.amt ELSE 0)
                                   - (IF x = m.from THEN m.amt + TransferFee ELSE 0)
                                   + (IF x = Cash THEN TransferFee ELSE 0)
                /\ m.kind = "reversal" =>
                     Net(m)[x] = (IF x = m.from THEN m.amt ELSE 0)
                                   - (IF x = m.to THEN m.amt ELSE 0)
  <1>1. m.amt \in Int /\ TransferFee \in Int
    BY MovesAssumption DEF Move
  <1> QED
    BY <1>1 DEF Net

LEMMA SameEntries ==
    ASSUME NEW e \in [Accounts -> Int], NEW f \in [Accounts -> Int],
           \A x \in Accounts : e[x] = f[x]
    PROVE  e = f
  OBVIOUS

-----------------------------------------------------------------------------
(* The whole scripts. *)

Finishes(s, m) == \E h \in Progress : Makes(s, NothingDone, h) /\ Complete(h, m)

LEMMA DepositFinishes ==
    ASSUME NEW m \in Move, m.kind = "deposit", m.from = Cash, m.to # Cash
    PROVE  Finishes(Deposit(m), m)
  <1> DEFINE L == {m.to, Cash}
             g == OnlyLocked(L)
             h == Moved(g, Cash, m.to, m.amt)
             locks == LocksOf(CashLast(m.to, Cash))
             post == PostMovement(Cash, m.to, m.amt, Deposits(m.amt))
  <1>1. m.to \in Accounts /\ Cash \in Accounts /\ m.amt \in Int /\ L \in SUBSET Rows
    BY MoveTypes DEF Move, Rows
  <1>2. /\ g \in Progress /\ g.stale = {} /\ g.locked = L /\ g.net = NoEntries
        /\ g.use = NothingDone.use /\ g.made = {} /\ g.undone = {}
    BY <1>1, OnlyLockedType
  <1>3. Makes(locks, NothingDone, g)
    BY <1>1, LocksLead
  <1> HIDE DEF g, locks
  <1>4. h \in Progress
    BY <1>1, <1>2, MovedInProgress
  <1>5. Makes(post, g, h) /\ Shifts(h, g, Cash, m.to, m.amt)
    BY <1>1, <1>2, <1>4, CoreMakes, PostingMakes, MovedFields
  <1> HIDE DEF h, post
  <1>6. /\ h.use = g.use /\ h.made = {} /\ h.undone = {} /\ h.stale = {}
        /\ h.net \in [Accounts -> Int]
        /\ \A x \in Accounts :
             h.net[x] = g.net[x] + (IF x = m.to THEN m.amt ELSE 0)
                                 - (IF x = Cash THEN m.amt ELSE 0)
    BY <1>2, <1>5 DEF Shifts
  <1>7. \A x \in Accounts : h.net[x] = Net(m)[x]
    BY <1>1, <1>2, <1>6, NetValues DEF NoEntries
  <1>8. h.net = Net(m)
    BY <1>6, <1>7, NetValues, SameEntries
  <1>9. \A a \in Customers : ~(h.net[a] < 0)
    BY <1>1, <1>2, <1>6 DEF Customers, NoEntries, Move
  <1>10. Complete(h, m)
    BY <1>2, <1>6, <1>8, <1>9, ConsumesNothing DEF Complete
  <1>11. Makes(locks \o post \o Ends, NothingDone, h)
    BY <1>3, <1>4, <1>5, CoreMakes, MakesOn
  <1> QED
    BY <1>4, <1>10, <1>11 DEF Finishes, Deposit, locks, post

LEMMA WithdrawFinishes ==
    ASSUME NEW m \in Move, m.kind = "withdrawal", m.to = Cash, m.from # Cash
    PROVE  Finishes(Withdraw(m), m)
  <1> DEFINE L == {m.from, Cash}
             f == OnlyLocked(L)
             g == Checked(f, m.from, m.amt)
             i == Moved(g, m.from, Cash, m.amt)
             h == [i EXCEPT !.use = Counted(i.use, m.from, "withdrawal", m.amt)]
             locks == LocksOf(CashLast(m.from, Cash))
             checks == << Do("funds", m.from, m.amt),
                          OnMeter("limit", m.from, m.amt, "withdrawal") >>
             post == PostMovement(m.from, Cash, m.amt, Deposits(-m.amt))
             use == << OnMeter("use", m.from, m.amt, "withdrawal") >>
  <1>1. /\ m.from \in Accounts /\ Cash \in Accounts /\ m.amt \in Int
        /\ m.from \in L /\ {m.from, Cash} \subseteq L /\ L \in SUBSET Rows
    BY MoveTypes DEF Move, Rows
  <1>2. /\ f \in Progress /\ f.stale = {} /\ f.locked = L /\ f.net = NoEntries
        /\ f.use = NothingDone.use /\ f.made = {} /\ f.undone = {}
    BY <1>1, OnlyLockedType
  <1>3. Makes(locks, NothingDone, f)
    BY <1>1, LocksLead
  <1> HIDE DEF L, f, locks
  <1>4. Makes(checks, f, g) /\ g \in Progress
    BY <1>1, <1>2, FundsLead
  <1>5. /\ g.stale = {} /\ g.locked = L /\ g.net = NoEntries
        /\ g.use = NothingDone.use /\ g.made = {} /\ g.undone = {} /\ g.funds[m.from] = m.amt
    BY <1>1, <1>2, CheckedFields
  <1> HIDE DEF g, checks
  <1>6. i \in Progress
    BY <1>1, <1>4, MovedInProgress
  <1>7. Makes(post, g, i) /\ Shifts(i, g, m.from, Cash, m.amt)
    BY <1>1, <1>4, <1>5, <1>6, CoreMakes, PostingMakes, MovedFields
  <1> HIDE DEF i, post
  <1>8. /\ i.locked = L /\ i.use = g.use /\ i.made = {} /\ i.undone = {} /\ i.stale = {}
        /\ i.funds = g.funds /\ i.net \in [Accounts -> Int]
        /\ \A x \in Accounts :
             i.net[x] = g.net[x] + (IF x = Cash THEN m.amt ELSE 0)
                                 - (IF x = m.from THEN m.amt ELSE 0)
    BY <1>5, <1>7 DEF Shifts
  <1>9. h \in Progress /\ Makes(use, i, h)
    BY <1>1, <1>6, <1>8, UseMakes
  <1>10. /\ h.net = i.net /\ h.stale = {} /\ h.made = {} /\ h.undone = {} /\ h.funds = i.funds
         /\ h.use = Counted(NothingDone.use, m.from, m.kind, m.amt)
    BY <1>5, <1>6, <1>8 DEF Progress
  <1> HIDE DEF h, use
  <1>11. h.use = Consumes(m)
    BY <1>10, CountedIsConsumed
  <1>12. \A x \in Accounts : h.net[x] = Net(m)[x]
    BY <1>1, <1>5, <1>8, <1>10, NetValues DEF NoEntries
  <1>13. h.net = Net(m)
    BY <1>8, <1>10, <1>12, NetValues, SameEntries
  <1>14. \A a \in Customers : h.net[a] < 0 => h.funds[a] + h.net[a] >= 0
    BY <1>1, <1>5, <1>8, <1>10 DEF Customers, NoEntries, Move
  <1>15. Complete(h, m)
    BY <1>10, <1>11, <1>13, <1>14 DEF Complete
  <1>16. Makes(locks \o checks \o post, NothingDone, i)
    BY <1>3, <1>4, <1>7, MakesOn
  <1>17. Makes(locks \o checks \o post \o use \o Ends, NothingDone, h)
    BY <1>9, <1>16, CoreMakes, MakesOn
  <1>18. Withdraw(m) = locks \o checks \o post \o use \o Ends
    BY DEF Withdraw, locks, checks, post, use
  <1> QED
    BY <1>9, <1>15, <1>17, <1>18 DEF Finishes

LEMMA TransferFinishes ==
    ASSUME NEW m \in Move, m.kind = "transfer", m.to # m.from
    PROVE  Finishes(Transfer(m), m)
  <1> DEFINE L == {m.from, m.to, Cash}
             f == OnlyLocked(L)
             c == Checked(f, m.from, m.amt + TransferFee)
             d == IF m.txn = NoKey THEN c ELSE Inserted(c, m.txn)
             g == Moved(d, m.from, m.to, m.amt)
             i == IF TransferFee = 0 THEN g ELSE Moved(g, m.from, Cash, TransferFee)
             h == [i EXCEPT !.use = Counted(i.use, m.from, "transfer", m.amt)]
             find == Keyed(m, OnDoc("find", m.txn, Blank, Blank))
             locks == LocksOf(Append(CashLast(m.from, m.to), Cash))
             checks == << Do("funds", m.from, m.amt + TransferFee),
                          OnMeter("limit", m.from, m.amt, "transfer") >>
             insert == Keyed(m, OnDoc("insert", m.txn, Absent, "completed"))
             post == PostMovement(m.from, m.to, m.amt, << >>)
             charge == ChargeFee(m)
             use == << OnMeter("use", m.from, m.amt, "transfer") >>
  <1>1. /\ m.from \in Accounts /\ m.to \in Accounts /\ Cash \in Accounts
        /\ m.amt \in Int /\ TransferFee \in Int /\ m.amt + TransferFee \in Int
        /\ m.from \in L /\ {m.from, m.to} \subseteq L /\ {m.from, Cash} \subseteq L
        /\ L \in SUBSET Rows /\ L \subseteq Accounts
    BY MoveTypes, MovesAssumption DEF Move, Rows
  <1>2. /\ f \in Progress /\ f.stale = {} /\ f.locked = L /\ f.net = NoEntries
        /\ f.use = NothingDone.use /\ f.made = {} /\ f.undone = {}
    BY <1>1, OnlyLockedType
  <1>3. Makes(locks, NothingDone, f)
    BY <1>1, LocksLead
  <1>4. Makes(find, NothingDone, NothingDone)
    BY StartType, Idles, DoFields, MakesNothing DEF Keyed
  <1> HIDE DEF L, f, find, locks
  <1>5. Makes(checks, f, c) /\ c \in Progress
    BY <1>1, <1>2, FundsLead
  <1>6. /\ c.stale = {} /\ c.locked = L /\ c.net = NoEntries
        /\ c.use = NothingDone.use /\ c.made = {} /\ c.undone = {}
        /\ c.funds[m.from] = m.amt + TransferFee
    BY <1>1, <1>2, CheckedFields
  <1> HIDE DEF c, checks
  <1>7. /\ Makes(insert, c, d) /\ d \in Progress
        /\ d.stale = {} /\ L \subseteq d.locked /\ d.net = NoEntries
        /\ d.use = NothingDone.use /\ d.made = {m.txn} \ {NoKey} /\ d.undone = {}
        /\ d.funds[m.from] = m.amt + TransferFee
    <2>1. CASE m.txn = NoKey
      BY <1>5, <1>6, <2>1, MakesNothing DEF Keyed
    <2>2. CASE m.txn # NoKey
      <3>1. m.txn \in Docs \ c.locked
        BY <1>1, <1>6, <2>2, NamesAssumption DEF Move
      <3>2. d = Inserted(c, m.txn) /\ {} \cup {m.txn} = {m.txn} \ {NoKey}
        BY <2>2
      <3>3. insert = << OnDoc("insert", m.txn, Absent, "completed") >>
        BY <2>2 DEF Keyed
      <3> HIDE DEF d, insert
      <3>4. Makes(insert, c, d) /\ d \in Progress
        BY <1>5, <3>1, <3>2, <3>3, RecordMakes
      <3>5. /\ d.locked = c.locked \cup {m.txn} /\ d.made = c.made \cup {m.txn}
            /\ d.undone = c.undone /\ d.net = c.net /\ d.use = c.use
            /\ d.stale = c.stale /\ d.funds = c.funds
        BY <1>5, <3>2, RecordFields
      <3> QED
        BY <1>6, <3>2, <3>4, <3>5
    <2> QED
      BY <2>1, <2>2
  <1> HIDE DEF d, insert
  <1>8. g \in Progress
    BY <1>1, <1>7, MovedInProgress
  <1>9. Makes(post, d, g) /\ Shifts(g, d, m.from, m.to, m.amt)
    BY <1>1, <1>7, <1>8, MakesNothing, PostingMakes, MovedFields
  <1> HIDE DEF g, post
  <1>10. /\ g.locked = d.locked /\ g.use = d.use /\ g.made = {m.txn} \ {NoKey}
         /\ g.undone = {} /\ g.stale = {} /\ g.funds = d.funds /\ g.net \in [Accounts -> Int]
         /\ {m.from, Cash} \subseteq g.locked
    BY <1>1, <1>7, <1>9 DEF Shifts
  <1>11. \A x \in Accounts :
             g.net[x] = (IF x = m.to THEN m.amt ELSE 0) - (IF x = m.from THEN m.amt ELSE 0)
    BY <1>1, <1>7, <1>9 DEF Shifts, NoEntries
  <1>12. i \in Progress /\ Makes(charge, g, i)
    <2>1. CASE TransferFee = 0
      BY <1>8, <2>1, MakesNothing DEF ChargeFee
    <2>2. CASE TransferFee # 0
      <3>1. Moved(g, m.from, Cash, TransferFee) \in Progress
        BY <1>1, <1>8, MovedInProgress
      <3>2. Makes(PostMovement(m.from, Cash, TransferFee, Deposits(-TransferFee)),
                  g, Moved(g, m.from, Cash, TransferFee))
        BY <1>1, <1>8, <1>10, <3>1, CoreMakes, PostingMakes
      <3> QED
        BY <2>2, <3>1, <3>2 DEF ChargeFee
    <2> QED
      BY <2>1, <2>2
  <1>13. /\ i.locked = g.locked /\ i.use = g.use /\ i.made = g.made
         /\ i.undone = {} /\ i.stale = {} /\ i.funds = g.funds /\ i.net \in [Accounts -> Int]
         /\ \A x \in Accounts :
              i.net[x] = g.net[x] + (IF x = Cash THEN TransferFee ELSE 0)
                                  - (IF x = m.from THEN TransferFee ELSE 0)
    <2>1. CASE TransferFee = 0
      BY <1>10, <2>1
    <2>2. CASE TransferFee # 0
      <3>1. Shifts(i, g, m.from, Cash, TransferFee)
        BY <1>1, <1>8, <2>2, MovedFields
      <3> HIDE DEF i
      <3> QED
        BY <1>10, <3>1 DEF Shifts
    <2> QED
      BY <2>1, <2>2
  <1> HIDE DEF i, charge
  <1>14. h \in Progress /\ Makes(use, i, h)
    BY <1>1, <1>10, <1>12, <1>13, UseMakes
  <1>15. /\ h.net = i.net /\ h.stale = {} /\ h.made = {m.txn} \ {NoKey} /\ h.undone = {}
         /\ h.funds[m.from] = m.amt + TransferFee
         /\ h.use = Counted(NothingDone.use, m.from, m.kind, m.amt)
    BY <1>7, <1>10, <1>12, <1>13 DEF Progress
  <1> HIDE DEF h, use
  <1>16. h.use = Consumes(m)
    BY <1>15, CountedIsConsumed
  <1>17. \A x \in Accounts : h.net[x] = Net(m)[x]
    <2> SUFFICES ASSUME NEW x \in Accounts PROVE h.net[x] = Net(m)[x]
      OBVIOUS
    <2>1. Net(m)[x] = (IF x = m.to THEN m.amt ELSE 0)
                        - (IF x = m.from THEN m.amt + TransferFee ELSE 0)
                        + (IF x = Cash THEN TransferFee ELSE 0)
      BY NetValues
    <2>2. h.net[x] = (IF x = m.to THEN m.amt ELSE 0) - (IF x = m.from THEN m.amt ELSE 0)
                        + (IF x = Cash THEN TransferFee ELSE 0)
                        - (IF x = m.from THEN TransferFee ELSE 0)
      BY <1>11, <1>13, <1>15
    <2> QED
      BY <1>1, <2>1, <2>2
  <1>18. h.net = Net(m)
    BY <1>13, <1>15, <1>17, NetValues, SameEntries
  <1>19. \A a \in Customers : h.net[a] < 0 => h.funds[a] + h.net[a] >= 0
    BY <1>1, <1>11, <1>13, <1>15, MovesAssumption DEF Customers, Move
  <1>20. Complete(h, m)
    BY <1>15, <1>16, <1>18, <1>19 DEF Complete
  <1>21. Makes(find \o locks \o checks, NothingDone, c)
    BY <1>3, <1>4, <1>5, MakesOn
  <1>22. Makes(find \o locks \o checks \o insert \o post, NothingDone, g)
    BY <1>7, <1>9, <1>21, MakesOn
  <1>23. Makes(find \o locks \o checks \o insert \o post \o charge \o use, NothingDone, h)
    BY <1>12, <1>14, <1>22, MakesOn
  <1>24. Makes(find \o locks \o checks \o insert \o post \o charge \o use \o Ends, NothingDone, h)
    BY <1>14, <1>23, CoreMakes, MakesOn
  <1>25. Transfer(m) = find \o locks \o checks \o insert \o post \o charge \o use \o Ends
    BY DEF Transfer, find, locks, checks, insert, post, charge, use
  <1> QED
    BY <1>14, <1>20, <1>24, <1>25 DEF Finishes

LEMMA ReverseFinishes ==
    ASSUME NEW m \in Move, m.kind = "reversal", m.txn \in Docs, m.to # m.from
    PROVE  Finishes(Reverse(m), m)
  <1> DEFINE L == {m.to, m.from}
             f == OnlyLocked(L)
             d == Reversed(f, m.txn)
             c == IF m.to = Cash THEN d ELSE Checked(d, m.to, m.amt)
             h == Moved(c, m.to, m.from, m.amt)
             expect == << OnDoc("expect", m.txn, "completed", Blank) >>
             locks == LocksOf(CashLast(m.to, m.from))
             mark == << OnDoc("mark", m.txn, "completed", "reversed") >>
             funds == IF m.to = Cash THEN << >> ELSE << Do("funds", m.to, m.amt) >>
             post == PostMovement(m.to, m.from, m.amt, UndoGL(m))
  <1>1. /\ m.from \in Accounts /\ m.to \in Accounts /\ m.amt \in Int
        /\ m.to \in L /\ {m.to, m.from} \subseteq L /\ L \in SUBSET Rows /\ L \subseteq Accounts
    BY MoveTypes DEF Move, Rows
  <1>2. /\ f \in Progress /\ f.stale = {} /\ f.locked = L /\ f.net = NoEntries
        /\ f.use = NothingDone.use /\ f.made = {} /\ f.undone = {}
    BY <1>1, OnlyLockedType
  <1>3. Makes(locks, NothingDone, f) /\ Makes(expect, NothingDone, NothingDone)
    <2>1. Makes(locks, NothingDone, f)
      BY <1>1, LocksLead
    <2>2. Makes(expect, NothingDone, NothingDone)
      BY StartType, Idles, DoFields
    <2> QED
      BY <2>1, <2>2
  <1> HIDE DEF L, f, locks, expect
  <1>4. m.txn \in Docs \ f.locked
    BY <1>1, <1>2, NamesAssumption
  <1>5. Makes(mark, f, d) /\ d \in Progress
    BY <1>2, <1>4, RecordMakes
  <1>6. /\ d.stale = {} /\ L \subseteq d.locked /\ d.net = NoEntries
        /\ d.use = NothingDone.use /\ d.made = {} /\ d.undone = {m.txn}
    BY <1>2, RecordFields
  <1> HIDE DEF d, mark
  <1>7. /\ c \in Progress /\ Makes(funds, d, c)
        /\ c.stale = {} /\ c.locked = d.locked /\ c.net = NoEntries
        /\ c.use = NothingDone.use /\ c.made = {} /\ c.undone = {m.txn}
        /\ (m.to # Cash => c.funds[m.to] = m.amt)
    <2>1. CASE m.to = Cash
      BY <1>5, <1>6, <2>1, MakesNothing
    <2>2. CASE m.to # Cash
      <3>1. m.to \in d.locked
        BY <1>1, <1>6
      <3>2. c = Checked(d, m.to, m.amt) /\ funds = << Do("funds", m.to, m.amt) >>
        BY <2>2
      <3> HIDE DEF c, funds
      <3>3. c \in Progress /\ Makes(funds, d, c)
        BY <1>1, <1>5, <1>6, <3>1, <3>2, FundsLead
      <3>4. /\ c.locked = d.locked /\ c.net = d.net /\ c.use = d.use /\ c.stale = d.stale
            /\ c.made = d.made /\ c.undone = d.undone /\ c.funds[m.to] = m.amt
        BY <1>1, <1>5, <3>2, CheckedFields
      <3> QED
        BY <1>6, <3>3, <3>4
    <2> QED
      BY <2>1, <2>2
  <1> HIDE DEF c, funds
  <1>8. h \in Progress /\ Makes(UndoGL(m), h, h)
    BY <1>1, <1>7, MovedInProgress, CoreMakes, MakesNothing DEF UndoGL
  <1>9. Makes(post, c, h) /\ Shifts(h, c, m.to, m.from, m.amt)
    <2>1. {m.to, m.from} \subseteq c.locked
      BY <1>1, <1>6, <1>7
    <2> QED
      BY <1>1, <1>7, <1>8, <2>1, PostingMakes, MovedFields
  <1> HIDE DEF h, post
  <1>10. /\ h.use = NothingDone.use /\ h.made = {} /\ h.undone = {m.txn} /\ h.stale = {}
         /\ h.funds = c.funds /\ h.net \in [Accounts -> Int]
         /\ \A x \in Accounts :
              h.net[x] = (IF x = m.from THEN m.amt ELSE 0) - (IF x = m.to THEN m.amt ELSE 0)
    <2>1. /\ h.use = NothingDone.use /\ h.made = {} /\ h.undone = {m.txn} /\ h.stale = {}
          /\ h.funds = c.funds /\ h.net \in [Accounts -> Int]
      BY <1>7, <1>9 DEF Shifts
    <2>2. \A x \in Accounts : c.net[x] = 0
      BY <1>7 DEF NoEntries
    <2>3. \A x \in Accounts :
              h.net[x] = (IF x = m.from THEN m.amt ELSE 0) - (IF x = m.to THEN m.amt ELSE 0)
      BY <1>1, <1>9, <2>2 DEF Shifts
    <2> QED
      BY <2>1, <2>3
  <1>11. \A x \in Accounts : h.net[x] = Net(m)[x]
    BY <1>10, NetValues
  <1>12. h.net = Net(m)
    BY <1>10, <1>11, NetValues, SameEntries
  <1>13. \A a \in Customers : h.net[a] < 0 => h.funds[a] + h.net[a] >= 0
    BY <1>1, <1>7, <1>10 DEF Customers, Move
  <1>14. Complete(h, m)
    BY <1>10, <1>12, <1>13, ConsumesNothing DEF Complete
  <1>15. Makes(expect \o locks \o mark, NothingDone, d)
    BY <1>3, <1>5, MakesOn
  <1>16. Makes(expect \o locks \o mark \o funds \o post, NothingDone, h)
    BY <1>7, <1>9, <1>15, MakesOn
  <1>17. Makes(expect \o locks \o mark \o funds \o post \o Ends, NothingDone, h)
    BY <1>8, <1>16, CoreMakes, MakesOn
  <1>18. Reverse(m) = expect \o locks \o mark \o funds \o post \o Ends
    BY DEF Reverse, expect, locks, mark, funds, post
  <1> QED
    BY <1>8, <1>14, <1>17, <1>18 DEF Finishes

LEMMA ScriptsFinish ==
    ASSUME NEW t \in Tasks
    PROVE  Finishes(Script[t], Moves[t])
  <1>1. Moves[t] \in Move /\ Script[t] = ScriptOf(Moves[t]) /\ Moves[t].from # Moves[t].to
    BY MovesAssumption, ScriptsAssumption
  <1>2. /\ Moves[t].kind \in Kinds
        /\ Moves[t].kind = "deposit" => Moves[t].from = Cash
        /\ Moves[t].kind = "withdrawal" => Moves[t].to = Cash
        /\ Moves[t].kind = "reversal" => Moves[t].txn \in Docs
    BY <1>1, MoveTypes, SidesAssumption
  <1> DEFINE m == Moves[t]
  <1> HIDE DEF m
  <1>3. CASE m.kind = "deposit"
    BY <1>1, <1>2, <1>3, DepositFinishes DEF ScriptOf, m
  <1>4. CASE m.kind = "withdrawal"
    BY <1>1, <1>2, <1>4, WithdrawFinishes DEF ScriptOf, m
  <1>5. CASE m.kind = "transfer"
    BY <1>1, <1>2, <1>5, TransferFinishes DEF ScriptOf, m
  <1>6. CASE m.kind = "reversal"
    BY <1>1, <1>2, <1>6, ReverseFinishes DEF ScriptOf, m
  <1> QED
    BY <1>2, <1>3, <1>4, <1>5, <1>6 DEF Kinds, m

-----------------------------------------------------------------------------
(* How far each open transaction is. *)

\* A walk of script t from nothing done to its whole movement.
WalksWhole(t, w) ==
    /\ IsCourse(w, Script[t])
    /\ w[1] = NothingDone
    /\ Complete(w[Len(Script[t])], Moves[t])

Walks == [t \in Tasks |-> CHOOSE w : WalksWhole(t, w)]

ProgressOf(r) == Walks[task[r]][pc[r]]

LEMMA WalksAreWhole ==
    ASSUME NEW t \in Tasks PROVE WalksWhole(t, Walks[t])
  <1> DEFINE s == Script[t]  n == Len(s)
  <1>1. /\ s \in Seq(Statement) /\ n \in Nat /\ n \in 1..n /\ s[n].op = "commit"
    BY ScriptAssumption
  <1>2. PICK h \in Progress : Makes(s, NothingDone, h) /\ Complete(h, Moves[t])
    BY ScriptsFinish DEF Finishes
  <1>3. PICK w : IsCourse(w, s) /\ w[1] = NothingDone /\ w[n+1] = h
    BY <1>2 DEF Makes
  <1>4. Adds(w[n], s[n], w[n+1])
    BY <1>1, <1>3 DEF IsCourse
  <1>5. w[n+1] = w[n]
    BY <1>1, <1>4 DEF Adds
  <1>6. WalksWhole(t, w)
    BY <1>2, <1>3, <1>5 DEF WalksWhole
  <1> QED
    BY <1>6 DEF Walks

LEMMA ProgressMade ==
    ASSUME TypeOK, NEW r \in Open
    PROVE  /\ ProgressOf(r) \in Progress
           /\ Upcoming(r).op = "commit" => Complete(ProgressOf(r), Moves[task[r]])
           /\ Walks[task[r]][pc[r]+1] \in Progress
           /\ Adds(ProgressOf(r), Upcoming(r), Walks[task[r]][pc[r]+1])
  <1> DEFINE t == task[r]  s == Script[t]  w == Walks[t]  i == pc[r]
  <1>1. /\ t \in Tasks /\ i \in 1..Len(s) /\ Len(s) \in Nat
        /\ s[i] = Upcoming(r) /\ (s[i].op = "commit" => i = Len(s))
    BY UpcomingStatement, ScriptAssumption DEF Upcoming
  <1>2. WalksWhole(t, w)
    BY <1>1, WalksAreWhole
  <1>3. i \in 1..Len(s)+1 /\ i + 1 \in 1..Len(s)+1
    BY <1>1
  <1> HIDE DEF t, s, w, i
  <1>4. w[i] \in Progress /\ w[i+1] \in Progress /\ Adds(w[i], s[i], w[i+1])
    BY <1>1, <1>2, <1>3 DEF WalksWhole, IsCourse, s
  <1>5. s[i].op = "commit" => Complete(w[i], Moves[t])
    BY <1>1, <1>2 DEF WalksWhole, s
  <1>6. ProgressOf(r) = w[i]
    BY DEF ProgressOf, w, t, i
  <1> QED
    BY <1>1, <1>4, <1>5, <1>6 DEF w, t, i

\* Nothing is done outside the locked rows.
Sane(g) ==
    /\ \A a \in Accounts \ g.locked :
         g.net[a] = 0 /\ g.funds[a] = 0 /\ \A m \in Meters : g.use[a][m] = 0
    /\ g.made \cup g.undone = g.locked \cap Docs
    /\ g.made \cap g.undone = {}

LEMMA StartIsSane == Sane(NothingDone)
  BY DEF Sane, NothingDone, NoEntries

LEMMA StaysSane ==
    ASSUME NEW g \in Progress, NEW h \in Progress, NEW s \in Statement, Adds(g, s, h), Sane(g)
    PROVE  Sane(h)
  <1>1. CASE s.op \in {"find", "expect", "limit", "read", "gl", "commit"}
    BY <1>1 DEF Adds
  <1>2. s.op \in AccountOps => s.row \in Accounts /\ s.amt \in Int
    BY AccountStatement
  <1>3. CASE s.op \in {"lock", "floor", "recompute"}
    <2>1. /\ h.net = g.net /\ h.funds = g.funds /\ h.use = g.use /\ h.made = g.made
          /\ h.undone = g.undone
      BY <1>3 DEF Adds, Progress
    <2>2. s.row \in Accounts
      BY <1>2, <1>3 DEF AccountOps, AccountWrites
    <2>3. h.locked = g.locked \/ h.locked = g.locked \cup {s.row}
      BY <1>3 DEF Adds, Progress
    <2> QED
      BY <2>1, <2>2, <2>3, NamesAssumption DEF Sane
  <1>4. CASE s.op = "funds"
    <2>1. /\ h.net = g.net /\ h.use = g.use /\ h.made = g.made
          /\ h.undone = g.undone /\ h.locked = g.locked /\ s.row \in g.locked
          /\ h.funds = [g.funds EXCEPT ![s.row] = s.amt]
      BY <1>4 DEF Adds, Progress
    <2>2. \A a \in Accounts \ g.locked : h.funds[a] = g.funds[a]
      BY <2>1 DEF Progress
    <2> QED
      BY <2>1, <2>2 DEF Sane
  <1>5. CASE s.op = "write"
    <2>1. /\ h.funds = g.funds /\ h.use = g.use /\ h.made = g.made
          /\ h.undone = g.undone /\ h.locked = g.locked /\ s.row \in g.locked
          /\ h.net = Added(g.net, s.row, s.amt)
      BY <1>5 DEF Adds, Progress
    <2>2. \A a \in Accounts \ g.locked : h.net[a] = g.net[a]
      BY <2>1 DEF Progress, Added
    <2> QED
      BY <2>1, <2>2 DEF Sane
  <1>6. CASE s.op = "use"
    <2>1. /\ h.funds = g.funds /\ h.net = g.net /\ h.made = g.made
          /\ h.undone = g.undone /\ h.locked = g.locked /\ s.row \in g.locked
          /\ h.use = Counted(g.use, s.row, s.tag, s.amt)
      BY <1>6 DEF Adds, Progress
    <2>2. g.use \in [Accounts -> [Meters -> Int]] /\ s.row \in Accounts /\ s.amt \in Int
      BY <1>2, <1>6 DEF Progress, AccountOps, AccountWrites
    <2>3. \A a \in Accounts \ g.locked, m \in Meters : h.use[a][m] = g.use[a][m]
      BY <2>1, <2>2, CountedType
    <2> QED
      BY <2>1, <2>3 DEF Sane
  <1>7. CASE s.op \in {"insert", "mark"}
    <2>1. /\ h.funds = g.funds /\ h.net = g.net /\ h.use = g.use
          /\ h.locked = g.locked \cup {s.row} /\ s.row \in Docs \ g.locked
          /\ \/ h.made = g.made \cup {s.row} /\ h.undone = g.undone
             \/ h.made = g.made /\ h.undone = g.undone \cup {s.row}
      BY <1>7 DEF Adds, Progress
    <2> QED
      BY <2>1 DEF Sane
  <1> QED
    BY <1>1, <1>3, <1>4, <1>5, <1>6, <1>7 DEF Adds

-----------------------------------------------------------------------------
(* The invariant: the committed rows are sound, and the drafts of an open   *)
(* transaction are the committed rows and its progress.                     *)

RowSound(a) ==
    /\ row[a].held = 0
    /\ RowChecks(a, row[a])
    /\ a = Cash => row[a].avail = 0
    /\ a \in Customers => row[a].avail = row[a].bal + Overdraft[a] /\ row[a].avail >= 0

DraftSound(a, g) ==
    /\ draft[a].held = 0
    /\ RowChecks(a, draft[a])
    /\ draft[a].bal = row[a].bal + g.net[a]
    /\ \A m \in Meters : draft[a].used[m] = row[a].used[m] + g.use[a][m]
    /\ a = Cash => draft[a].avail = 0
    /\ a \in Customers \ g.stale => draft[a].avail = draft[a].bal + Overdraft[a]
    /\ a \in Customers => row[a].avail >= g.funds[a]

RecordsSound(g) ==
    /\ \A d \in g.made : doc[d] = Absent /\ docDraft[d] = "completed"
    /\ \A d \in g.undone : doc[d] = "completed" /\ docDraft[d] = "reversed"

\* Transaction r has done g, and nothing else.
HasDone(r, g) ==
    /\ \A x \in Rows : owner[x] = r <=> x \in g.locked
    /\ \A a \in Accounts : a \in g.locked => DraftSound(a, g)
    /\ RecordsSound(g)

Tracks(r) == Sane(ProgressOf(r)) /\ HasDone(r, ProgressOf(r))

MoveInv ==
    /\ LedgerInv
    /\ \A a \in Accounts : RowSound(a)
    /\ \A x \in Rows : owner[x] # NoOne => owner[x] \in Open
    /\ \A r \in Open : Tracks(r)

LEMMA MoveInvInit == Init => MoveInv
  <1> SUFFICES ASSUME Init PROVE MoveInv
    OBVIOUS
  <1>1. LedgerInv
    BY LedgerInvInit
  <1>2. \A r \in Requests : outcome[r] = "idle"
    BY DEF Init
  <1>3. Open = {}
    BY <1>2 DEF Open
  <1>4. \A a \in Accounts : RowSound(a)
    BY OpeningAssumption, RowsAssumption DEF Init, RowSound, Customers
  <1>5. \A x \in Rows : owner[x] = NoOne
    BY DEF Init
  <1> QED
    BY <1>1, <1>3, <1>4, <1>5 DEF MoveInv

\* What a transaction that another's step leaves alone has done is unchanged.
LEMMA OthersKept ==
    ASSUME NEW q, NEW g, g \in Progress, Sane(g), HasDone(q, g),
           \A x \in Rows : owner'[x] = q <=> owner[x] = q,
           \A a \in Accounts : owner[a] = q => draft'[a] = draft[a] /\ row'[a] = row[a],
           \A d \in Docs : owner[d] = q => docDraft'[d] = docDraft[d] /\ doc'[d] = doc[d]
    PROVE  HasDone(q, g)'
  <1>1. \A x \in Rows : owner'[x] = q <=> x \in g.locked
    BY DEF HasDone
  <1>2. \A a \in Accounts : a \in g.locked => DraftSound(a, g)'
    <2> SUFFICES ASSUME NEW a \in Accounts, a \in g.locked PROVE DraftSound(a, g)'
      OBVIOUS
    <2>1. owner[a] = q /\ DraftSound(a, g)
      BY DEF HasDone, Rows
    <2>2. draft'[a] = draft[a] /\ row'[a] = row[a]
      BY <2>1
    <2> QED
      BY <2>1, <2>2 DEF DraftSound, RowChecks
  <1>3. RecordsSound(g)'
    <2>1. \A d \in g.made \cup g.undone : d \in Docs /\ owner[d] = q
      BY DEF Sane, HasDone, Rows
    <2>2. \A d \in g.made \cup g.undone : docDraft'[d] = docDraft[d] /\ doc'[d] = doc[d]
      BY <2>1
    <2> QED
      BY <2>2 DEF RecordsSound, HasDone
  <1> QED
    BY <1>1, <1>2, <1>3 DEF HasDone

-----------------------------------------------------------------------------
(* The steps of a transaction, by the statement they are at. *)

LEMMA QuietDone ==
    ASSUME MoveInv, NEW r \in Open, NEW g \in Progress, NEW h \in Progress,
           HasDone(r, g), Adds(g, Upcoming(r), h),
           Upcoming(r).op \in {"find", "expect", "limit", "read", "gl", "funds"},
           Upcoming(r).op = "funds" => View(r, Upcoming(r).row).avail >= Amount(r),
           UNCHANGED <<owner, row, draft, doc, docDraft>>
    PROVE  HasDone(r, h)'
  <1> DEFINE s == Upcoming(r)  a == s.row
  <1>1. HasDone(r, g)'
    BY DEF HasDone, RecordsSound, DraftSound, RowChecks
  <1>2. CASE s.op # "funds"
    BY <1>1, <1>2 DEF Adds
  <1>3. CASE s.op = "funds"
    <2>1. s \in Statement /\ TypeOK
      BY UpcomingStatement DEF MoveInv, LedgerInv
    <2>2. a \in Accounts /\ s.amt \in Int
      BY <1>3, <2>1, AccountStatement DEF AccountOps
    <2>3. /\ s.tag = Blank /\ a \in g.locked \ g.stale /\ g.net[a] = 0
          /\ h.locked = g.locked /\ h.net = g.net /\ h.use = g.use /\ h.stale = g.stale
          /\ h.made = g.made /\ h.undone = g.undone
          /\ h.funds = [g.funds EXCEPT ![a] = s.amt]
      BY <1>3 DEF Adds, Progress
    <2>4. g.funds \in [Accounts -> Int]
      BY DEF Progress
    <2>5. owner[a] = r /\ DraftSound(a, g)
      BY <2>2, <2>3 DEF HasDone, Rows
    <2>6. draft[a].avail >= s.amt
      <3>1. Amount(r) = s.amt
        BY <2>2, <2>3 DEF Amount, Blank, ByNet
      <3>2. View(r, a) = draft[a]
        BY <2>5 DEF View
      <3> QED
        BY <1>3, <3>1, <3>2
    <2>7. a \in Customers => row[a].avail >= s.amt
      <3>1. SUFFICES ASSUME a \in Customers PROVE row[a].avail >= s.amt
        OBVIOUS
      <3>2. /\ row[a].bal \in Int /\ row[a].avail \in Int /\ draft[a].bal \in Int
            /\ draft[a].avail \in Int /\ Overdraft[a] \in Int
        BY <2>1, <2>2, RowsAssumption DEF TypeOK, AccountRow
      <3>3. row[a].avail = row[a].bal + Overdraft[a]
        BY <2>2, <3>1 DEF MoveInv, RowSound
      <3>4. draft[a].avail = draft[a].bal + Overdraft[a] /\ draft[a].bal = row[a].bal + 0
        BY <2>3, <2>5, <3>1 DEF DraftSound
      <3> QED
        BY <2>2, <2>6, <3>2, <3>3, <3>4
    <2>8. \A b \in Accounts : h.funds[b] = IF b = a THEN s.amt ELSE g.funds[b]
      BY <2>3, <2>4
    <2> HIDE DEF s, a
    <2>9. ASSUME NEW b \in Accounts, b \in h.locked PROVE DraftSound(b, h)'
      <3>1. DraftSound(b, g)'
        BY <1>1, <2>3, <2>9 DEF HasDone
      <3>2. b \in Customers => row'[b].avail >= h.funds[b]
        BY <2>7, <2>8, <3>1 DEF DraftSound
      <3> QED
        BY <2>3, <3>1, <3>2 DEF DraftSound
    <2> QED
      BY <1>1, <2>3, <2>9 DEF HasDone, RecordsSound
  <1> QED
    BY <1>2, <1>3

LEMMA LockDone ==
    ASSUME MoveInv, NEW r \in Open, NEW g \in Progress, NEW h \in Progress,
           Sane(g), HasDone(r, g), Adds(g, Upcoming(r), h), Upcoming(r).op = "lock",
           Free(r, Upcoming(r).row), owner' = [owner EXCEPT ![Upcoming(r).row] = r],
           UNCHANGED <<row, draft, doc, docDraft>>
    PROVE  HasDone(r, h)'
  <1> DEFINE a == Upcoming(r).row
  <1>1. TypeOK /\ Upcoming(r) \in Statement /\ r \in Requests
    BY UpcomingStatement DEF MoveInv, LedgerInv
  <1>2. a \in Accounts /\ a \in Rows
    BY <1>1, AccountStatement DEF AccountOps, AccountWrites, Rows
  <1>3. /\ h.locked = g.locked \cup {a} /\ h.net = g.net /\ h.use = g.use /\ h.stale = g.stale
        /\ h.made = g.made /\ h.undone = g.undone /\ h.funds = g.funds
    BY DEF Adds, Progress
  <1>4. owner[a] \in {NoOne, r}
    BY DEF Free
  <1> HIDE DEF a
  <1>5. \A x \in Rows : owner'[x] = r <=> x \in h.locked
    BY <1>1, <1>2, <1>3 DEF a, TypeOK, HasDone
  <1>6. ASSUME NEW b \in Accounts, b \in h.locked PROVE DraftSound(b, h)'
    <2>1. CASE b \in g.locked
      <3>1. DraftSound(b, g)
        BY <2>1 DEF HasDone
      <3> QED
        BY <1>3, <3>1 DEF DraftSound, RowChecks
    <2>2. CASE b \notin g.locked
      <3>1. b = a /\ owner[a] = NoOne
        BY <1>2, <1>3, <1>4, <1>6, <2>2 DEF HasDone
      <3>2. draft[b] = row[b] /\ RowSound(b)
        BY <3>1 DEF MoveInv, LedgerInv, DraftIsPending
      <3>3. g.net[b] = 0 /\ g.funds[b] = 0 /\ \A m \in Meters : g.use[b][m] = 0
        BY <2>2 DEF Sane
      <3>4. row[b].bal \in Int /\ \A m \in Meters : row[b].used[m] \in Int
        BY <1>1 DEF TypeOK, AccountRow
      <3> QED
        BY <1>3, <3>2, <3>3, <3>4 DEF DraftSound, RowSound, RowChecks
    <2> QED
      BY <2>1, <2>2
  <1>7. RecordsSound(h)'
    BY <1>3 DEF RecordsSound, HasDone
  <1> QED
    BY <1>5, <1>6, <1>7 DEF HasDone

LEMMA RecordDone ==
    ASSUME MoveInv, NEW r \in Open, NEW g \in Progress, NEW h \in Progress,
           Sane(g), HasDone(r, g), Adds(g, Upcoming(r), h), Upcoming(r).op \in {"insert", "mark"},
           Free(r, Upcoming(r).row), DocView(r, Upcoming(r).row) = Upcoming(r).was,
           owner' = [owner EXCEPT ![Upcoming(r).row] = r],
           docDraft' = [docDraft EXCEPT ![Upcoming(r).row] = Upcoming(r).tag],
           UNCHANGED <<row, draft, doc>>
    PROVE  HasDone(r, h)'
  <1> DEFINE s == Upcoming(r)  d == s.row
  <1>1. TypeOK /\ r \in Requests
    BY UpcomingStatement DEF MoveInv, LedgerInv
  <1>2. /\ d \in Docs \ g.locked /\ h.locked = g.locked \cup {d}
        /\ h.net = g.net /\ h.use = g.use /\ h.stale = g.stale /\ h.funds = g.funds
        /\ \/ /\ s.was = Absent /\ s.tag = "completed"
              /\ h.made = g.made \cup {d} /\ h.undone = g.undone
           \/ /\ s.was = "completed" /\ s.tag = "reversed"
              /\ h.made = g.made /\ h.undone = g.undone \cup {d}
    BY DEF Adds, Progress
  <1>3. d \in Rows /\ d \notin Accounts
    BY <1>2, NamesAssumption DEF Rows
  <1>4. doc[d] = s.was /\ docDraft'[d] = s.tag
    BY <1>1, <1>2, <1>3 DEF HasDone, DocView, TypeOK
  <1>5. \A e \in Docs \ {d} : docDraft'[e] = docDraft[e]
    BY <1>1 DEF TypeOK
  <1>6. \A x \in Rows : owner'[x] = r <=> x \in h.locked
    BY <1>1, <1>2, <1>3 DEF TypeOK, HasDone
  <1> HIDE DEF s, d
  <1>7. ASSUME NEW b \in Accounts, b \in h.locked PROVE DraftSound(b, h)'
    <2>1. b \in g.locked
      BY <1>2, <1>3, <1>7
    <2>2. DraftSound(b, g)
      BY <2>1 DEF HasDone
    <2> QED
      BY <1>2, <2>2 DEF DraftSound, RowChecks
  <1>8. RecordsSound(h)'
    <2>1. d \notin g.made /\ d \notin g.undone /\ g.made \subseteq Docs /\ g.undone \subseteq Docs
      BY <1>2 DEF Sane
    <2>2. RecordsSound(g)
      BY DEF HasDone
    <2> QED
      BY <1>2, <1>4, <1>5, <2>1, <2>2 DEF RecordsSound
  <1> QED
    BY <1>6, <1>7, <1>8 DEF HasDone

\* What an UPDATE that passes its CHECKs does.
Updates(r, a, x) ==
    /\ RowChecks(a, x)
    /\ owner' = [owner EXCEPT ![a] = r] /\ draft' = [draft EXCEPT ![a] = x]
    /\ UNCHANGED <<row, doc, docDraft>>

\* Progress h differs from g in what it has done to account a, which makes its
\* row x.
Fits(x, a, g, h) ==
    /\ h.locked = g.locked /\ h.made = g.made /\ h.undone = g.undone /\ h.funds = g.funds
    /\ \A b \in Accounts \ {a} :
         /\ h.net[b] = g.net[b] /\ (b \in h.stale <=> b \in g.stale)
         /\ \A m \in Meters : h.use[b][m] = g.use[b][m]
    /\ x.held = 0 /\ x.bal = row[a].bal + h.net[a]
    /\ \A m \in Meters : x.used[m] = row[a].used[m] + h.use[a][m]
    /\ a = Cash => x.avail = 0
    /\ a \in Customers \ h.stale => x.avail = x.bal + Overdraft[a]

LEMMA UpdateDone ==
    ASSUME TypeOK, NEW r \in Requests, NEW g \in Progress, NEW h \in Progress, HasDone(r, g),
           NEW a \in Accounts, a \in g.locked, NEW x, Updates(r, a, x), Fits(x, a, g, h)
    PROVE  HasDone(r, h)'
  <1> USE DEF Updates, Fits
  <1>1. owner[a] = r /\ a \in Rows
    BY DEF HasDone, Rows
  <1>2. owner' = owner
    BY <1>1 DEF TypeOK
  <1>3. draft'[a] = x /\ \A b \in Accounts \ {a} : draft'[b] = draft[b]
    BY DEF TypeOK
  <1>4. ASSUME NEW b \in Accounts, b \in h.locked PROVE DraftSound(b, h)'
    <2>1. DraftSound(b, g)
      BY <1>4 DEF HasDone
    <2>2. CASE b = a
      BY <1>3, <2>1, <2>2 DEF DraftSound, RowChecks
    <2>3. CASE b # a
      BY <1>3, <2>1, <2>3 DEF DraftSound, RowChecks
    <2> QED
      BY <2>2, <2>3
  <1> QED
    BY <1>2, <1>4 DEF HasDone, RecordsSound

LEMMA BalanceDone ==
    ASSUME MoveInv, NEW r \in Open, NEW g \in Progress, NEW h \in Progress,
           HasDone(r, g), Adds(g, Upcoming(r), h),
           NEW a, a = Upcoming(r).row, NEW y, y = View(r, a),
           \/ Upcoming(r).op = "floor" /\ Updates(r, a, [y EXCEPT !.avail = 0])
           \/ /\ Upcoming(r).op = "recompute"
              /\ Updates(r, a, [y EXCEPT !.avail = y.bal + Overdraft[a] - y.held])
           \/ /\ Upcoming(r).op = "write"
              /\ Updates(r, a, [y EXCEPT !.bal = y.bal + Amount(r)])
    PROVE  HasDone(r, h)' /\ a \in Accounts /\ owner[a] = r
  <1> DEFINE s == Upcoming(r)
  <1>1. TypeOK /\ r \in Requests /\ s \in Statement
    BY UpcomingStatement DEF MoveInv, LedgerInv
  <1>2. a \in Accounts /\ s.amt \in Int
    BY <1>1, AccountStatement DEF AccountOps, AccountWrites
  <1>3. a \in g.locked
    BY DEF Adds
  <1>4. owner[a] = r /\ DraftSound(a, g) /\ y = draft[a]
    BY <1>2, <1>3 DEF HasDone, Rows, View
  <1>5. y \in AccountRow /\ row[a] \in AccountRow /\ Overdraft[a] \in Int
    BY <1>1, <1>2, <1>4, RowsAssumption DEF TypeOK
  <1>6. /\ y.held = 0 /\ y.bal = row[a].bal + g.net[a]
        /\ \A m \in Meters : y.used[m] = row[a].used[m] + g.use[a][m]
        /\ a = Cash => y.avail = 0
        /\ a \in Customers \ g.stale => y.avail = y.bal + Overdraft[a]
    BY <1>4 DEF DraftSound
  <1>7. /\ h.locked = g.locked /\ h.made = g.made /\ h.undone = g.undone /\ h.funds = g.funds
        /\ h.use = g.use
    BY DEF Adds, Progress
  <1>8. g.net \in [Accounts -> Int] /\ g.net[a] \in Int
    BY <1>2 DEF Progress
  <1>9. CASE s.op = "floor"
    <2> DEFINE x == [y EXCEPT !.avail = 0]
    <2>1. a \in Customers /\ h.net = g.net /\ h.stale = g.stale \cup {a}
      BY <1>9 DEF Adds, Progress
    <2>2. Updates(r, a, x)
      BY <1>9
    <2>3. x.held = y.held /\ x.bal = y.bal /\ x.used = y.used /\ x.avail = 0
      BY <1>5 DEF AccountRow
    <2> HIDE DEF x
    <2>4. Fits(x, a, g, h)
      BY <1>6, <1>7, <2>1, <2>3 DEF Fits
    <2> QED
      BY <1>1, <1>2, <1>3, <1>4, <2>2, <2>4, UpdateDone
  <1>10. CASE s.op = "recompute"
    <2> DEFINE x == [y EXCEPT !.avail = y.bal + Overdraft[a] - y.held]
    <2>1. a \in Customers /\ a # Cash /\ h.net = g.net /\ h.stale = g.stale \ {a}
      BY <1>10 DEF Adds, Progress, Customers
    <2>2. Updates(r, a, x)
      BY <1>10
    <2>3. x.held = y.held /\ x.bal = y.bal /\ x.used = y.used /\ x.avail = x.bal + Overdraft[a]
      BY <1>5, <1>6 DEF AccountRow
    <2> HIDE DEF x
    <2>4. Fits(x, a, g, h)
      BY <1>6, <1>7, <2>1, <2>3 DEF Fits
    <2> QED
      BY <1>1, <1>2, <1>3, <1>4, <2>2, <2>4, UpdateDone
  <1>11. CASE s.op = "write"
    <2> DEFINE x == [y EXCEPT !.bal = y.bal + Amount(r)]
    <2>1. s.tag = Blank /\ h.net = Added(g.net, a, s.amt) /\ h.stale = g.stale \cup ({a} \ {Cash})
      BY <1>11 DEF Adds, Progress
    <2>2. Updates(r, a, x)
      BY <1>11
    <2>3. Amount(r) = s.amt
      BY <1>2, <2>1 DEF Amount, Blank, ByNet
    <2>4. x.held = y.held /\ x.bal = y.bal + s.amt /\ x.used = y.used /\ x.avail = y.avail
      BY <1>2, <1>5, <2>3 DEF AccountRow
    <2>5. /\ h.net[a] = g.net[a] + s.amt
          /\ \A b \in Accounts \ {a} : h.net[b] = g.net[b]
      BY <1>2, <1>8, <2>1 DEF Added
    <2>6. x.bal = row[a].bal + h.net[a]
      BY <1>2, <1>5, <1>6, <1>8, <2>4, <2>5 DEF AccountRow
    <2> HIDE DEF x
    <2>7. a \in Customers => a \in h.stale
      BY <2>1 DEF Customers
    <2>8. Fits(x, a, g, h)
      BY <1>6, <1>7, <2>1, <2>4, <2>5, <2>6, <2>7 DEF Fits
    <2> QED
      BY <1>1, <1>2, <1>3, <1>4, <2>2, <2>8, UpdateDone
  <1> QED
    BY <1>9, <1>10, <1>11

LEMMA CounterDone ==
    ASSUME MoveInv, NEW r \in Open, NEW g \in Progress, NEW h \in Progress,
           HasDone(r, g), Adds(g, Upcoming(r), h), Upcoming(r).op = "use",
           NEW a, a = Upcoming(r).row, NEW y, y = View(r, a),
           Updates(r, a, [y EXCEPT !.used[Upcoming(r).tag] = @ + Upcoming(r).amt])
    PROVE  HasDone(r, h)' /\ a \in Accounts /\ owner[a] = r
  <1> DEFINE s == Upcoming(r)
             v == [y.used EXCEPT ![s.tag] = y.used[s.tag] + s.amt]
             x == [y EXCEPT !.used[s.tag] = @ + s.amt]
  <1>1. TypeOK /\ r \in Requests /\ s \in Statement
    BY UpcomingStatement DEF MoveInv, LedgerInv
  <1>2. a \in Accounts /\ s.amt \in Int
    BY <1>1, AccountStatement DEF AccountOps, AccountWrites
  <1>3. /\ a \in g.locked /\ h.locked = g.locked /\ h.made = g.made /\ h.undone = g.undone
        /\ h.funds = g.funds /\ h.net = g.net /\ h.stale = g.stale
        /\ h.use = Counted(g.use, a, s.tag, s.amt)
    BY DEF Adds, Progress
  <1>4. owner[a] = r /\ DraftSound(a, g) /\ y = draft[a]
    BY <1>2, <1>3 DEF HasDone, Rows, View
  <1>5. y \in AccountRow /\ row[a] \in AccountRow /\ g.use \in [Accounts -> [Meters -> Int]]
    BY <1>1, <1>2, <1>4 DEF TypeOK, Progress
  <1>6. \A b \in Accounts, m \in Meters :
           h.use[b][m] = IF b = a /\ m = s.tag THEN g.use[b][m] + s.amt ELSE g.use[b][m]
    BY <1>2, <1>3, <1>5, CountedType
  <1>7. x = [y EXCEPT !.used = v]
    BY <1>5 DEF AccountRow
  <1>8. \A m \in Meters : v[m] = IF m = s.tag THEN y.used[m] + s.amt ELSE y.used[m]
    BY <1>5 DEF AccountRow
  <1>9. Updates(r, a, x)
    OBVIOUS
  <1> HIDE DEF x, v
  <1>10. x.held = y.held /\ x.bal = y.bal /\ x.avail = y.avail /\ x.used = v
    BY <1>5, <1>7 DEF AccountRow
  <1>11. \A m \in Meters : x.used[m] = row[a].used[m] + h.use[a][m]
    <2> SUFFICES ASSUME NEW m \in Meters PROVE x.used[m] = row[a].used[m] + h.use[a][m]
      OBVIOUS
    <2>1. y.used[m] = row[a].used[m] + g.use[a][m]
      BY <1>4 DEF DraftSound
    <2>2. row[a].used[m] \in Int /\ g.use[a][m] \in Int
      BY <1>2, <1>5 DEF AccountRow
    <2>3. v[m] = IF m = s.tag THEN y.used[m] + s.amt ELSE y.used[m]
      BY <1>8
    <2>4. h.use[a][m] = IF m = s.tag THEN g.use[a][m] + s.amt ELSE g.use[a][m]
      BY <1>2, <1>6
    <2> QED
      BY <1>2, <1>10, <2>1, <2>2, <2>3, <2>4
  <1>12. /\ x.held = 0 /\ x.bal = row[a].bal + h.net[a] /\ (a = Cash => x.avail = 0)
         /\ (a \in Customers \ h.stale => x.avail = x.bal + Overdraft[a])
    BY <1>3, <1>4, <1>10 DEF DraftSound
  <1>13. \A b \in Accounts \ {a}, m \in Meters : h.use[b][m] = g.use[b][m]
    BY <1>6
  <1>14. Fits(x, a, g, h)
    BY <1>3, <1>11, <1>12, <1>13 DEF Fits
  <1> QED
    BY <1>1, <1>2, <1>3, <1>4, <1>9, <1>14, UpdateDone

\* The step of a transaction that goes on: it changes no committed row, and of
\* the drafts only those of rows it has locked.
GoesOn(r) ==
    /\ Advance(r) /\ UNCHANGED <<row, doc>>
    /\ \A x \in Rows : owner'[x] = owner[x] \/ (owner[x] = NoOne /\ owner'[x] = r)
    /\ \A a \in Accounts : owner[a] # r => draft'[a] = draft[a]
    /\ \A d \in Docs : owner'[d] # r => docDraft'[d] = docDraft[d]

GivesUp(r) == \E how \in {"refused", "replayed", "failed", "tripped"} : Rollback(r, how)

LEMMA UpdateGoesOn ==
    ASSUME TypeOK, NEW r \in Requests, NEW a \in Accounts, owner[a] = r, NEW x, NEW n,
           Update(r, a, x, n)
    PROVE  (GoesOn(r) /\ Updates(r, a, x)) \/ GivesUp(r)
  <1>1. CASE RowChecks(a, x)
    <2>1. /\ owner' = [owner EXCEPT ![a] = r] /\ draft' = [draft EXCEPT ![a] = x]
          /\ Advance(r) /\ UNCHANGED <<row, doc, docDraft>>
      BY <1>1 DEF Update
    <2>2. \A y \in Rows : owner'[y] = owner[y]
      BY <2>1 DEF TypeOK, Rows
    <2>3. \A b \in Accounts : owner[b] # r => draft'[b] = draft[b]
      BY <2>1 DEF TypeOK
    <2> QED
      BY <1>1, <2>1, <2>2, <2>3 DEF GoesOn, Updates
  <1>2. CASE ~RowChecks(a, x)
    BY <1>2 DEF Update, GivesUp
  <1> QED
    BY <1>1, <1>2

LEMMA OwnStep ==
    ASSUME MoveInv, NEW r \in Requests, Execute(r), ~Commit(r),
           NEW g, g = ProgressOf(r), NEW h, h = Walks[task[r]][pc[r]+1]
    PROVE  r \in Open /\ (GivesUp(r) \/ (GoesOn(r) /\ HasDone(r, h)'))
  <1> DEFINE s == Upcoming(r)
             a == s.row
             y == View(r, a)
             Shape == GivesUp(r) \/ (GoesOn(r) /\ HasDone(r, h)')
  <1>1. r \in Open
    BY DEF Execute, Lock, Funds, WithinLimit, Expect, Find, Insert, Mark, Set, Ensure,
           Sweep, NetOut, Tally, When, Hold, Floor, TriggerRead, TriggerWrite, Recompute,
           RecomputeCard, UseLimit, PostGL, Commit, At, Open
  <1>2. TypeOK /\ ReadIsFresh /\ s \in Statement
    BY <1>1, UpcomingStatement DEF MoveInv, LedgerInv
  <1>3. g \in Progress /\ h \in Progress /\ Adds(g, s, h)
    BY <1>1, <1>2, ProgressMade
  <1>4. Sane(g) /\ HasDone(r, g)
    BY <1>1 DEF MoveInv, Tracks
  <1> SUFFICES Shape
    BY <1>1
  <1>5. ASSUME s.op \in {"find", "expect", "limit", "read", "gl", "funds"},
               s.op = "funds" => View(r, s.row).avail >= Amount(r),
               Advance(r), UNCHANGED sql
        PROVE  Shape
    <2>1. UNCHANGED <<owner, row, draft, doc, docDraft>>
      BY <1>5 DEF sql
    <2>2. HasDone(r, h)'
      BY <1>1, <1>3, <1>4, <1>5, <2>1, QuietDone
    <2> QED
      BY <1>5, <2>1, <2>2 DEF GoesOn
  <1>6. ASSUME NEW how, Rollback(r, how), how \in {"refused", "replayed", "failed", "tripped"}
        PROVE  Shape
    BY <1>6 DEF GivesUp
  <1>7. CASE Funds(r) \/ WithinLimit(r) \/ Expect(r) \/ Find(r)
    <2>1. /\ s.op \in {"find", "expect", "limit", "funds"}
          /\ \/ Advance(r) /\ UNCHANGED sql /\ (s.op = "funds" => View(r, s.row).avail >= Amount(r))
             \/ Rollback(r, "refused") \/ Rollback(r, "replayed")
      BY <1>7 DEF Funds, WithinLimit, Expect, Find, Require, At
    <2> QED
      BY <1>5, <1>6, <2>1
  <1>8. CASE TriggerRead(r) \/ PostGL(r)
    <2>1. /\ s.op \in {"read", "gl"}
          /\ (Advance(r) /\ UNCHANGED sql) \/ Rollback(r, "failed")
      BY <1>8 DEF TriggerRead, PostGL, At
    <2> QED
      BY <1>5, <1>6, <2>1
  <1>9. CASE Lock(r)
    <2>1. /\ s.op = "lock" /\ Free(r, a) /\ owner' = [owner EXCEPT ![a] = r] /\ Advance(r)
          /\ UNCHANGED <<row, draft, doc, docDraft>>
      BY <1>9 DEF Lock, At
    <2>2. HasDone(r, h)'
      BY <1>1, <1>3, <1>4, <2>1, LockDone
    <2>3. \A x \in Rows : owner'[x] = owner[x] \/ (owner[x] = NoOne /\ owner'[x] = r)
      BY <1>2, <2>1 DEF TypeOK, Free
    <2> QED
      BY <2>1, <2>2, <2>3 DEF GoesOn
  <1>10. CASE Insert(r) \/ Mark(r)
    <2>1. s.op \in {"insert", "mark"} /\ (ChangeDoc(r, "replayed") \/ ChangeDoc(r, "refused"))
      BY <1>10 DEF Insert, Mark, At
    <2>2. CASE DocView(r, a) = s.was
      <3>1. /\ Free(r, a) /\ owner' = [owner EXCEPT ![a] = r]
            /\ docDraft' = [docDraft EXCEPT ![a] = s.tag]
            /\ Advance(r) /\ UNCHANGED <<row, draft, doc>>
        BY <2>1, <2>2 DEF ChangeDoc
      <3>2. HasDone(r, h)'
        BY <1>1, <1>3, <1>4, <2>1, <2>2, <3>1, RecordDone
      <3>3. \A x \in Rows : owner'[x] = owner[x] \/ (owner[x] = NoOne /\ owner'[x] = r)
        BY <1>2, <3>1 DEF TypeOK, Free
      <3>4. \A d \in Docs : owner'[d] # r => docDraft'[d] = docDraft[d]
        BY <1>2, <3>1 DEF TypeOK, Rows
      <3> QED
        BY <3>1, <3>2, <3>3, <3>4 DEF GoesOn
    <2>3. CASE DocView(r, a) # s.was
      BY <1>6, <2>1, <2>3 DEF ChangeDoc
    <2> QED
      BY <2>2, <2>3
  <1>11. CASE Floor(r) \/ TriggerWrite(r) \/ Recompute(r) \/ UseLimit(r)
    <2>1. s.op \in {"floor", "write", "recompute", "use"}
      BY <1>11 DEF Floor, TriggerWrite, Recompute, UseLimit, At
    <2>2. a \in g.locked
      BY <1>3, <2>1 DEF Adds
    <2>3. a \in Accounts /\ owner[a] = r
      BY <1>2, <1>4, <2>1, <2>2, AccountStatement DEF AccountOps, AccountWrites, HasDone, Rows
    <2>4. ASSUME NEW x, NEW n, Update(r, a, x, n), Updates(r, a, x) => HasDone(r, h)'
          PROVE  Shape
      BY <1>2, <2>3, <2>4, UpdateGoesOn
    <2>5. CASE Floor(r)
      <3>1. Update(r, a, [y EXCEPT !.avail = 0], 0) /\ s.op = "floor"
        BY <2>5 DEF Floor, At
      <3>2. Updates(r, a, [y EXCEPT !.avail = 0]) => HasDone(r, h)'
        BY <1>1, <1>3, <1>4, <3>1, BalanceDone
      <3> QED
        BY <2>4, <3>1, <3>2
    <2>6. CASE Recompute(r)
      <3> DEFINE x == [y EXCEPT !.avail = y.bal + Overdraft[a] - y.held]
      <3>1. Update(r, a, x, 0) /\ s.op = "recompute"
        BY <2>6 DEF Recompute, At
      <3>2. Updates(r, a, x) => HasDone(r, h)'
        BY <1>1, <1>3, <1>4, <3>1, BalanceDone
      <3> QED
        BY <2>4, <3>1, <3>2
    <2>7. CASE TriggerWrite(r)
      <3> DEFINE x == [y EXCEPT !.bal = y.bal + Amount(r)]
      <3>1. /\ Update(r, a, [y EXCEPT !.bal = seen[r] + Amount(r)], Amount(r)) /\ s.op = "write"
        BY <2>7 DEF TriggerWrite, At
      <3>2. seen[r] = y.bal
        BY <1>1, <1>2, <3>1 DEF ReadIsFresh
      <3>3. Update(r, a, x, Amount(r))
        BY <3>1, <3>2
      <3>4. Updates(r, a, x) => HasDone(r, h)'
        BY <1>1, <1>3, <1>4, <3>1, BalanceDone
      <3> QED
        BY <2>4, <3>3, <3>4
    <2>8. CASE UseLimit(r)
      <3> DEFINE x == [y EXCEPT !.used[s.tag] = @ + s.amt]
      <3>1. Update(r, a, x, 0) /\ s.op = "use"
        BY <2>8 DEF UseLimit, At
      <3>2. Updates(r, a, x) => HasDone(r, h)'
        BY <1>1, <1>3, <1>4, <3>1, CounterDone
      <3> QED
        BY <2>4, <3>1, <3>2
    <2> QED
      BY <1>11, <2>5, <2>6, <2>7, <2>8
  <1>12. s.op \notin {"set", "ensure", "sweep", "net", "tally", "hold", "when", "recard"}
    BY <1>3 DEF Adds
  <1>13. /\ ~Set(r) /\ ~Ensure(r) /\ ~Sweep(r) /\ ~NetOut(r) /\ ~Tally(r) /\ ~Hold(r)
         /\ ~When(r) /\ ~RecomputeCard(r)
    BY <1>12 DEF Set, Ensure, Sweep, NetOut, Tally, Hold, When, RecomputeCard, At
  <1> QED
    BY <1>7, <1>8, <1>9, <1>10, <1>11, <1>13 DEF Execute

-----------------------------------------------------------------------------
(* Every step keeps the invariant. *)

LEMMA NowTracks ==
    ASSUME NEW q, NEW g, Sane(g), HasDone(q, g)', g = Walks[task'[q]][pc'[q]]
    PROVE  Tracks(q)'
  <1>1. g = ProgressOf(q)'
    BY DEF ProgressOf
  <1> QED
    BY <1>1 DEF Tracks, Sane, HasDone, DraftSound, RecordsSound

LEMMA StillTracks ==
    ASSUME MoveInv, NEW q \in Open, task'[q] = task[q], pc'[q] = pc[q],
           \A x \in Rows : owner'[x] = q <=> owner[x] = q,
           \A a \in Accounts : owner[a] = q => draft'[a] = draft[a] /\ row'[a] = row[a],
           \A d \in Docs : owner[d] = q => docDraft'[d] = docDraft[d] /\ doc'[d] = doc[d]
    PROVE  Tracks(q)'
  <1> SUFFICES ASSUME NEW g, g = ProgressOf(q) PROVE Tracks(q)'
    OBVIOUS
  <1>1. g \in Progress
    BY ProgressMade DEF MoveInv, LedgerInv
  <1>2. Sane(g) /\ HasDone(q, g)
    BY DEF MoveInv, Tracks
  <1>3. HasDone(q, g)'
    BY <1>1, <1>2, OthersKept
  <1>4. g = Walks[task'[q]][pc'[q]]
    BY DEF ProgressOf
  <1> QED
    BY <1>2, <1>3, <1>4, NowTracks

LEMMA GoesOnInv ==
    ASSUME MoveInv, LedgerInv', NEW r \in Open, GoesOn(r),
           NEW h, Sane(h), HasDone(r, h)', h = Walks[task[r]][pc[r]+1]
    PROVE  MoveInv'
  <1>1. /\ TypeOK /\ r \in Requests /\ outcome' = outcome /\ task' = task
        /\ pc' = [pc EXCEPT ![r] = pc[r] + 1] /\ Open' = Open
    BY DEF MoveInv, LedgerInv, GoesOn, Advance, Open
  <1>2. pc'[r] = pc[r] + 1 /\ \A q \in Open \ {r} : pc'[q] = pc[q]
    BY <1>1 DEF TypeOK, Open
  <1>3. \A a \in Accounts : RowSound(a)'
    BY DEF MoveInv, GoesOn, RowSound, RowChecks
  <1>4. \A x \in Rows : owner'[x] # NoOne => owner'[x] \in Open'
    BY <1>1 DEF MoveInv, GoesOn
  <1>5. ASSUME NEW q \in Open PROVE Tracks(q)'
    <2>1. CASE q = r
      <3>1. h = Walks[task'[r]][pc'[r]]
        BY <1>1, <1>2
      <3> QED
        BY <2>1, <3>1, NowTracks
    <2>2. CASE q # r
      <3>1. q # NoOne
        BY NamesAssumption DEF Open
      <3>2. \A x \in Rows : owner'[x] = q <=> owner[x] = q
        BY <2>2, <3>1 DEF GoesOn
      <3>3. \A a \in Accounts : owner[a] = q => draft'[a] = draft[a] /\ row'[a] = row[a]
        BY <2>2 DEF GoesOn
      <3>4. \A d \in Docs : owner[d] = q => docDraft'[d] = docDraft[d] /\ doc'[d] = doc[d]
        BY <2>2, <3>2 DEF GoesOn, Rows
      <3>5. task'[q] = task[q] /\ pc'[q] = pc[q]
        BY <1>1, <1>2, <2>2
      <3> QED
        BY <3>2, <3>3, <3>4, <3>5, StillTracks
    <2> QED
      BY <2>1, <2>2
  <1> QED
    BY <1>1, <1>3, <1>4, <1>5 DEF MoveInv

\* A transaction that ends leaves the others as they are.
LEMMA EndTracks ==
    ASSUME MoveInv, NEW r \in Requests, NEW how, how # "open", Finish(r, how),
           \A a \in Accounts : owner[a] # r => draft'[a] = draft[a] /\ row'[a] = row[a],
           \A d \in Docs : owner[d] # r => docDraft'[d] = docDraft[d] /\ doc'[d] = doc[d]
    PROVE  /\ \A x \in Rows : owner'[x] # NoOne => owner'[x] \in Open'
           /\ \A q \in Open' : Tracks(q)'
  <1>1. TypeOK
    BY DEF MoveInv, LedgerInv
  <1>2. \A q \in Requests \ {r} :
           outcome'[q] = outcome[q] /\ pc'[q] = pc[q] /\ task'[q] = task[q]
    BY <1>1 DEF Finish, TypeOK
  <1>3. outcome'[r] = how
    BY <1>1 DEF Finish, TypeOK
  <1>4. \A q : q \in Open' <=> q \in Open /\ q # r
    BY <1>2, <1>3 DEF Open
  <1>5. \A x \in Rows : owner'[x] = IF owner[x] = r THEN NoOne ELSE owner[x]
    BY DEF Finish
  <1>6. \A x \in Rows : owner'[x] # NoOne => owner'[x] \in Open'
    BY <1>4, <1>5 DEF MoveInv
  <1>7. ASSUME NEW q \in Open' PROVE Tracks(q)'
    <2>1. q \in Open /\ q # r /\ q \in Requests /\ q # NoOne
      BY <1>4, NamesAssumption DEF Open
    <2>2. \A x \in Rows : owner'[x] = q <=> owner[x] = q
      BY <1>5, <2>1
    <2>3. task'[q] = task[q] /\ pc'[q] = pc[q]
      BY <1>2, <2>1
    <2> QED
      BY <2>1, <2>2, <2>3, StillTracks
  <1> QED
    BY <1>6, <1>7

LEMMA GivesUpInv ==
    ASSUME MoveInv, LedgerInv', NEW r \in Requests, GivesUp(r)
    PROVE  MoveInv'
  <1>1. PICK how \in {"refused", "replayed", "failed", "tripped"} : Rollback(r, how)
    BY DEF GivesUp
  <1>2. /\ Finish(r, how) /\ how # "open" /\ row' = row /\ doc' = doc
        /\ draft' = [a \in Accounts |-> IF owner[a] = r THEN row[a] ELSE draft[a]]
        /\ docDraft' = [d \in Docs |-> IF owner[d] = r THEN doc[d] ELSE docDraft[d]]
    BY <1>1 DEF Rollback
  <1>3. \A a \in Accounts : RowSound(a)'
    BY <1>2 DEF MoveInv, RowSound, RowChecks
  <1>4. /\ \A a \in Accounts : owner[a] # r => draft'[a] = draft[a] /\ row'[a] = row[a]
        /\ \A d \in Docs : owner[d] # r => docDraft'[d] = docDraft[d] /\ doc'[d] = doc[d]
    BY <1>2
  <1> QED
    BY <1>2, <1>3, <1>4, EndTracks DEF MoveInv

\* What a transaction commits is the whole movement its task asks for.
LEMMA CommitsWhole ==
    ASSUME MoveInv, NEW r \in Requests, Commit(r), NEW g, g = ProgressOf(r)
    PROVE  /\ r \in Open /\ task[r] \in Tasks /\ g \in Progress
           /\ Complete(g, Moves[task[r]]) /\ Sane(g) /\ HasDone(r, g)
           /\ Finish(r, "posted") /\ draft' = draft /\ docDraft' = docDraft
           /\ row' = [a \in Accounts |-> IF a \in g.locked THEN draft[a] ELSE row[a]]
           /\ doc' = [d \in Docs |-> IF d \in g.locked THEN docDraft[d] ELSE doc[d]]
  <1>1. /\ r \in Open /\ Upcoming(r).op = "commit" /\ Finish(r, "posted")
        /\ row' = [a \in Accounts |-> IF owner[a] = r THEN draft[a] ELSE row[a]]
        /\ doc' = [d \in Docs |-> IF owner[d] = r THEN docDraft[d] ELSE doc[d]]
        /\ draft' = draft /\ docDraft' = docDraft
    BY DEF Commit, At, Open
  <1>2. TypeOK
    BY DEF MoveInv, LedgerInv
  <1>3. g \in Progress /\ Complete(g, Moves[task[r]]) /\ task[r] \in Tasks
    BY <1>1, <1>2, ProgressMade, UpcomingStatement
  <1>4. Sane(g) /\ HasDone(r, g)
    BY <1>1 DEF MoveInv, Tracks
  <1>5. \A x \in Accounts \cup Docs : owner[x] = r <=> x \in g.locked
    BY <1>4 DEF HasDone, Rows
  <1> QED
    BY <1>1, <1>3, <1>4, <1>5

\* The rows it leaves, account by account and counter by counter.
LEMMA CommittedRows ==
    ASSUME MoveInv, NEW r \in Requests, Commit(r), NEW g, g = ProgressOf(r),
           NEW a \in Accounts
    PROVE  /\ row'[a].bal = row[a].bal + g.net[a]
           /\ \A m \in Meters : row'[a].used[m] = row[a].used[m] + g.use[a][m]
           /\ g.net[a] < 0 => row[a].bal + g.net[a] >= -Overdraft[a]
           /\ \A m \in Meters : row[a].used[m] + g.use[a][m] <= Limit[a][m]
           /\ RowSound(a)'
  <1>1. /\ g \in Progress /\ Complete(g, Moves[task[r]]) /\ Sane(g) /\ HasDone(r, g)
        /\ row'[a] = IF a \in g.locked THEN draft[a] ELSE row[a]
    BY CommitsWhole
  <1>2. /\ row[a] \in AccountRow /\ draft[a] \in AccountRow /\ RowSound(a)
        /\ Overdraft[a] \in Int /\ Limit[a] \in [Meters -> Int]
    BY RowsAssumption DEF MoveInv, LedgerInv, TypeOK
  <1>3. g.net[a] \in Int /\ g.use[a] \in [Meters -> Int] /\ g.funds[a] \in Int
    BY <1>1 DEF Progress
  <1>4. CASE a \notin g.locked
    <2>1. g.net[a] = 0 /\ \A m \in Meters : g.use[a][m] = 0
      BY <1>1, <1>4 DEF Sane
    <2>2. row'[a] = row[a]
      BY <1>1, <1>4
    <2>3. \A m \in Meters : row[a].used[m] \in Int /\ row[a].used[m] <= Limit[a][m]
      BY <1>2 DEF RowSound, RowChecks, AccountRow
    <2>4. row[a].bal \in Int
      BY <1>2 DEF AccountRow
    <2>5. RowSound(a)'
      BY <1>2, <2>2 DEF RowSound, RowChecks
    <2> QED
      BY <2>1, <2>2, <2>3, <2>4, <2>5
  <1>5. CASE a \in g.locked
    <2>1. DraftSound(a, g) /\ row'[a] = draft[a]
      BY <1>1, <1>5 DEF HasDone
    <2>2. /\ g.stale = {}
          /\ a \in Customers => (g.net[a] < 0 => g.funds[a] + g.net[a] >= 0)
      BY <1>1 DEF Complete
    <2>3. /\ row[a].bal \in Int /\ row[a].avail \in Int
          /\ draft[a].bal \in Int /\ draft[a].avail \in Int
      BY <1>2 DEF AccountRow
    <2>4. draft[a].bal = row[a].bal + g.net[a] /\ draft[a].avail <= draft[a].bal + Overdraft[a]
      BY <2>1 DEF DraftSound, RowChecks
    <2>5. ASSUME a \in Customers
          PROVE  draft[a].avail = draft[a].bal + Overdraft[a] /\ draft[a].avail >= 0
      <3>1. draft[a].avail = draft[a].bal + Overdraft[a] /\ row[a].avail >= g.funds[a]
        BY <2>1, <2>2, <2>5 DEF DraftSound
      <3>2. row[a].avail = row[a].bal + Overdraft[a] /\ row[a].avail >= 0
        BY <1>2, <2>5 DEF RowSound
      <3> QED
        BY <1>2, <1>3, <2>2, <2>3, <2>4, <2>5, <3>1, <3>2
    <2>6. draft[a].avail >= 0
      <3>1. a = Cash => draft[a].avail = 0
        BY <2>1 DEF DraftSound
      <3> QED
        BY <2>5, <3>1 DEF Customers
    <2>7. row[a].bal + g.net[a] >= -Overdraft[a]
      BY <1>2, <1>3, <2>3, <2>4, <2>6
    <2>8. \A m \in Meters : /\ draft[a].used[m] = row[a].used[m] + g.use[a][m]
                            /\ draft[a].used[m] <= Limit[a][m]
      BY <1>2, <2>1 DEF DraftSound, RowChecks, AccountRow
    <2>9. RowSound(a)'
      BY <2>1, <2>5 DEF RowSound, DraftSound, RowChecks
    <2> QED
      BY <2>1, <2>4, <2>7, <2>8, <2>9
  <1> QED
    BY <1>4, <1>5

LEMMA CommitMoveInv ==
    ASSUME MoveInv, LedgerInv', NEW r \in Requests, Commit(r)
    PROVE  MoveInv'
  <1> SUFFICES ASSUME NEW g, g = ProgressOf(r) PROVE MoveInv'
    OBVIOUS
  <1>1. \A a \in Accounts : RowSound(a)'
    BY CommittedRows
  <1>2. /\ Finish(r, "posted") /\ draft' = draft /\ docDraft' = docDraft
        /\ row' = [a \in Accounts |-> IF owner[a] = r THEN draft[a] ELSE row[a]]
        /\ doc' = [d \in Docs |-> IF owner[d] = r THEN docDraft[d] ELSE doc[d]]
    BY DEF Commit
  <1>3. /\ \A a \in Accounts : owner[a] # r => draft'[a] = draft[a] /\ row'[a] = row[a]
        /\ \A d \in Docs : owner[d] # r => docDraft'[d] = docDraft[d] /\ doc'[d] = doc[d]
    BY <1>2
  <1> QED
    BY <1>1, <1>2, <1>3, EndTracks DEF MoveInv

LEMMA BeginMoveInv ==
    ASSUME MoveInv, LedgerInv', NEW r \in Requests, NEW t \in Tasks, Begin(r, t)
    PROVE  MoveInv'
  <1>1. /\ TypeOK /\ outcome[r] = "idle" /\ outcome' = [outcome EXCEPT ![r] = "open"]
        /\ task' = [task EXCEPT ![r] = t] /\ pc' = [pc EXCEPT ![r] = 1]
        /\ UNCHANGED <<owner, row, draft, doc, docDraft>>
    BY DEF Begin, MoveInv, LedgerInv, sql
  <1>2. /\ outcome'[r] = "open" /\ task'[r] = t /\ pc'[r] = 1
        /\ \A q \in Requests \ {r} :
             outcome'[q] = outcome[q] /\ task'[q] = task[q] /\ pc'[q] = pc[q]
    BY <1>1 DEF TypeOK
  <1>3. r \notin Open /\ Open' = Open \cup {r}
    BY <1>1, <1>2 DEF Open
  <1>4. \A a \in Accounts : RowSound(a)'
    BY <1>1 DEF MoveInv, RowSound, RowChecks
  <1>5. \A x \in Rows : owner'[x] # NoOne => owner'[x] \in Open'
    BY <1>1, <1>3 DEF MoveInv
  <1>6. ASSUME NEW q \in Open PROVE Tracks(q)'
    <2>1. q \in Requests \ {r}
      BY <1>3 DEF Open
    <2> QED
      BY <1>1, <1>2, <2>1, StillTracks
  <1>7. Tracks(r)'
    <2> SUFFICES ASSUME NEW g, g = NothingDone PROVE Tracks(r)'
      OBVIOUS
    <2>1. g = Walks[task'[r]][pc'[r]]
      BY <1>2, WalksAreWhole DEF WalksWhole
    <2>2. g.locked = {} /\ g.made = {} /\ g.undone = {}
      BY DEF NothingDone
    <2>3. \A x \in Rows : owner'[x] # r
      BY <1>1, <1>3, NamesAssumption DEF MoveInv
    <2>4. HasDone(r, g)'
      BY <2>2, <2>3 DEF HasDone, RecordsSound
    <2> QED
      BY <2>1, <2>4, StartIsSane, NowTracks
  <1> QED
    BY <1>3, <1>4, <1>5, <1>6, <1>7 DEF MoveInv

\* Any other step commits nothing.
Uncommitted(r) ==
    \/ GivesUp(r)
    \/ GoesOn(r) /\ \E h : Sane(h) /\ h = Walks[task[r]][pc[r]+1] /\ HasDone(r, h)'

LEMMA OwnStepSane ==
    ASSUME MoveInv, NEW r \in Requests, Execute(r), ~Commit(r)
    PROVE  r \in Open /\ Uncommitted(r)
  <1> SUFFICES ASSUME NEW g, g = ProgressOf(r), NEW h, h = Walks[task[r]][pc[r]+1]
               PROVE  r \in Open /\ Uncommitted(r)
    OBVIOUS
  <1>1. r \in Open /\ (GivesUp(r) \/ (GoesOn(r) /\ HasDone(r, h)'))
    BY OwnStep
  <1>2. TypeOK /\ Upcoming(r) \in Statement
    BY <1>1, UpcomingStatement DEF MoveInv, LedgerInv
  <1>3. g \in Progress /\ h \in Progress /\ Adds(g, Upcoming(r), h)
    BY <1>1, <1>2, ProgressMade
  <1>4. Sane(h)
    BY <1>1, <1>2, <1>3, StaysSane DEF MoveInv, Tracks
  <1> QED
    BY <1>1, <1>4 DEF Uncommitted

LEMMA MoveInvNext == MoveInv /\ [Next]_vars => MoveInv'
  <1> SUFFICES ASSUME MoveInv, [Next]_vars PROVE MoveInv'
    OBVIOUS
  <1>1. LedgerInv'
    BY LedgerInvNext, MovementsDisciplined DEF MoveInv
  <1>2. ASSUME NEW r \in Requests, NEW t \in Tasks, Begin(r, t) PROVE MoveInv'
    BY <1>1, <1>2, BeginMoveInv
  <1>3. ASSUME NEW r \in Requests, Commit(r) PROVE MoveInv'
    BY <1>1, <1>3, CommitMoveInv
  <1>4. ASSUME NEW r \in Requests, Execute(r), ~Commit(r) PROVE MoveInv'
    BY <1>1, <1>4, OwnStepSane, GoesOnInv, GivesUpInv DEF Uncommitted
  <1>5. ASSUME NEW r \in Requests, Abort(r) PROVE MoveInv'
    BY <1>1, <1>5, GivesUpInv DEF Abort, GivesUp
  <1>6. CASE UNCHANGED vars
    <2>1. UNCHANGED <<outcome, task, pc, owner, row, draft, doc, docDraft>>
      BY <1>6 DEF vars, sql
    <2>2. Open' = Open
      BY <2>1 DEF Open
    <2>3. \A q \in Open : Tracks(q)'
      BY <2>1, StillTracks
    <2>4. \A a \in Accounts : RowSound(a)'
      BY <2>1 DEF MoveInv, RowSound, RowChecks
    <2> QED
      BY <1>1, <2>1, <2>2, <2>3, <2>4 DEF MoveInv
  <1> QED
    BY <1>2, <1>3, <1>4, <1>5, <1>6 DEF Next, Done

LEMMA MovesInvariant == Spec => []MoveInv
  BY MoveInvInit, MoveInvNext, PTL DEF Spec

\* Whatever requests run at once and wherever they are cut off: a customer's
\* available balance is the balance and the overdraft, no customer is overdrawn
\* past it, and EXTERNAL_CASH keeps its own at 0.  The funds check is made before
\* the posting, and only the locks make it still true after.
THEOREM AvailableIsKept == Spec => []AvailableIsDerived
  <1>1. MoveInv => AvailableIsDerived
    BY MovesAssumption DEF MoveInv, RowSound, AvailableIsDerived, Customers
  <1> QED
    BY <1>1, MovesInvariant, PTL

-----------------------------------------------------------------------------
(* The refinement: a commit is the abstract step, and nothing else is. *)

LEMMA StartsAbstract == Init => Abstract!Init
  BY RowsAssumption DEF Init, Abstract!Init

\* A step that commits nothing.
LEMMA Stutters ==
    ASSUME TypeOK, UNCHANGED <<row, doc>>,
           \A r \in Requests : /\ outcome'[r] = "posted" <=> outcome[r] = "posted"
                               /\ outcome[r] = "posted" => task'[r] = task[r]
    PROVE  UNCHANGED Abstract!ledgerVars
  BY DEF Abstract!ledgerVars

LEMMA EndStutters ==
    ASSUME MoveInv, NEW r \in Open, GivesUp(r)
    PROVE  UNCHANGED Abstract!ledgerVars
  <1>1. TypeOK /\ r \in Requests /\ outcome[r] = "open"
    BY DEF MoveInv, LedgerInv, Open
  <1>2. PICK how \in {"refused", "replayed", "failed", "tripped"} :
          /\ outcome' = [outcome EXCEPT ![r] = how] /\ task' = task
          /\ row' = row /\ doc' = doc
    BY DEF GivesUp, Rollback, Finish
  <1>3. \A q \in Requests : outcome'[q] = "posted" <=> outcome[q] = "posted"
    BY <1>1, <1>2 DEF TypeOK
  <1> QED
    BY <1>1, <1>2, <1>3, Stutters

LEMMA CommitPosts ==
    ASSUME MoveInv, NEW r \in Requests, NEW t, t = task[r], Commit(r)
    PROVE  Abstract!Post(r, t)
  <1> SUFFICES ASSUME NEW g, g = ProgressOf(r) PROVE Abstract!Post(r, t)
    OBVIOUS
  <1> DEFINE m == Moves[t]
  <1>1. /\ r \in Open /\ t \in Tasks /\ g \in Progress
        /\ Complete(g, m) /\ Sane(g) /\ HasDone(r, g) /\ Finish(r, "posted")
        /\ doc' = [d \in Docs |-> IF d \in g.locked THEN docDraft[d] ELSE doc[d]]
    BY CommitsWhole
  <1>2. TypeOK /\ outcome[r] = "open"
    BY <1>1 DEF MoveInv, LedgerInv, Open
  <1>3. /\ Effects[t] = g.net /\ Consumptions[t] = g.use
        /\ Made[t] = g.made /\ Undone[t] = g.undone
    BY <1>1 DEF Complete, Effects, Consumptions, Made, Undone
  <1>4. \A a \in Accounts :
           /\ row'[a].bal = row[a].bal + g.net[a]
           /\ \A k \in Meters : row'[a].used[k] = row[a].used[k] + g.use[a][k]
           /\ g.net[a] < 0 => row[a].bal + g.net[a] >= -Overdraft[a]
           /\ \A k \in Meters : row[a].used[k] + g.use[a][k] <= Limit[a][k]
    BY CommittedRows
  <1> HIDE DEF m
  <1>5. [q \in Requests |-> IF outcome[q] = "posted" THEN task[q] ELSE NoTask][r] = NoTask
    BY <1>2
  <1>6. [x \in Accounts |-> row'[x].bal]
          = [a \in Accounts |-> [x \in Accounts |-> row[x].bal][a] + Effects[t][a]]
    BY <1>3, <1>4
  <1>7. [x \in Accounts |-> row'[x].used]
          = [a \in Accounts |-> [k \in Meters |->
               [x \in Accounts |-> row[x].used][a][k] + Consumptions[t][a][k]]]
    <2>1. row' \in [Accounts -> AccountRow]
      BY <1>2, CommitType DEF MoveInv, LedgerInv, TypeOK
    <2>2. \A a \in Accounts :
             row'[a].used = [k \in Meters |-> row[a].used[k] + g.use[a][k]]
      BY <1>4, <2>1 DEF AccountRow
    <2> QED
      BY <1>3, <2>2
  <1>8. /\ \A d \in g.made : doc[d] = Absent /\ docDraft[d] = "completed"
        /\ \A d \in g.undone : doc[d] = "completed" /\ docDraft[d] = "reversed"
        /\ g.made \cup g.undone = g.locked \cap Docs /\ g.made \cap g.undone = {}
    BY <1>1 DEF HasDone, RecordsSound, Sane
  <1>9. doc' = [d \in Docs |-> IF d \in Made[t] THEN "completed"
                               ELSE IF d \in Undone[t] THEN "reversed" ELSE doc[d]]
    <2>1. \A d \in Docs : doc'[d] = IF d \in Made[t] THEN "completed"
                                    ELSE IF d \in Undone[t] THEN "reversed" ELSE doc[d]
      BY <1>1, <1>3, <1>8
    <2> QED
      BY <1>1, <2>1
  <1>10. [q \in Requests |-> IF outcome'[q] = "posted" THEN task'[q] ELSE NoTask]
           = [[q \in Requests |-> IF outcome[q] = "posted" THEN task[q] ELSE NoTask]
                EXCEPT ![r] = t]
    <2>1. outcome' = [outcome EXCEPT ![r] = "posted"] /\ task' = task
      BY <1>1 DEF Finish
    <2> QED
      BY <1>2, <2>1 DEF TypeOK
  <1>11. \A a \in Accounts : Effects[t][a] < 0 =>
            [x \in Accounts |-> row[x].bal][a] + Effects[t][a]
              >= [x \in Accounts |-> -Overdraft[x]][a]
    BY <1>3, <1>4
  <1>12. \A a \in Accounts, k \in Meters :
            [x \in Accounts |-> row[x].used][a][k] + Consumptions[t][a][k] <= Limit[a][k]
    BY <1>3, <1>4
  <1>13. /\ \A d \in Made[t] : doc[d] = Absent
         /\ \A d \in Undone[t] : doc[d] = "completed"
    BY <1>3, <1>8
  <1>14. Abstract!Post(r, t)
    BY <1>5, <1>6, <1>7, <1>9, <1>10, <1>11, <1>12, <1>13
       DEF Abstract!Post, Abstract!Affordable, Abstract!WithinLimits
  <1> QED
    BY <1>14

LEMMA StepsAbstract ==
    MoveInv /\ [Next]_vars => [Abstract!Next]_(Abstract!ledgerVars)
  <1> SUFFICES ASSUME MoveInv, [Next]_vars
               PROVE  Abstract!Next \/ UNCHANGED Abstract!ledgerVars
    OBVIOUS
  <1>1. TypeOK
    BY DEF MoveInv, LedgerInv
  <1>2. ASSUME NEW r \in Requests, NEW t \in Tasks, Begin(r, t)
        PROVE  UNCHANGED Abstract!ledgerVars
    <2>1. /\ outcome[r] = "idle" /\ outcome' = [outcome EXCEPT ![r] = "open"]
          /\ task' = [task EXCEPT ![r] = t] /\ UNCHANGED <<row, doc>>
      BY <1>2 DEF Begin, sql
    <2>2. \A q \in Requests : /\ outcome'[q] = "posted" <=> outcome[q] = "posted"
                              /\ outcome[q] = "posted" => task'[q] = task[q]
      BY <1>1, <2>1 DEF TypeOK
    <2> QED
      BY <1>1, <2>1, <2>2, Stutters
  <1>3. ASSUME NEW r \in Requests, Commit(r) PROVE Abstract!Next
    <2> SUFFICES ASSUME NEW t, t = task[r] PROVE Abstract!Next
      OBVIOUS
    <2>1. t \in Tasks
      BY <1>3, CommitsWhole
    <2>2. Abstract!Post(r, t)
      BY <1>3, CommitPosts
    <2> QED
      BY <2>1, <2>2 DEF Abstract!Next
  <1>4. ASSUME NEW r \in Requests, Execute(r), ~Commit(r)
        PROVE  UNCHANGED Abstract!ledgerVars
    <2>1. r \in Open /\ (GivesUp(r) \/ GoesOn(r))
      BY <1>4, OwnStepSane DEF Uncommitted
    <2>2. CASE GivesUp(r)
      BY <2>1, <2>2, EndStutters
    <2>3. CASE GoesOn(r)
      <3>1. UNCHANGED <<row, doc>> /\ outcome' = outcome /\ task' = task
        BY <2>3 DEF GoesOn, Advance
      <3> QED
        BY <1>1, <3>1, Stutters
    <2> QED
      BY <2>1, <2>2, <2>3
  <1>5. ASSUME NEW r \in Requests, Abort(r) PROVE UNCHANGED Abstract!ledgerVars
    BY <1>5, EndStutters DEF Abort, GivesUp, Open
  <1>6. CASE UNCHANGED vars
    BY <1>1, <1>6, Stutters DEF vars, sql
  <1> QED
    BY <1>2, <1>3, <1>4, <1>5, <1>6 DEF Next, Done

\* The endpoints implement AtomicLedger.  A handler that answers with success has
\* debited, credited, charged its fee, counted against the limit and recorded the
\* movement in one step, within the floor and the limit as they then stand; one
\* that is refused, fails or dies has done nothing.
THEOREM MovementsAreAtomic == Spec => ImplementsAtomicLedger
  <1>1. Spec => Abstract!Init /\ [][Abstract!Next]_(Abstract!ledgerVars)
    BY StartsAbstract, StepsAbstract, MovesInvariant, PTL DEF Spec
  <1> QED
    BY <1>1 DEF ImplementsAtomicLedger, Abstract!Spec

-----------------------------------------------------------------------------
(* What the core is told.  A script's documents add up to what its movement  *)
(* does to EXTERNAL_CASH, with the sign turned: what leaves the bank's cash  *)
(* is owed to its customers.                                                 *)

Document(s) == IF s.op = "gl" THEN s.amt ELSE 0
\* It says how much itself.
Plain(s) == Document(s) \in Int /\ (s.op = "gl" => s.tag = Blank)

\* The sum of the documents before each statement of s, and after the last.
IsTally(w, s) ==
    /\ w \in [1..Len(s)+1 -> Int] /\ w[1] = 0
    /\ \A i \in 1..Len(s) : Plain(s[i]) /\ w[i+1] = w[i] + Document(s[i])

Tells(s, n) == IsPiece(s) /\ n \in Int /\ \E w : IsTally(w, s) /\ w[Len(s)+1] = n

LEMMA TellsNothing == Tells(<< >>, 0)
  <1> DEFINE s == << >>  w == [i \in 1..1 |-> 0]
  <1>1. s \in Seq({}) /\ Len(s) = 0 /\ w \in [1..1 -> Int] /\ w[1] = 0
    OBVIOUS
  <1> HIDE DEF s, w
  <1>2. IsPiece(s) /\ 1..Len(s) = {} /\ Len(s) + 1 = 1
    BY <1>1 DEF IsPiece
  <1>3. Tells(s, 0)
    BY <1>1, <1>2 DEF Tells, IsTally
  <1> QED
    BY <1>3 DEF s

LEMMA TellsOne ==
    ASSUME NEW x, NEW n, n = Document(x), Plain(x) PROVE Tells(<< x >>, n)
  <1> DEFINE s == << x >>  w == [i \in 1..2 |-> IF i = 1 THEN 0 ELSE n]
  <1>1. s \in Seq({x}) /\ Len(s) = 1 /\ s[1] = x
    OBVIOUS
  <1>2. w \in [1..2 -> Int] /\ w[1] = 0 /\ w[2] = n
    BY DEF Plain
  <1> HIDE DEF s, w
  <1>3. IsPiece(s) /\ Len(s) + 1 = 2 /\ \A i \in 1..Len(s) : i = 1
    BY <1>1 DEF IsPiece
  <1>4. IsTally(w, s)
    BY <1>1, <1>2, <1>3 DEF IsTally
  <1>5. Tells(s, n)
    BY <1>2, <1>3, <1>4 DEF Tells, Plain
  <1> QED
    BY <1>5 DEF s

LEMMA TellsBoth ==
    ASSUME NEW s, NEW t, NEW m, NEW n, Tells(s, m), Tells(t, n)
    PROVE  Tells(s \o t, m + n)
  <1> DEFINE u == s \o t
  <1>1. PICK S : s \in Seq(S) /\ t \in Seq(S)
    <2>1. PICK A : s \in Seq(A)
      BY DEF Tells, IsPiece
    <2>2. PICK B : t \in Seq(B)
      BY DEF Tells, IsPiece
    <2>3. s \in Seq(A \cup B) /\ t \in Seq(A \cup B)
      BY <2>1, <2>2
    <2> QED
      BY <2>3
  <1>2. /\ u \in Seq(S) /\ Len(u) = Len(s) + Len(t)
        /\ Len(s) \in Nat /\ Len(t) \in Nat
        /\ \A i \in 1..Len(s) : u[i] = s[i]
        /\ \A i \in 1..Len(t) : u[Len(s) + i] = t[i]
    BY <1>1
  <1>3. PICK v : IsTally(v, s) /\ v[Len(s)+1] = m
    BY DEF Tells
  <1>4. PICK w : IsTally(w, t) /\ w[Len(t)+1] = n
    BY DEF Tells
  <1>5. m \in Int /\ n \in Int
    BY DEF Tells
  <1> DEFINE x == [i \in 1..Len(u)+1 |-> IF i <= Len(s) THEN v[i] ELSE m + w[i - Len(s)]]
  <1> HIDE DEF u
  <1>6. \A i \in 1..Len(u)+1 :
          /\ i <= Len(s) => x[i] = v[i] /\ i \in 1..Len(s)+1
          /\ ~(i <= Len(s)) => x[i] = m + w[i - Len(s)] /\ i - Len(s) \in 1..Len(t)+1
    BY <1>2
  <1>7. x \in [1..Len(u)+1 -> Int]
    <2>1. v \in [1..Len(s)+1 -> Int] /\ w \in [1..Len(t)+1 -> Int]
      BY <1>3, <1>4 DEF IsTally
    <2>2. \A i \in 1..Len(u)+1 : x[i] \in Int
      <3> SUFFICES ASSUME NEW i \in 1..Len(u)+1 PROVE x[i] \in Int
        OBVIOUS
      <3>1. CASE i <= Len(s)
        BY <1>6, <2>1, <3>1
      <3>2. CASE ~(i <= Len(s))
        <4> DEFINE k == i - Len(s)
        <4>1. x[i] = m + w[k] /\ k \in 1..Len(t)+1
          BY <1>6, <3>2
        <4> HIDE DEF k
        <4>2. w[k] \in Int
          BY <2>1, <4>1
        <4> QED
          BY <1>5, <4>1, <4>2
      <3> QED
        BY <3>1, <3>2
    <2> QED
      BY <2>2
  <1>8. 1 \in 1..Len(u)+1 /\ Len(u) + 1 \in 1..Len(u)+1
    BY <1>2
  <1>9. x[1] = 0
    <2>1. CASE 1 <= Len(s)
      BY <1>3, <1>6, <1>8, <2>1 DEF IsTally
    <2>2. CASE ~(1 <= Len(s))
      <3>1. Len(s) = 0
        BY <1>2, <2>2
      <3> QED
        BY <1>3, <1>4, <1>5, <1>6, <1>8, <2>2, <3>1 DEF IsTally
    <2> QED
      BY <2>1, <2>2
  <1>10. x[Len(u)+1] = m + n
    <2>1. ~(Len(u) + 1 <= Len(s)) /\ (Len(u) + 1) - Len(s) = Len(t) + 1
      BY <1>2
    <2> QED
      BY <1>4, <1>6, <1>8, <2>1
  <1>11. ASSUME NEW i \in 1..Len(u)
         PROVE  Plain(u[i]) /\ x[i+1] = x[i] + Document(u[i])
    <2>1. i \in 1..Len(u)+1 /\ i + 1 \in 1..Len(u)+1
      BY <1>2
    <2>2. CASE i + 1 <= Len(s)
      <3>1. i \in 1..Len(s) /\ i <= Len(s)
        BY <1>2, <2>2
      <3>2. x[i] = v[i] /\ x[i+1] = v[i+1] /\ u[i] = s[i]
        BY <1>2, <1>6, <2>1, <2>2, <3>1
      <3> QED
        BY <1>3, <3>1, <3>2 DEF IsTally
    <2>3. CASE i = Len(s)
      <3>1. i \in 1..Len(s) /\ i <= Len(s) /\ ~(i + 1 <= Len(s)) /\ (i + 1) - Len(s) = 1
        BY <1>2, <2>3
      <3>2. x[i] = v[i] /\ x[i+1] = m + w[1] /\ u[i] = s[i]
        BY <1>2, <1>6, <2>1, <3>1
      <3>3. m = v[i] + Document(s[i]) /\ w[1] = 0 /\ Plain(s[i])
        BY <1>3, <1>4, <2>3, <3>1 DEF IsTally
      <3> QED
        BY <1>5, <3>2, <3>3 DEF Plain
    <2>4. CASE i > Len(s)
      <3> DEFINE k == i - Len(s)
      <3>1. /\ k \in 1..Len(t) /\ Len(s) + k = i /\ ~(i <= Len(s)) /\ ~(i + 1 <= Len(s))
            /\ (i + 1) - Len(s) = k + 1 /\ i - Len(s) = k
        BY <1>2, <2>4
      <3> HIDE DEF k
      <3>2. x[i] = m + w[k] /\ x[i+1] = m + w[k+1] /\ u[i] = t[k]
        BY <1>2, <1>6, <2>1, <3>1
      <3>3. /\ w[k+1] = w[k] + Document(t[k]) /\ w[k] \in Int /\ Plain(t[k])
        <4>1. w \in [1..Len(t)+1 -> Int] /\ k \in 1..Len(t)+1
          BY <1>2, <1>4, <3>1 DEF IsTally
        <4>2. w[k+1] = w[k] + Document(t[k]) /\ Plain(t[k])
          BY <1>4, <3>1 DEF IsTally
        <4> QED
          BY <4>1, <4>2
      <3> QED
        BY <1>5, <3>2, <3>3 DEF Plain
    <2> QED
      BY <1>2, <2>2, <2>3, <2>4
  <1>12. IsTally(x, u)
    BY <1>7, <1>9, <1>11 DEF IsTally
  <1>13. Tells(u, m + n)
    BY <1>2, <1>5, <1>10, <1>12 DEF Tells, IsPiece
  <1> QED
    BY <1>13 DEF u

\* A statement that posts no document.
LEMMA TellsIdle ==
    ASSUME NEW op, op # "gl", NEW a, NEW n, NEW m, NEW was, NEW tag
    PROVE  /\ Tells(<< Do(op, a, n) >>, 0) /\ Tells(<< OnMeter(op, a, n, m) >>, 0)
           /\ Tells(<< OnDoc(op, a, was, tag) >>, 0)
           /\ Tells(OfCustomer(op, a), 0)
  <1>1. /\ Document(Do(op, a, n)) = 0 /\ Document(OnMeter(op, a, n, m)) = 0
        /\ Document(OnDoc(op, a, was, tag)) = 0 /\ Document(Do(op, a, 0)) = 0
        /\ Plain(Do(op, a, n)) /\ Plain(OnMeter(op, a, n, m))
        /\ Plain(OnDoc(op, a, was, tag)) /\ Plain(Do(op, a, 0))
    BY DoFields DEF Document, Plain
  <1> QED
    BY <1>1, TellsOne, TellsNothing DEF OfCustomer

LEMMA TellsNoMore ==
    ASSUME NEW s, NEW t, NEW n, Tells(s, n), Tells(t, 0) PROVE Tells(s \o t, n)
  <1>1. n + 0 = n
    BY DEF Tells
  <1> QED
    BY <1>1, TellsBoth

LEMMA TellsFirst ==
    ASSUME NEW s, NEW t, NEW n, Tells(s, 0), Tells(t, n) PROVE Tells(s \o t, n)
  <1>1. 0 + n = n
    BY DEF Tells
  <1> QED
    BY <1>1, TellsBoth

LEMMA LocksTellNothing ==
    ASSUME NEW a \in Accounts, NEW b \in Accounts
    PROVE  Tells(LocksOf(CashLast(a, b)), 0) /\ Tells(LocksOf(Append(CashLast(a, b), Cash)), 0)
  <1>1. ASSUME NEW x, NEW y PROVE Tells(LocksOf(<< x, y >>), 0)
    <2> DEFINE p == Do("lock", x, 0)  q == Do("lock", y, 0)
    <2>1. LocksOf(<< x, y >>) = << p, q >>
      BY DEF LocksOf
    <2>2. << p, q >> = << p >> \o << q >>
      BY TwoOnes
    <2>3. Tells(<< p >>, 0) /\ Tells(<< q >>, 0)
      BY TellsIdle
    <2> HIDE DEF p, q
    <2> QED
      BY <2>1, <2>2, <2>3, TellsNoMore
  <1>2. Tells(LocksOf(CashLast(a, b)), 0)
    BY <1>1 DEF CashLast
  <1>3. CashLast(a, b) \in Seq(Accounts) /\ Cash \in Accounts
    BY MovesAssumption DEF CashLast
  <1>4. LocksOf(Append(CashLast(a, b), Cash)) = LocksOf(CashLast(a, b)) \o << Do("lock", Cash, 0) >>
    BY <1>3, OneMoreLock
  <1>5. Tells(<< Do("lock", Cash, 0) >>, 0)
    BY TellsIdle
  <1> QED
    BY <1>2, <1>4, <1>5, TellsNoMore

\* A posting tells the core what it is given to tell.
LEMMA PostingTells ==
    ASSUME NEW debit, NEW credit, NEW n, NEW glPost, NEW k, Tells(glPost, k)
    PROVE  Tells(PostMovement(debit, credit, n, glPost), k)
  <1> DEFINE floor == OfCustomer("floor", debit)
             r == Do("read", debit, 0)  w == Do("write", debit, -n)
             q == Do("read", credit, 0) v == Do("write", credit, n)
             one == OfCustomer("recompute", debit)
             two == OfCustomer("recompute", credit)
             legs == PostTwoLegged(debit, credit, n)
  <1>1. /\ Tells(floor, 0) /\ Tells(one, 0) /\ Tells(two, 0)
        /\ Tells(<< r >>, 0) /\ Tells(<< w >>, 0) /\ Tells(<< q >>, 0) /\ Tells(<< v >>, 0)
    BY TellsIdle
  <1>2. legs = << r, w, q, v >>
    BY DEF PostTwoLegged
  <1> HIDE DEF floor, r, w, q, v, one, two
  <1>3. << r, w, q, v >> = << r, w >> \o << q, v >>
    OBVIOUS
  <1>4. << r, w >> = << r >> \o << w >> /\ << q, v >> = << q >> \o << v >>
    BY TwoOnes
  <1>5. Tells(<< r, w >>, 0) /\ Tells(<< q, v >>, 0)
    BY <1>1, <1>4, TellsNoMore
  <1>6. Tells(legs, 0)
    BY <1>2, <1>3, <1>5, TellsNoMore
  <1> HIDE DEF legs
  <1>7. Tells(floor \o legs \o one \o two, 0)
    BY <1>1, <1>6, TellsNoMore
  <1>8. Tells(floor \o legs \o one \o two \o glPost, k)
    BY <1>7, TellsFirst
  <1> QED
    BY <1>8 DEF PostMovement, floor, legs, one, two

LEMMA DepositsTell ==
    ASSUME NEW n \in Int PROVE Tells(Deposits(n), n)
  <1>1. Document(Do("gl", NoOne, n)) = n /\ Plain(Do("gl", NoOne, n))
    BY DEF Document, Plain, Do, Stmt
  <1> QED
    BY <1>1, TellsOne DEF Deposits

LEMMA KeyedTells ==
    ASSUME NEW m, NEW s, Tells(<< s >>, 0) PROVE Tells(Keyed(m, s), 0)
  BY TellsNothing DEF Keyed

\* A transfer, and the transfer that a reversal undoes, is between customers.
AmongCustomers(m) ==
    (m.kind = "transfer" \/ (m.kind = "reversal" /\ m.of = "transfer")) =>
        m.from # Cash /\ m.to # Cash

LEMMA DepositTells ==
    ASSUME NEW m \in Move PROVE Tells(Deposit(m), m.amt)
  <1>1. m.to \in Accounts /\ Cash \in Accounts /\ m.amt \in Int
    BY MoveTypes DEF Move
  <1>2. Tells(PostMovement(Cash, m.to, m.amt, Deposits(m.amt)), m.amt)
    BY <1>1, DepositsTell, PostingTells
  <1>3. Tells(LocksOf(CashLast(m.to, Cash)), 0) /\ Tells(Ends, 0)
    BY <1>1, LocksTellNothing, TellsIdle DEF Ends
  <1> QED
    BY <1>2, <1>3, TellsFirst, TellsNoMore DEF Deposit

LEMMA WithdrawTells ==
    ASSUME NEW m \in Move PROVE Tells(Withdraw(m), -m.amt)
  <1> DEFINE funds == Do("funds", m.from, m.amt)
             limit == OnMeter("limit", m.from, m.amt, "withdrawal")
             use == << OnMeter("use", m.from, m.amt, "withdrawal") >>
             locks == LocksOf(CashLast(m.from, Cash))
             post == PostMovement(m.from, Cash, m.amt, Deposits(-m.amt))
  <1>1. m.from \in Accounts /\ Cash \in Accounts /\ -m.amt \in Int
    BY MoveTypes DEF Move
  <1>2. Tells(post, -m.amt)
    BY <1>1, DepositsTell, PostingTells
  <1>3. /\ Tells(locks, 0) /\ Tells(Ends, 0) /\ Tells(use, 0)
        /\ Tells(<< funds >>, 0) /\ Tells(<< limit >>, 0)
    BY <1>1, LocksTellNothing, TellsIdle DEF Ends
  <1>4. Withdraw(m) = locks \o << funds, limit >> \o post \o use \o Ends
    BY DEF Withdraw
  <1> HIDE DEF funds, limit, use, locks, post
  <1>5. Tells(<< funds, limit >>, 0)
    BY <1>3, TwoOnes, TellsNoMore
  <1>6. Tells(locks \o << funds, limit >>, 0)
    BY <1>3, <1>5, TellsNoMore
  <1>7. Tells(locks \o << funds, limit >> \o post, -m.amt)
    BY <1>2, <1>6, TellsFirst
  <1> QED
    BY <1>3, <1>4, <1>7, TellsNoMore

LEMMA TransferTells ==
    ASSUME NEW m \in Move PROVE Tells(Transfer(m), -TransferFee)
  <1> DEFINE find == Keyed(m, OnDoc("find", m.txn, Blank, Blank))
             locks == LocksOf(Append(CashLast(m.from, m.to), Cash))
             funds == Do("funds", m.from, m.amt + TransferFee)
             limit == OnMeter("limit", m.from, m.amt, "transfer")
             insert == Keyed(m, OnDoc("insert", m.txn, Absent, "completed"))
             post == PostMovement(m.from, m.to, m.amt, << >>)
             charge == ChargeFee(m)
             use == << OnMeter("use", m.from, m.amt, "transfer") >>
  <1>1. m.from \in Accounts /\ m.to \in Accounts /\ TransferFee \in Nat /\ -TransferFee \in Int
    BY MoveTypes, MovesAssumption
  <1>2. Tells(post, 0)
    BY TellsNothing, PostingTells
  <1>3. Tells(charge, -TransferFee)
    <2>1. CASE TransferFee = 0
      BY <2>1, TellsNothing DEF ChargeFee
    <2>2. CASE TransferFee # 0
      BY <1>1, <2>2, DepositsTell, PostingTells DEF ChargeFee
    <2> QED
      BY <2>1, <2>2
  <1>4. /\ Tells(locks, 0) /\ Tells(find, 0) /\ Tells(insert, 0)
        /\ Tells(Ends, 0) /\ Tells(use, 0)
        /\ Tells(<< funds >>, 0) /\ Tells(<< limit >>, 0)
    BY <1>1, LocksTellNothing, TellsIdle, KeyedTells DEF Ends
  <1>5. Transfer(m) = find \o locks \o << funds, limit >> \o insert \o post \o charge \o use \o Ends
    BY DEF Transfer
  <1> HIDE DEF find, locks, funds, limit, insert, post, charge, use
  <1>6. Tells(<< funds, limit >>, 0)
    BY <1>4, TwoOnes, TellsNoMore
  <1>7. Tells(find \o locks \o << funds, limit >> \o insert \o post, 0)
    BY <1>2, <1>4, <1>6, TellsNoMore
  <1>8. Tells(find \o locks \o << funds, limit >> \o insert \o post \o charge, -TransferFee)
    BY <1>3, <1>7, TellsFirst
  <1> QED
    BY <1>4, <1>5, <1>8, TellsNoMore

\* What the mirror of a movement tells the core.
Undoing(m) == IF m.of = "deposit" THEN -m.amt ELSE IF m.of = "withdrawal" THEN m.amt ELSE 0

LEMMA ReverseTells ==
    ASSUME NEW m \in Move PROVE Tells(Reverse(m), Undoing(m))
  <1> DEFINE expect == << OnDoc("expect", m.txn, "completed", Blank) >>
             locks == LocksOf(CashLast(m.to, m.from))
             mark == << OnDoc("mark", m.txn, "completed", "reversed") >>
             funds == IF m.to = Cash THEN << >> ELSE << Do("funds", m.to, m.amt) >>
             post == PostMovement(m.to, m.from, m.amt, UndoGL(m))
  <1>1. m.from \in Accounts /\ m.to \in Accounts /\ m.amt \in Int /\ -m.amt \in Int
    BY MoveTypes DEF Move
  <1>2. Tells(UndoGL(m), Undoing(m))
    BY <1>1, DepositsTell, TellsNothing DEF UndoGL, Undoing
  <1>3. Tells(post, Undoing(m))
    BY <1>2, PostingTells
  <1>4. /\ Tells(locks, 0) /\ Tells(expect, 0) /\ Tells(mark, 0) /\ Tells(funds, 0)
        /\ Tells(Ends, 0)
    BY <1>1, LocksTellNothing, TellsIdle, TellsNothing DEF Ends
  <1>5. Reverse(m) = expect \o locks \o mark \o funds \o post \o Ends
    BY DEF Reverse
  <1> HIDE DEF expect, locks, mark, funds, post
  <1>6. Tells(expect \o locks \o mark \o funds, 0)
    BY <1>4, TellsNoMore
  <1>7. Tells(expect \o locks \o mark \o funds \o post, Undoing(m))
    BY <1>3, <1>6, TellsFirst
  <1> QED
    BY <1>4, <1>5, <1>7, TellsNoMore

LEMMA ScriptsTell ==
    ASSUME NEW t \in Tasks, AmongCustomers(Moves[t])
    PROVE  Tells(Script[t], -Net(Moves[t])[Cash])
  <1>1. /\ Moves[t] \in Move /\ Script[t] = ScriptOf(Moves[t]) /\ Moves[t].from # Moves[t].to
        /\ Cash \in Accounts /\ TransferFee \in Nat
    BY MovesAssumption, ScriptsAssumption
  <1>2. /\ Moves[t].kind \in Kinds /\ Moves[t].of \in Kinds /\ Moves[t].amt \in Nat
        /\ Moves[t].kind = "deposit" => Moves[t].from = Cash
        /\ Moves[t].kind = "withdrawal" => Moves[t].to = Cash
        /\ Moves[t].kind = "reversal" =>
             /\ Moves[t].of # "reversal"
             /\ Moves[t].of = "deposit" => Moves[t].from = Cash
             /\ Moves[t].of = "withdrawal" => Moves[t].to = Cash
    BY <1>1, MoveTypes, SidesAssumption DEF Move
  <1> DEFINE m == Moves[t]
  <1>3. AmongCustomers(m)
    OBVIOUS
  <1>4. -Net(m)[Cash] \in Int
    BY <1>1, NetValues
  <1> HIDE DEF m
  <1>5. CASE m.kind = "deposit"
    <2>1. Net(m)[Cash] = -m.amt
      BY <1>1, <1>2, <1>5, NetValues DEF m
    <2>2. -Net(m)[Cash] = m.amt
      BY <1>2, <2>1 DEF m
    <2> QED
      BY <1>1, <1>5, <2>2, DepositTells DEF ScriptOf, m
  <1>6. CASE m.kind = "withdrawal"
    <2>1. Net(m)[Cash] = m.amt
      BY <1>1, <1>2, <1>6, NetValues DEF m
    <2> QED
      BY <1>1, <1>6, <2>1, WithdrawTells DEF ScriptOf, m
  <1>7. CASE m.kind = "transfer"
    <2>1. Net(m)[Cash] = TransferFee
      BY <1>1, <1>2, <1>3, <1>7, NetValues DEF m, AmongCustomers
    <2> QED
      BY <1>1, <1>7, <2>1, TransferTells DEF ScriptOf, m
  <1>8. CASE m.kind = "reversal"
    <2>1. Net(m)[Cash] = (IF Cash = m.from THEN m.amt ELSE 0) - (IF Cash = m.to THEN m.amt ELSE 0)
      BY <1>1, <1>8, NetValues DEF m
    <2>2. -Net(m)[Cash] = Undoing(m)
      BY <1>1, <1>2, <1>3, <1>8, <2>1 DEF m, AmongCustomers, Undoing, Kinds
    <2> QED
      BY <1>1, <1>8, <2>2, ReverseTells DEF ScriptOf, m
  <1> QED
    BY <1>2, <1>5, <1>6, <1>7, <1>8 DEF Kinds, m

-----------------------------------------------------------------------------
(* The core and the customers' balances. *)

TransfersAmongCustomers == \A t \in Tasks : AmongCustomers(Moves[t])

\* A tally of script t, from nothing told to its whole movement.
TallyWhole(t, w) ==
    IsTally(w, Script[t]) /\ w[Len(Script[t])] = -Net(Moves[t])[Cash]

Tallies == [t \in Tasks |-> CHOOSE w : TallyWhole(t, w)]

LEMMA TalliesAreWhole ==
    ASSUME TransfersAmongCustomers, NEW t \in Tasks
    PROVE  TallyWhole(t, Tallies[t])
  <1> DEFINE s == Script[t]  n == Len(s)
  <1>1. s \in Seq(Statement) /\ n \in Nat /\ n \in 1..n /\ s[n].op = "commit"
    BY ScriptAssumption
  <1>2. Tells(s, -Net(Moves[t])[Cash])
    BY ScriptsTell DEF TransfersAmongCustomers
  <1>3. PICK w : IsTally(w, s) /\ w[n+1] = -Net(Moves[t])[Cash]
    BY <1>2 DEF Tells
  <1>4. w[n+1] = w[n] + Document(s[n]) /\ w \in [1..n+1 -> Int] /\ n \in 1..n+1
    BY <1>1, <1>3 DEF IsTally
  <1>5. Document(s[n]) = 0
    BY <1>1 DEF Document
  <1> HIDE DEF s, n
  <1>6. w[n+1] = w[n]
    BY <1>4, <1>5
  <1>7. TallyWhole(t, w)
    BY <1>3, <1>6 DEF TallyWhole, s, n
  <1> QED
    BY <1>7 DEF Tallies

\* A function that is zero but at one place.
LEMMA SumSpike ==
    ASSUME NEW S, IsFiniteSet(S), NEW x \in S, NEW f, f[x] \in Int,
           \A y \in S \ {x} : f[y] = 0
    PROVE  WholeOn(S, f) /\ SumOver(S, f) = f[x]
  <1>1. WholeOn(S, f)
    BY DEF WholeOn
  <1>2. SumOver(S \ {x}, f) = 0
    <2>1. IsFiniteSet(S \ {x})
      BY FS_Subset
    <2> QED
      BY <2>1, SumZero
  <1>3. SumOver(S, f) = SumOver(S \ {x}, f) + f[x]
    BY <1>1, SumRemove
  <1> QED
    BY <1>1, <1>2, <1>3

\* The two sides of a movement: what customers gain is what EXTERNAL_CASH loses.
LEMMA NetBalances ==
    ASSUME NEW m \in Move
    PROVE  SumOver(Customers, Net(m)) = -Net(m)[Cash]
  <1> DEFINE backwards == m.kind = "reversal"
             fee == IF m.kind = "transfer" THEN TransferFee ELSE 0
             out == IF backwards THEN m.to ELSE m.from
             in  == IF backwards THEN m.from ELSE m.to
             f == [x \in Accounts |-> IF x = in THEN m.amt ELSE 0]
             g == [x \in Accounts |-> IF x = out THEN -(m.amt + fee) ELSE 0]
             h == [x \in Accounts |-> IF x = Cash THEN fee ELSE 0]
             fg == [x \in Accounts |-> f[x] + g[x]]
             e == Net(m)
  <1>1. /\ m.amt \in Int /\ TransferFee \in Int /\ fee \in Int
        /\ in \in Accounts /\ out \in Accounts /\ Cash \in Accounts
    BY MovesAssumption DEF Move
  <1>2. IsFiniteSet(Accounts)
    BY IdsAssumption, FS_Subset DEF Rows
  <1>3. e = [x \in Accounts |-> (IF x = in THEN m.amt ELSE 0)
                  - (IF x = out THEN m.amt + fee ELSE 0) + (IF x = Cash THEN fee ELSE 0)]
    BY DEF Net
  <1> HIDE DEF fee, out, in, e
  <1>4. /\ f \in [Accounts -> Int] /\ g \in [Accounts -> Int] /\ h \in [Accounts -> Int]
        /\ \A x \in Accounts : e[x] = fg[x] + h[x] /\ fg[x] = f[x] + g[x] /\ fg[x] \in Int
    BY <1>1, <1>3
  <1>5. /\ f[in] = m.amt /\ \A y \in Accounts \ {in} : f[y] = 0
        /\ g[out] = -(m.amt + fee) /\ \A y \in Accounts \ {out} : g[y] = 0
        /\ h[Cash] = fee /\ \A y \in Accounts \ {Cash} : h[y] = 0
    BY <1>1
  <1> HIDE DEF f, g, h, fg
  <1>6. SumOver(Accounts, f) = m.amt /\ WholeOn(Accounts, f)
    BY <1>1, <1>2, <1>5, SumSpike
  <1>7. SumOver(Accounts, g) = -(m.amt + fee) /\ WholeOn(Accounts, g)
    <2>1. g[out] \in Int
      BY <1>1, <1>5
    <2> QED
      BY <1>1, <1>2, <1>5, <2>1, SumSpike
  <1>8. SumOver(Accounts, h) = fee /\ WholeOn(Accounts, h)
    BY <1>1, <1>2, <1>5, SumSpike
  <1>9. WholeOn(Accounts, fg) /\ WholeOn(Accounts, e)
    BY <1>4 DEF WholeOn
  <1>10. SumOver(Accounts, fg) = SumOver(Accounts, f) + SumOver(Accounts, g)
    BY <1>2, <1>4, <1>6, <1>7, SumPlus
  <1>11. SumOver(Accounts, e) = SumOver(Accounts, fg) + SumOver(Accounts, h)
    BY <1>2, <1>4, <1>8, <1>9, SumPlus
  <1>12. SumOver(Accounts, e) = 0
    BY <1>1, <1>6, <1>7, <1>8, <1>10, <1>11
  <1>13. SumOver(Accounts, e) = SumOver(Customers, e) + e[Cash]
    BY <1>1, <1>2, <1>9, SumRemove DEF Customers
  <1>14. SumOver(Customers, e) \in Int /\ e[Cash] \in Int
    <2>1. IsFiniteSet(Customers) /\ WholeOn(Customers, e)
      BY <1>2, <1>9, FS_Subset DEF Customers, WholeOn
    <2> QED
      BY <1>1, <1>9, <2>1, SumType DEF WholeOn
  <1>15. SumOver(Customers, e) = -e[Cash]
    BY <1>12, <1>13, <1>14
  <1> QED
    BY <1>15 DEF e

\* The core has been told what the statements behind the open requests say, and
\* nothing by those that have not begun.
CoreInv ==
    /\ MoveInv
    /\ \A r \in Requests : outcome[r] = "idle" => gl[r] = 0
    /\ \A r \in Open : gl[r] = Tallies[task[r]][pc[r]]
    /\ IsFiniteSet(Posted)
    /\ CustomersTieToGL

LEMMA CoreInvInit == Init => CoreInv
  <1> SUFFICES ASSUME Init PROVE CoreInv
    OBVIOUS
  <1>1. /\ MoveInv /\ Posted = {} /\ Open = {} /\ row = OpeningRow
        /\ \A r \in Requests : outcome[r] = "idle" /\ gl[r] = 0
    BY MoveInvInit DEF Init, Posted, Open
  <1>2. SumOver(Customers, Gained) = 0
    <2>1. IsFiniteSet(Customers)
      BY IdsAssumption, FS_Subset DEF Rows, Customers
    <2>2. \A a \in Customers : Gained[a] = 0
      <3>1. \A a \in Customers : OpeningRow[a].bal \in Int
        BY RowsAssumption DEF Customers, AccountRow
      <3> QED
        BY <1>1, <3>1 DEF Gained
    <2> QED
      BY <2>1, <2>2, SumZero
  <1>3. SumOver(Posted, gl) = 0 /\ IsFiniteSet(Posted)
    BY <1>1, SumEmpty, FS_EmptySet
  <1> QED
    BY <1>1, <1>2, <1>3 DEF CoreInv, CustomersTieToGL

\* A step that posts nothing and tells of nobody who has posted.
LEMMA TieKept ==
    ASSUME CoreInv, TypeOK', UNCHANGED row, Posted' = Posted,
           \A q \in Posted : gl'[q] = gl[q]
    PROVE  (IsFiniteSet(Posted) /\ CustomersTieToGL)'
  <1>1. Gained' = Gained
    BY DEF Gained
  <1>2. WholeOn(Posted, gl) /\ IsFiniteSet(Posted)
    BY DEF CoreInv, MoveInv, LedgerInv, TypeOK, WholeOn, Posted
  <1>3. SumOver(Posted, gl) = SumOver(Posted, gl')
    BY <1>2, SumSame
  <1> QED
    BY <1>1, <1>2, <1>3 DEF CoreInv, CustomersTieToGL

LEMMA TallySoFar ==
    ASSUME TransfersAmongCustomers, TypeOK, NEW r \in Open, NEW w, w = Tallies[task[r]]
    PROVE  /\ w \in [1..Len(Script[task[r]])+1 -> Int]
           /\ Plain(Upcoming(r)) /\ w[pc[r]+1] = w[pc[r]] + Document(Upcoming(r))
           /\ w[1] = 0
           /\ Upcoming(r).op = "commit" => w[pc[r]] = -Net(Moves[task[r]])[Cash]
  <1> DEFINE t == task[r]  s == Script[t]  i == pc[r]
  <1>1. /\ t \in Tasks /\ i \in 1..Len(s) /\ Len(s) \in Nat
        /\ s[i] = Upcoming(r) /\ (s[i].op = "commit" => i = Len(s))
    BY UpcomingStatement, ScriptAssumption DEF Upcoming
  <1>2. TallyWhole(t, w)
    BY <1>1, TalliesAreWhole
  <1> HIDE DEF t, s, i
  <1>3. IsTally(w, s) /\ (i = Len(s) => w[i] = -Net(Moves[t])[Cash])
    BY <1>2 DEF TallyWhole, s
  <1>4. /\ w \in [1..Len(s)+1 -> Int] /\ w[1] = 0
        /\ Plain(s[i]) /\ w[i+1] = w[i] + Document(s[i])
    BY <1>1, <1>3 DEF IsTally
  <1> QED
    BY <1>1, <1>3, <1>4 DEF t, s, i

\* What a step tells the core: a statement that is passed, what it says; one that
\* fails, whatever it may.
LEMMA StepTells ==
    ASSUME TransfersAmongCustomers, TypeOK, NEW r \in Requests, r \in Open, Execute(r)
    PROVE  /\ \A q \in Requests \ {r} : gl'[q] = gl[q]
           /\ GivesUp(r) \/ gl'[r] = gl[r] + Document(Upcoming(r))
  <1>1. gl \in [Requests -> Int] /\ Plain(Upcoming(r))
    BY TallySoFar DEF TypeOK
  <1>2. CASE ~PostGL(r)
    <2>1. gl' = gl /\ Upcoming(r).op # "gl"
      BY <1>2 DEF Execute, Lock, Funds, WithinLimit, Expect, Find, Insert, Mark, ChangeDoc, Set,
             Ensure, Sweep, NetOut, Tally, When, Hold, Floor, TriggerRead, TriggerWrite,
             Recompute, RecomputeCard, UseLimit, Commit, Require, Update, At
    <2> QED
      BY <1>1, <2>1 DEF Document
  <1>3. CASE PostGL(r)
    <2>1. /\ Upcoming(r).op = "gl" /\ Upcoming(r).tag = Blank /\ Blank # ByNet
          /\ Upcoming(r).amt \in Int
      BY <1>1, <1>3 DEF PostGL, At, Plain, Document, Blank, ByNet
    <2>2. Amount(r) = Upcoming(r).amt /\ Document(Upcoming(r)) = Upcoming(r).amt
      BY <2>1 DEF Amount, Document
    <2>3. \/ gl' = [gl EXCEPT ![r] = @ + Amount(r)] /\ Advance(r)
          \/ gl' = [gl EXCEPT ![r] = @ + Amount(r)] /\ Rollback(r, "failed")
          \/ gl' = gl /\ Rollback(r, "failed")
      BY <1>3, <2>1 DEF PostGL
    <2> QED
      BY <1>1, <2>2, <2>3 DEF GivesUp
  <1> QED
    BY <1>2, <1>3

LEMMA EndCore ==
    ASSUME CoreInv, MoveInv', NEW r \in Open, GivesUp(r),
           \A q \in Requests \ {r} : gl'[q] = gl[q]
    PROVE  CoreInv'
  <1>1. TypeOK /\ r \in Requests /\ outcome[r] = "open" /\ TypeOK'
    BY DEF CoreInv, MoveInv, LedgerInv, Open
  <1>2. PICK how \in {"refused", "replayed", "failed", "tripped"} :
          /\ outcome' = [outcome EXCEPT ![r] = how] /\ task' = task
          /\ pc' = [pc EXCEPT ![r] = 0] /\ row' = row
    BY DEF GivesUp, Rollback, Finish
  <1>3. /\ Posted' = Posted /\ r \notin Posted /\ Open' = Open \ {r}
        /\ outcome'[r] # "idle"
        /\ \A q \in Requests \ {r} :
             outcome'[q] = outcome[q] /\ task'[q] = task[q] /\ pc'[q] = pc[q]
    BY <1>1, <1>2 DEF TypeOK, Posted, Open
  <1>4. (IsFiniteSet(Posted) /\ CustomersTieToGL)'
    <2>1. \A q \in Posted : gl'[q] = gl[q]
      BY <1>3 DEF Posted
    <2> QED
      BY <1>1, <1>2, <1>3, <2>1, TieKept
  <1>5. \A q \in Requests : outcome'[q] = "idle" => gl'[q] = 0
    BY <1>3 DEF CoreInv
  <1>6. \A q \in Open' : gl'[q] = Tallies[task'[q]][pc'[q]]
    BY <1>3 DEF CoreInv, Open
  <1> QED
    BY <1>4, <1>5, <1>6 DEF CoreInv

LEMMA GoOnCore ==
    ASSUME CoreInv, MoveInv', TransfersAmongCustomers, NEW r \in Open, GoesOn(r),
           \A q \in Requests \ {r} : gl'[q] = gl[q],
           gl'[r] = gl[r] + Document(Upcoming(r))
    PROVE  CoreInv'
  <1>1. TypeOK /\ r \in Requests /\ TypeOK'
    BY DEF CoreInv, MoveInv, LedgerInv, Open
  <1>2. /\ outcome' = outcome /\ task' = task /\ pc' = [pc EXCEPT ![r] = @ + 1] /\ row' = row
    BY DEF GoesOn, Advance
  <1>3. /\ Posted' = Posted /\ r \notin Posted /\ Open' = Open
        /\ outcome[r] # "idle" /\ pc'[r] = pc[r] + 1
        /\ \A q \in Requests \ {r} : pc'[q] = pc[q]
    BY <1>1, <1>2 DEF TypeOK, Posted, Open
  <1>4. (IsFiniteSet(Posted) /\ CustomersTieToGL)'
    <2>1. \A q \in Posted : gl'[q] = gl[q]
      BY <1>3 DEF Posted
    <2> QED
      BY <1>1, <1>2, <1>3, <2>1, TieKept
  <1>5. \A q \in Requests : outcome'[q] = "idle" => gl'[q] = 0
    BY <1>2, <1>3 DEF CoreInv
  <1>6. gl'[r] = Tallies[task[r]][pc[r]+1]
    <2> SUFFICES ASSUME NEW w, w = Tallies[task[r]] PROVE gl'[r] = w[pc[r]+1]
      OBVIOUS
    <2>1. w[pc[r]+1] = w[pc[r]] + Document(Upcoming(r))
      BY <1>1, TallySoFar
    <2> QED
      BY <2>1 DEF CoreInv
  <1>7. \A q \in Open' : gl'[q] = Tallies[task'[q]][pc'[q]]
    BY <1>2, <1>3, <1>6 DEF CoreInv, Open
  <1> QED
    BY <1>4, <1>5, <1>7 DEF CoreInv

LEMMA BeginCore ==
    ASSUME CoreInv, MoveInv', TransfersAmongCustomers,
           NEW r \in Requests, NEW t \in Tasks, Begin(r, t)
    PROVE  CoreInv'
  <1>1. TypeOK /\ TypeOK' /\ outcome[r] = "idle" /\ gl[r] = 0
    BY DEF Begin, CoreInv, MoveInv, LedgerInv
  <1>2. /\ outcome' = [outcome EXCEPT ![r] = "open"] /\ task' = [task EXCEPT ![r] = t]
        /\ pc' = [pc EXCEPT ![r] = 1] /\ row' = row /\ gl' = gl
    BY DEF Begin, sql
  <1>3. /\ Posted' = Posted /\ Open' = Open \cup {r} /\ outcome'[r] = "open"
        /\ task'[r] = t /\ pc'[r] = 1
        /\ \A q \in Requests \ {r} :
             outcome'[q] = outcome[q] /\ task'[q] = task[q] /\ pc'[q] = pc[q]
    BY <1>1, <1>2 DEF TypeOK, Posted, Open
  <1>4. (IsFiniteSet(Posted) /\ CustomersTieToGL)'
    BY <1>1, <1>2, <1>3, TieKept
  <1>5. \A q \in Requests : outcome'[q] = "idle" => gl'[q] = 0
    BY <1>2, <1>3 DEF CoreInv
  <1>6. Tallies[t][1] = 0
    BY TalliesAreWhole DEF TallyWhole, IsTally
  <1>7. \A q \in Open' : gl'[q] = Tallies[task'[q]][pc'[q]]
    BY <1>1, <1>2, <1>3, <1>6 DEF CoreInv, Open
  <1> QED
    BY <1>4, <1>5, <1>7 DEF CoreInv

LEMMA CommitCore ==
    ASSUME CoreInv, MoveInv', TransfersAmongCustomers, NEW r \in Requests, Commit(r)
    PROVE  CoreInv'
  <1> SUFFICES ASSUME NEW g, g = ProgressOf(r), NEW t, t = task[r] PROVE CoreInv'
    OBVIOUS
  <1>1. /\ MoveInv /\ TypeOK /\ TypeOK' /\ r \in Open /\ t \in Tasks
        /\ g \in Progress /\ Complete(g, Moves[t]) /\ Finish(r, "posted")
    BY CommitsWhole DEF CoreInv, MoveInv, LedgerInv
  <1>2. /\ outcome' = [outcome EXCEPT ![r] = "posted"] /\ task' = task
        /\ pc' = [pc EXCEPT ![r] = 0] /\ gl' = gl /\ Upcoming(r).op = "commit"
    BY <1>1 DEF Finish, Commit, At
  <1>3. /\ Posted' = Posted \cup {r} /\ r \notin Posted /\ Open' = Open \ {r}
        /\ outcome'[r] # "idle"
        /\ \A q \in Requests \ {r} :
             outcome'[q] = outcome[q] /\ task'[q] = task[q] /\ pc'[q] = pc[q]
    BY <1>1, <1>2 DEF TypeOK, Posted, Open
  <1>4. g.net = Net(Moves[t]) /\ Moves[t] \in Move /\ gl[r] = -g.net[Cash]
    <2>1. g.net = Net(Moves[t]) /\ Moves[t] \in Move
      BY <1>1, MovesAssumption DEF Complete
    <2> SUFFICES ASSUME NEW w, w = Tallies[t] PROVE gl[r] = -g.net[Cash]
      BY <2>1
    <2>2. w[pc[r]] = -Net(Moves[t])[Cash]
      BY <1>1, <1>2, TallySoFar
    <2> QED
      BY <1>1, <2>1, <2>2 DEF CoreInv
  <1>5. \A a \in Customers : Gained'[a] = Gained[a] + g.net[a]
    <2> SUFFICES ASSUME NEW a \in Customers PROVE Gained'[a] = Gained[a] + g.net[a]
      OBVIOUS
    <2>1. a \in Accounts /\ row'[a].bal = row[a].bal + g.net[a]
      BY <1>1, CommittedRows DEF Customers
    <2>2. row[a].bal \in Int /\ OpeningRow[a].bal \in Int /\ g.net[a] \in Int
      BY <1>1, <2>1, RowsAssumption DEF TypeOK, AccountRow, Progress
    <2> QED
      BY <2>1, <2>2 DEF Gained
  <1>6. IsFiniteSet(Customers) /\ WholeOn(Customers, Gained) /\ WholeOn(Customers, g.net)
    <2>1. ASSUME NEW a \in Customers PROVE Gained[a] \in Int /\ g.net[a] \in Int
      <3>1. a \in Accounts
        BY DEF Customers
      <3>2. row[a].bal \in Int /\ OpeningRow[a].bal \in Int
        BY <1>1, <3>1, RowsAssumption DEF TypeOK, AccountRow
      <3>3. g.net[a] \in Int
        BY <1>1, <3>1 DEF Progress
      <3> QED
        BY <3>2, <3>3 DEF Gained
    <2> QED
      BY <2>1, IdsAssumption, FS_Subset DEF Rows, Customers, WholeOn
  <1>7. SumOver(Customers, Gained') = SumOver(Customers, Gained) + SumOver(Customers, g.net)
    <2> SUFFICES ASSUME NEW G, G = Gained'
                 PROVE  SumOver(Customers, G) = SumOver(Customers, Gained) + SumOver(Customers, g.net)
      OBVIOUS
    <2>1. \A a \in Customers : G[a] = Gained[a] + g.net[a]
      BY <1>5
    <2> QED
      BY <1>6, <2>1, SumPlus
  <1>8. SumOver(Customers, g.net) = gl[r]
    BY <1>4, NetBalances
  <1>9. IsFiniteSet(Posted') /\ SumOver(Posted', gl') = SumOver(Posted, gl) + gl[r]
    <2>1. IsFiniteSet(Posted) /\ WholeOn(Posted \cup {r}, gl)
      BY <1>1 DEF CoreInv, TypeOK, WholeOn, Posted
    <2>2. SumOver(Posted \cup {r}, gl) = SumOver(Posted, gl) + gl[r]
      BY <1>3, <2>1, SumAdd
    <2>3. IsFiniteSet(Posted \cup {r})
      BY <2>1, FS_AddElement
    <2> QED
      BY <1>2, <1>3, <2>2, <2>3
  <1>10. CustomersTieToGL'
    BY <1>7, <1>8, <1>9 DEF CustomersTieToGL, CoreInv
  <1>11. \A q \in Requests : outcome'[q] = "idle" => gl'[q] = 0
    BY <1>2, <1>3 DEF CoreInv
  <1>12. \A q \in Open' : gl'[q] = Tallies[task'[q]][pc'[q]]
    BY <1>2, <1>3 DEF CoreInv, Open
  <1> QED
    BY <1>9, <1>10, <1>11, <1>12 DEF CoreInv

LEMMA CoreInvNext ==
    ASSUME TransfersAmongCustomers, CoreInv, [Next]_vars PROVE CoreInv'
  <1>1. MoveInv /\ MoveInv' /\ TypeOK /\ TypeOK'
    BY MoveInvNext DEF CoreInv, MoveInv, LedgerInv
  <1>2. ASSUME NEW r \in Requests, NEW t \in Tasks, Begin(r, t) PROVE CoreInv'
    BY <1>1, <1>2, BeginCore
  <1>3. ASSUME NEW r \in Requests, Commit(r) PROVE CoreInv'
    BY <1>1, <1>3, CommitCore
  <1>4. ASSUME NEW r \in Requests, Execute(r), ~Commit(r) PROVE CoreInv'
    <2>1. r \in Open /\ Uncommitted(r)
      BY <1>1, <1>4, OwnStepSane
    <2>2. /\ \A q \in Requests \ {r} : gl'[q] = gl[q]
          /\ GivesUp(r) \/ gl'[r] = gl[r] + Document(Upcoming(r))
      BY <1>1, <1>4, <2>1, StepTells
    <2> QED
      BY <1>1, <2>1, <2>2, EndCore, GoOnCore DEF Uncommitted
  <1>5. ASSUME NEW r \in Requests, Abort(r) PROVE CoreInv'
    <2>1. r \in Open /\ GivesUp(r) /\ gl' = gl
      BY <1>5 DEF Abort, GivesUp, Open
    <2> QED
      BY <1>1, <2>1, EndCore
  <1>6. CASE UNCHANGED vars
    <2>1. UNCHANGED << outcome, task, pc, row, gl >>
      BY <1>6 DEF vars, sql
    <2>2. Posted' = Posted /\ Open' = Open
      BY <2>1 DEF Posted, Open
    <2>3. (IsFiniteSet(Posted) /\ CustomersTieToGL)'
      BY <1>1, <2>1, <2>2, TieKept
    <2> QED
      BY <1>1, <2>1, <2>2, <2>3 DEF CoreInv
  <1> QED
    BY <1>2, <1>3, <1>4, <1>5, <1>6 DEF Next, Done

\* Where no transfer names EXTERNAL_CASH, what the core has on record for the
\* requests that succeeded is what the customers' balances have changed by: for any
\* calls at once, any amounts, fee and limits, and whatever is cut off, refused or
\* posted to the core in vain.  A transfer to EXTERNAL_CASH would take a customer's
\* money out of the bank without a word to the core.
THEOREM CoreAgrees == TransfersAmongCustomers => (Spec => []CustomersTieToGL)
  <1> SUFFICES ASSUME TransfersAmongCustomers PROVE Spec => []CustomersTieToGL
    OBVIOUS
  <1>1. CoreInv /\ [Next]_vars => CoreInv'
    BY CoreInvNext
  <1>2. CoreInv => CustomersTieToGL
    BY DEF CoreInv
  <1> QED
    BY <1>1, <1>2, CoreInvInit, PTL DEF Spec
=============================================================================
