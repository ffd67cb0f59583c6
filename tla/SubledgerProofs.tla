-------------------------- MODULE SubledgerProofs --------------------------
(***************************************************************************)
(* Theorems about the subledger, for any number of requests, accounts and  *)
(* tasks and any scripts of the shape ScriptAssumption asks for.           *)
(*                                                                         *)
(* The first part is about every script at once: types, updates that are   *)
(* not lost, locks along an order.  The second is a logic in which what    *)
(* one script does is shown by running it alone.                           *)
(***************************************************************************)
EXTENDS Subledger, FiniteSetTheorems, WellFoundedInduction, TLAPS

-----------------------------------------------------------------------------
(* Statements. *)

\* The statement an open request is at is one of its script, and all but the
\* last are followed by another.
LEMMA UpcomingStatement ==
    ASSUME TypeOK, NEW r \in Open
    PROVE  /\ r \in Requests /\ task[r] \in Tasks /\ pc[r] \in 1..Len(Script[task[r]])
           /\ Upcoming(r) \in Statement
           /\ Upcoming(r).op # "commit" => pc[r] + 1 \in 1..Len(Script[task[r]])
  BY ScriptAssumption DEF TypeOK, Open, Upcoming

\* What a statement on an account row carries.
LEMMA AccountStatement ==
    ASSUME NEW s \in Statement, s.op \in AccountOps
    PROVE  /\ s.row \in Accounts /\ s.amt \in Int /\ s.tag \in Meters \cup {Blank, ByNet}
  BY DEF Statement, AccountOps, AccountWrites, DocOps, DocWrites

LEMMA DocStatement ==
    ASSUME NEW s \in Statement, s.op \in DocOps
    PROVE  s.row \in Docs /\ s.was \in STRING /\ s.tag \in STRING
  BY DEF Statement, AccountOps, AccountWrites, DocOps, DocWrites

LEMMA AmountType ==
    ASSUME TypeOK, NEW r \in Open
    PROVE  Amount(r) \in Int
  <1>1. Upcoming(r).amt \in Int
    BY UpcomingStatement DEF Statement
  <1>2. net[r] \in Int
    BY UpcomingStatement DEF TypeOK
  <1>3. QED
    BY <1>1, <1>2 DEF Amount

\* An open request is at the statement its script has there.
LEMMA AtIsOpen ==
    ASSUME NEW r \in Requests, NEW op, At(r, op)
    PROVE  r \in Open /\ Upcoming(r).op = op
  BY DEF At, Open

-----------------------------------------------------------------------------
(* Type correctness. *)

LEMMA AdvanceType ==
    ASSUME TypeOK, NEW r \in Open, Upcoming(r).op # "commit", Advance(r)
    PROVE  /\ outcome' = outcome /\ task' = task
           /\ pc' \in [Requests -> Nat]
           /\ \A s \in Open' : task'[s] \in Tasks /\ pc'[s] \in 1..Len(Script[task'[s]])
  <1>1. pc[r] + 1 \in 1..Len(Script[task[r]]) /\ r \in Requests
    BY UpcomingStatement
  <1>2. outcome' = outcome /\ task' = task /\ pc' = [pc EXCEPT ![r] = pc[r] + 1]
    BY DEF Advance
  <1>3. QED
    BY <1>1, <1>2 DEF TypeOK, Open

LEMMA FinishType ==
    ASSUME TypeOK, NEW r \in Requests, NEW how \in {"posted", "refused", "replayed",
                                                  "failed", "tripped"},
           Finish(r, how)
    PROVE  /\ outcome' \in [Requests -> {"idle", "open", "posted", "refused", "replayed",
                                         "failed", "tripped"}]
           /\ task' \in [Requests -> Tasks \cup {NoTask}]
           /\ pc' \in [Requests -> Nat]
           /\ \A s \in Open' : task'[s] \in Tasks /\ pc'[s] \in 1..Len(Script[task'[s]])
           /\ owner' \in [Rows -> Requests \cup {NoOne}]
           /\ seen' \in [Requests -> Int] /\ net' \in [Requests -> Int]
           /\ pend' \in [Requests -> [Accounts -> Int]]
  BY DEF TypeOK, Finish, Open, NoEntries

LEMMA RollbackType ==
    ASSUME TypeOK, NEW r \in Requests, NEW how \in {"refused", "replayed", "failed", "tripped"},
           Rollback(r, how), gl' \in [Requests -> Int]
    PROVE  TypeOK'
  <1>1. Finish(r, how)
    BY DEF Rollback
  <1>2. /\ row' = row /\ doc' = doc /\ journal' = journal
        /\ draft' \in [Accounts -> AccountRow] /\ docDraft' \in [Docs -> STRING]
    BY DEF Rollback, TypeOK
  <1>3. QED
    BY <1>1, <1>2, FinishType DEF TypeOK

LEMMA UpdateType ==
    ASSUME TypeOK, NEW r \in Open, Upcoming(r).op # "commit", NEW a \in Accounts,
           NEW x \in AccountRow, NEW n \in Int, Update(r, a, x, n)
    PROVE  TypeOK'
  <1>1. r \in Requests
    BY DEF Open
  <1>2. CASE RowChecks(a, x)
    <2>1. /\ owner' = [owner EXCEPT ![a] = r] /\ draft' = [draft EXCEPT ![a] = x]
          /\ pend' = [pend EXCEPT ![r][a] = @ + n] /\ seen' = [seen EXCEPT ![r] = 0]
          /\ Advance(r) /\ UNCHANGED <<row, doc, docDraft, journal, net, gl>>
      BY <1>2 DEF Update
    <2>2. /\ owner' \in [Rows -> Requests \cup {NoOne}]
          /\ draft' \in [Accounts -> AccountRow]
      BY <1>1, <2>1 DEF TypeOK, Rows
    <2>3. pend' \in [Requests -> [Accounts -> Int]] /\ seen' \in [Requests -> Int]
      BY <1>1, <2>1 DEF TypeOK
    <2>4. QED
      BY <2>1, <2>2, <2>3, AdvanceType DEF TypeOK
  <1>3. CASE ~RowChecks(a, x)
    <2>1. Rollback(r, "tripped") /\ UNCHANGED gl
      BY <1>3 DEF Update
    <2>2. QED
      BY <1>1, <2>1, RollbackType DEF TypeOK
  <1>4. QED
    BY <1>2, <1>3

LEMMA ViewType ==
    ASSUME TypeOK, NEW r, NEW a \in Accounts
    PROVE  View(r, a) \in AccountRow
  BY DEF TypeOK, View

LEMMA ChangeDocType ==
    ASSUME TypeOK, NEW r \in Open, Upcoming(r).op \in DocWrites,
           NEW how \in {"refused", "replayed"}, ChangeDoc(r, how)
    PROVE  TypeOK'
  <1> DEFINE s == Upcoming(r)
  <1>1. r \in Requests /\ s \in Statement
    BY UpcomingStatement
  <1>2. s.row \in Docs /\ s.tag \in STRING /\ s.op # "commit"
    BY <1>1, DocStatement DEF DocOps, DocWrites
  <1>3. CASE DocView(r, s.row) = s.was
    <2>1. /\ owner' = [owner EXCEPT ![s.row] = r]
          /\ docDraft' = [docDraft EXCEPT ![s.row] = s.tag]
          /\ Advance(r) /\ UNCHANGED <<row, draft, doc, pend, journal, seen, net, gl>>
      BY <1>3 DEF ChangeDoc
    <2>2. owner' \in [Rows -> Requests \cup {NoOne}] /\ docDraft' \in [Docs -> STRING]
      BY <1>1, <1>2, <2>1 DEF TypeOK
    <2>3. QED
      BY <1>2, <2>1, <2>2, AdvanceType DEF TypeOK
  <1>4. CASE DocView(r, s.row) # s.was
    <2>1. Rollback(r, how) /\ UNCHANGED gl
      BY <1>4 DEF ChangeDoc
    <2>2. QED
      BY <1>1, <2>1, RollbackType DEF TypeOK
  <1>5. QED
    BY <1>3, <1>4

\* The statements whose UPDATE rewrites an account row.
LEMMA UpdatesType ==
    ASSUME TypeOK, NEW r \in Requests,
           \/ Floor(r) \/ TriggerWrite(r) \/ Recompute(r) \/ RecomputeCard(r)
           \/ Hold(r) \/ UseLimit(r)
    PROVE  TypeOK'
  <1> DEFINE s == Upcoming(r)
             x == View(r, s.row)
  <1>1. /\ r \in Open
        /\ s.op \in {"floor", "write", "recompute", "recard", "hold", "use"}
    BY AtIsOpen DEF Floor, TriggerWrite, Recompute, RecomputeCard, Hold, UseLimit, At, Open
  <1>2. /\ s \in Statement /\ s.op \in AccountOps /\ s.op # "commit"
    BY <1>1, UpcomingStatement DEF AccountOps, AccountWrites
  <1>3. s.row \in Accounts /\ s.amt \in Int /\ Amount(r) \in Int
    BY <1>1, <1>2, AccountStatement, AmountType
  <1>4. x \in AccountRow /\ Overdraft[s.row] \in Int /\ seen[r] \in Int
    BY <1>3, ViewType, RowsAssumption DEF TypeOK
  <1>5. \A y \in AccountRow, n \in Int : Update(r, s.row, y, n) => TypeOK'
    BY <1>1, <1>2, <1>3, UpdateType
  <1>6. CASE Floor(r)
    <2>1. Update(r, s.row, [x EXCEPT !.avail = 0], 0)
      BY <1>6 DEF Floor
    <2>2. QED
      BY <1>4, <1>5, <2>1 DEF AccountRow
  <1>7. CASE TriggerWrite(r)
    <2>1. Update(r, s.row, [x EXCEPT !.bal = seen[r] + Amount(r)], Amount(r))
      BY <1>7 DEF TriggerWrite
    <2>2. QED
      BY <1>3, <1>4, <1>5, <2>1 DEF AccountRow
  <1>8. CASE Recompute(r)
    <2>1. Update(r, s.row, [x EXCEPT !.avail = x.bal + Overdraft[s.row] - x.held], 0)
      BY <1>8 DEF Recompute
    <2>2. QED
      BY <1>4, <1>5, <2>1 DEF AccountRow
  <1>9. CASE RecomputeCard(r)
    <2>1. Update(r, s.row, [x EXCEPT !.avail = Overdraft[s.row] - x.bal - x.held], 0)
      BY <1>9 DEF RecomputeCard
    <2>2. QED
      BY <1>4, <1>5, <2>1 DEF AccountRow
  <1>10. CASE Hold(r)
    <2>1. Update(r, s.row, [x EXCEPT !.held = @ + Amount(r)], 0)
      BY <1>10 DEF Hold
    <2>2. QED
      BY <1>3, <1>4, <1>5, <2>1 DEF AccountRow
  <1>11. CASE UseLimit(r)
    <2>1. Update(r, s.row, [x EXCEPT !.used[s.tag] = @ + s.amt], 0)
      BY <1>11 DEF UseLimit
    <2>2. [x EXCEPT !.used[s.tag] = @ + s.amt] \in AccountRow
      BY <1>3, <1>4 DEF AccountRow
    <2>3. QED
      BY <1>5, <2>1, <2>2
  <1>12. QED
    BY <1>6, <1>7, <1>8, <1>9, <1>10, <1>11

\* A branch goes to the next statement or past its body, still in the script.
LEMMA WhenType ==
    ASSUME TypeOK, NEW r \in Requests, When(r)
    PROVE  TypeOK'
  <1> DEFINE s == Upcoming(r)
             script == Script[task[r]]
  <1>1. r \in Open /\ s.op = "when"
    BY DEF When, At, Open
  <1>2. /\ task[r] \in Tasks /\ pc[r] \in 1..Len(script) /\ s \in Statement
        /\ s = script[pc[r]] /\ pc[r] + 1 \in 1..Len(script)
    BY <1>1, UpcomingStatement DEF Upcoming
  <1>3. s.over \in Nat /\ pc[r] + s.over < Len(script)
    <2>1. s.over \in Nat
      BY <1>1, <1>2 DEF Statement, AccountOps, AccountWrites, DocOps, DocWrites
    <2>2. QED
      BY <1>1, <1>2, <2>1, ScriptAssumption
  <1>4. PICK k \in {0, s.over} : pc' = [pc EXCEPT ![r] = pc[r] + 1 + k]
    BY DEF When
  <1>5. pc[r] + 1 + k \in 1..Len(script)
    <2>1. Len(script) \in Nat
      BY <1>2, ScriptAssumption
    <2>2. QED
      BY <1>2, <1>3, <1>4, <2>1
  <1>6. UNCHANGED <<outcome, task, owner, row, draft, doc, docDraft, pend, journal,
                    seen, net, gl>>
    BY DEF When, sql
  <1>7. pc' \in [Requests -> Nat] /\ Open' = Open
    BY <1>4, <1>5, <1>6 DEF TypeOK, Open
  <1>8. \A q \in Open : task[q] \in Tasks /\ pc'[q] \in 1..Len(Script[task[q]])
    BY <1>4, <1>5 DEF TypeOK, Open
  <1>9. QED
    BY <1>6, <1>7, <1>8 DEF TypeOK

\* The statements that read, check, lock or call the core.
LEMMA OthersType ==
    ASSUME TypeOK, NEW r \in Requests,
           \/ Lock(r) \/ Funds(r) \/ WithinLimit(r) \/ Expect(r) \/ Find(r)
           \/ Insert(r) \/ Mark(r) \/ Set(r) \/ Ensure(r) \/ Sweep(r) \/ NetOut(r)
           \/ Tally(r) \/ TriggerRead(r) \/ PostGL(r) \/ When(r)
    PROVE  TypeOK'
  <1> DEFINE s == Upcoming(r)
  <1>1. /\ r \in Open
        /\ s.op \in {"lock", "funds", "limit", "expect", "find", "insert", "mark",
                     "set", "ensure", "sweep", "net", "tally", "read", "gl", "when"}
    BY AtIsOpen DEF Lock, Funds, WithinLimit, Expect, Find, Insert, Mark, Set, Ensure,
                    Sweep, NetOut, Tally, TriggerRead, PostGL, When, At, Open
  <1>2. s \in Statement /\ s.op # "commit" /\ Amount(r) \in Int
    BY <1>1, UpcomingStatement, AmountType
  <1>3. s.op \in AccountOps => s.row \in Accounts
    BY <1>2, AccountStatement
  <1>4. CASE Lock(r)
    <2>1. /\ s.op = "lock" /\ owner' = [owner EXCEPT ![s.row] = r] /\ Advance(r)
          /\ UNCHANGED <<row, draft, doc, docDraft, pend, journal, seen, net, gl>>
      BY <1>4 DEF Lock, At
    <2>2. owner' \in [Rows -> Requests \cup {NoOne}]
      BY <2>1, <1>3 DEF TypeOK, Rows, AccountOps, AccountWrites
    <2>3. QED
      BY <1>1, <1>2, <2>1, <2>2, AdvanceType DEF TypeOK
  <1>5. CASE Funds(r) \/ WithinLimit(r) \/ Expect(r) \/ Find(r)
    <2>1. \/ Advance(r) /\ UNCHANGED <<sql, seen, net, gl>>
          \/ Rollback(r, "refused") /\ UNCHANGED gl
          \/ Rollback(r, "replayed") /\ UNCHANGED gl
      BY <1>5 DEF Funds, WithinLimit, Expect, Find, Require
    <2>2. CASE Advance(r) /\ UNCHANGED <<sql, seen, net, gl>>
      BY <1>1, <1>2, <2>2, AdvanceType DEF TypeOK, sql
    <2>3. CASE (Rollback(r, "refused") \/ Rollback(r, "replayed")) /\ UNCHANGED gl
      BY <2>3, RollbackType DEF TypeOK
    <2>4. QED
      BY <2>1, <2>2, <2>3
  <1>6. CASE Insert(r) \/ Mark(r)
    BY <1>1, <1>6, ChangeDocType DEF Insert, Mark, At, DocWrites
  <1>7. CASE Sweep(r)
    <2> DEFINE swept == {d \in Docs : doc[d] = s.was}
    <2>1. /\ s.op = "sweep" /\ Advance(r)
          /\ owner' = [x \in Rows |-> IF x \in swept THEN r ELSE owner[x]]
          /\ docDraft' = [d \in Docs |-> IF d \in swept THEN s.tag ELSE docDraft[d]]
          /\ UNCHANGED <<row, draft, doc, pend, journal, seen, net, gl>>
      BY <1>7 DEF Sweep, At
    <2>2. s.tag \in STRING
      BY <1>2, <2>1 DEF Statement, AccountOps, AccountWrites, DocOps, DocWrites
    <2>3. owner' \in [Rows -> Requests \cup {NoOne}] /\ docDraft' \in [Docs -> STRING]
      BY <2>1, <2>2 DEF TypeOK, Rows
    <2>4. QED
      BY <1>1, <1>2, <2>1, <2>3, AdvanceType DEF TypeOK
  <1>8. CASE NetOut(r)
    <2> DEFINE n == -View(r, s.row).bal
    <2>1. s.op = "net" /\ s.row \in Accounts
      BY <1>3, <1>8 DEF NetOut, At, AccountOps
    <2>2. n \in Int
      BY <2>1, ViewType DEF AccountRow
    <2>3. CASE n > 0
      <3>1. net' = [net EXCEPT ![r] = n] /\ Advance(r) /\ UNCHANGED <<sql, seen, gl>>
        BY <1>8, <2>3 DEF NetOut
      <3>2. QED
        BY <1>1, <1>2, <2>2, <3>1, AdvanceType DEF TypeOK, sql
    <2>4. CASE ~(n > 0)
      <3>1. Rollback(r, "refused") /\ UNCHANGED gl
        BY <1>8, <2>4 DEF NetOut
      <3>2. QED
        BY <3>1, RollbackType DEF TypeOK
    <2>5. QED
      BY <2>3, <2>4
  <1>9. CASE TriggerRead(r)
    <2>1. /\ s.op = "read" /\ seen' = [seen EXCEPT ![r] = View(r, s.row).bal]
          /\ Advance(r) /\ UNCHANGED <<sql, net, gl>>
      BY <1>9 DEF TriggerRead, At
    <2>2. View(r, s.row).bal \in Int
      BY <1>3, <2>1, ViewType DEF AccountRow, AccountOps
    <2>3. QED
      BY <1>1, <1>2, <2>1, <2>2, AdvanceType DEF TypeOK, sql
  <1>10. CASE PostGL(r)
    <2>1. gl' \in [Requests -> Int]
      BY <1>2, <1>10 DEF PostGL, TypeOK
    <2>2. CASE Advance(r) /\ UNCHANGED <<sql, seen, net>>
      BY <1>1, <1>2, <2>1, <2>2, AdvanceType DEF TypeOK, sql
    <2>3. CASE Rollback(r, "failed")
      BY <2>1, <2>3, RollbackType
    <2>4. QED
      BY <1>10, <2>2, <2>3 DEF PostGL
  <1>11. CASE Set(r)
    <2>1. /\ s.op = "set" /\ owner' = [owner EXCEPT ![s.row] = r] /\ Advance(r)
          /\ docDraft' = [docDraft EXCEPT ![s.row] = s.tag]
          /\ UNCHANGED <<row, draft, doc, pend, journal, seen, net, gl>>
      BY <1>11 DEF Set, At
    <2>2. s.row \in Docs /\ s.tag \in STRING
      BY <1>2, <2>1, DocStatement DEF DocOps, DocWrites
    <2>3. owner' \in [Rows -> Requests \cup {NoOne}] /\ docDraft' \in [Docs -> STRING]
      BY <2>1, <2>2 DEF TypeOK
    <2>4. QED
      BY <1>1, <1>2, <2>1, <2>3, AdvanceType DEF TypeOK
  <1>12. CASE When(r)
    BY <1>12, WhenType
  <1>13. CASE Ensure(r)
    <2>1. /\ s.op = "ensure" /\ owner' = [owner EXCEPT ![s.row] = r] /\ Advance(r)
          /\ docDraft' = [docDraft EXCEPT ![s.row] =
                             IF DocView(r, s.row) = s.was THEN s.tag ELSE @]
          /\ UNCHANGED <<row, draft, doc, pend, journal, seen, net, gl>>
      BY <1>13 DEF Ensure, At
    <2>2. s.row \in Docs /\ s.tag \in STRING
      BY <1>2, <2>1, DocStatement DEF DocOps, DocWrites
    <2>3. owner' \in [Rows -> Requests \cup {NoOne}] /\ docDraft' \in [Docs -> STRING]
      BY <2>1, <2>2 DEF TypeOK
    <2>4. QED
      BY <1>1, <1>2, <2>1, <2>3, AdvanceType DEF TypeOK
  <1>14. CASE Tally(r)
    <2>1. /\ s.op = "tally" /\ net' = [net EXCEPT ![r] = @ + s.amt]
          /\ Advance(r) /\ UNCHANGED <<sql, seen, gl>>
      BY <1>14 DEF Tally, At
    <2>2. s.amt \in Int
      BY <1>2 DEF Statement
    <2>3. QED
      BY <1>1, <1>2, <2>1, <2>2, AdvanceType DEF TypeOK, sql
  <1>15. QED
    BY <1>4, <1>5, <1>6, <1>7, <1>8, <1>9, <1>10, <1>11, <1>12, <1>13, <1>14

LEMMA CommitType ==
    ASSUME TypeOK, NEW r \in Requests, Commit(r)
    PROVE  TypeOK'
  <1>1. /\ Finish(r, "posted") /\ UNCHANGED <<draft, docDraft, gl>>
    BY DEF Commit
  <1>2. /\ row' \in [Accounts -> AccountRow] /\ doc' \in [Docs -> STRING]
        /\ journal' \in [Accounts -> Int]
    BY DEF Commit, TypeOK
  <1>3. QED
    BY <1>1, <1>2, FinishType DEF TypeOK

LEMMA InitType == Init => TypeOK
  BY RowsAssumption DEF Init, TypeOK, Open, NoEntries

LEMMA NextType == TypeOK /\ [Next]_vars => TypeOK'
  <1> SUFFICES ASSUME TypeOK, [Next]_vars PROVE TypeOK'
    OBVIOUS
  <1>1. ASSUME NEW r \in Requests, NEW t \in Tasks, Begin(r, t)
        PROVE  TypeOK'
    <2>1. 1 \in 1..Len(Script[t])
      BY ScriptAssumption
    <2>2. QED
      BY <1>1, <2>1 DEF Begin, TypeOK, Open, sql
  <1>2. ASSUME NEW r \in Requests, Execute(r)
        PROVE  TypeOK'
    BY <1>2, UpdatesType, OthersType, CommitType DEF Execute
  <1>3. ASSUME NEW r \in Requests, Abort(r)
        PROVE  TypeOK'
    BY <1>3, RollbackType DEF Abort, TypeOK
  <1>4. CASE UNCHANGED vars
    BY <1>4 DEF TypeOK, vars, sql, Open
  <1>5. QED
    BY <1>1, <1>2, <1>3, <1>4 DEF Next, Done

\* In every reachable state every variable has its type; in particular an open
\* request is always at a statement of its script.
THEOREM TypeCorrect == Spec => []TypeOK
  BY InitType, NextType, PTL DEF Spec

-----------------------------------------------------------------------------
(***************************************************************************)
(* No lost update.  The balance of a row is not inductive by itself: what  *)
(* makes the trigger's stale-prone read harmless is that the reader has    *)
(* had the row locked since an earlier statement of its transaction.       *)
(***************************************************************************)

\* An open transaction has kept the lock of every account row it has changed.
LocksKept ==
    \A r \in Open : \A j \in 1..pc[r]-1 :
        Script[task[r]][j].op \in AccountWrites => owner[Script[task[r]][j].row] = r

\* What the trigger has read is still the balance when it writes.
ReadIsFresh ==
    \A r \in Open :
        Upcoming(r).op = "write" => seen[r] = View(r, Upcoming(r).row).bal

\* A locked row's draft is the committed row plus its owner's entries; no one
\* else has entries on it, and a row without owner has no draft of its own.
DraftIsPending ==
    \A a \in Accounts :
        /\ \A r \in Requests :
             /\ owner[a] = r => draft[a].bal = row[a].bal + pend[r][a]
             /\ owner[a] # r => pend[r][a] = 0
        /\ owner[a] = NoOne => draft[a] = row[a]

LedgerInv ==
    /\ TypeOK
    /\ LocksKept
    /\ ReadIsFresh
    /\ DraftIsPending
    /\ BalanceIsJournal

AllDisciplined == \A t \in Tasks : Disciplined(Script[t])

\* The kinds of step, by what they do to the account rows.
Keeps(r) ==
    /\ Advance(r) /\ Upcoming(r).op \notin AccountWrites
    /\ \A a \in Accounts : owner'[a] = owner[a]
    /\ UNCHANGED <<row, draft, pend, journal>>
    /\ \A s \in Requests \ {r} : seen'[s] = seen[s]
    /\ Upcoming(r).op = "read" => seen'[r] = View(r, Upcoming(r).row).bal

Takes(r, a, n) ==
    /\ Advance(r) /\ Upcoming(r).op \in AccountWrites
    /\ a = Upcoming(r).row /\ Free(r, a)
    /\ \A b \in Accounts : owner'[b] = IF b = a THEN r ELSE owner[b]
    /\ \A b \in Accounts \ {a} : draft'[b] = draft[b]
    /\ draft'[a].bal = View(r, a).bal + n
    /\ \A s \in Requests, b \in Accounts :
         pend'[s][b] = IF s = r /\ b = a THEN pend[s][b] + n ELSE pend[s][b]
    /\ UNCHANGED <<row, journal>>
    /\ \A s \in Requests \ {r} : seen'[s] = seen[s]

\* The statement q comes to with the step, and what it will then read of a row.
NextOf(q) == Script[task'[q]][pc'[q]]
NextView(q, a) == IF owner'[a] = q THEN draft'[a] ELSE row'[a]

\* The lock of a row about to be written is held: the discipline put to use.
LEMMA WriterOwns ==
    ASSUME LedgerInv, AllDisciplined, NEW r \in Open, Upcoming(r).op = "write"
    PROVE  Upcoming(r).row \in Accounts /\ owner[Upcoming(r).row] = r
  <1> DEFINE s == Script[task[r]]
             i == pc[r]
  <1>1. /\ task[r] \in Tasks /\ i \in 1..Len(s) /\ s[i] \in Statement
        /\ s[i] = Upcoming(r)
    BY UpcomingStatement DEF LedgerInv, Upcoming
  <1>2. i > 1 /\ s[i-1].op = "read" /\ s[i-1].row = s[i].row
    BY <1>1 DEF AllDisciplined, Disciplined
  <1>3. i - 1 \in 1..Len(s)
    BY <1>1, <1>2
  <1>4. PICK j \in 1..(i-1)-1 : s[j].op \in AccountWrites /\ s[j].row = s[i-1].row
    BY <1>1, <1>2, <1>3 DEF AllDisciplined, Disciplined
  <1>5. owner[s[j].row] = r
    <2>1. j \in 1..pc[r]-1
      BY <1>1, <1>2, <1>4
    <2>2. QED
      BY <1>4, <2>1 DEF LedgerInv, LocksKept
  <1>6. s[i].row \in Accounts
    BY <1>1, AccountStatement DEF AccountOps, AccountWrites
  <1>7. QED
    BY <1>1, <1>2, <1>4, <1>5, <1>6

LEMMA UpdateShape ==
    ASSUME LedgerInv, NEW r \in Open, Upcoming(r).op \in AccountWrites,
           NEW x \in AccountRow, NEW n \in Int, Update(r, Upcoming(r).row, x, n),
           Upcoming(r).row \in Accounts,
           x.bal = View(r, Upcoming(r).row).bal + n
    PROVE  Takes(r, Upcoming(r).row, n) \/ Rollback(r, "tripped")
  <1> DEFINE a == Upcoming(r).row
  <1>1. r \in Requests
    BY DEF Open
  <1>2. CASE RowChecks(a, x)
    <2>1. /\ Free(r, a) /\ owner' = [owner EXCEPT ![a] = r]
          /\ draft' = [draft EXCEPT ![a] = x]
          /\ pend' = [pend EXCEPT ![r][a] = @ + n] /\ seen' = [seen EXCEPT ![r] = 0]
          /\ Advance(r) /\ UNCHANGED <<row, journal>>
      BY <1>2 DEF Update
    <2>2. \A b \in Accounts : owner'[b] = IF b = a THEN r ELSE owner[b]
      BY <2>1 DEF LedgerInv, TypeOK, Rows
    <2>3. draft'[a] = x /\ \A b \in Accounts \ {a} : draft'[b] = draft[b]
      BY <2>1 DEF LedgerInv, TypeOK
    <2>4. \A s \in Requests, b \in Accounts :
             pend'[s][b] = IF s = r /\ b = a THEN pend[s][b] + n ELSE pend[s][b]
      BY <2>1, <1>1 DEF LedgerInv, TypeOK
    <2>5. \A s \in Requests \ {r} : seen'[s] = seen[s]
      BY <2>1 DEF LedgerInv, TypeOK
    <2>6. QED
      BY <2>1, <2>2, <2>3, <2>4, <2>5 DEF Takes
  <1>3. CASE ~RowChecks(a, x)
    BY <1>3 DEF Update
  <1>4. QED
    BY <1>2, <1>3

LEMMA ExecuteShape ==
    ASSUME LedgerInv, AllDisciplined, NEW r \in Requests, Execute(r), ~Commit(r)
    PROVE  \/ Keeps(r)
           \/ \E a \in Accounts, n \in Int : Takes(r, a, n)
           \/ \E how \in {"refused", "replayed", "failed", "tripped"} : Rollback(r, how)
  <1> DEFINE s == Upcoming(r)
             x == View(r, s.row)
             Shape == \/ Keeps(r)
                      \/ \E a \in Accounts, n \in Int : Takes(r, a, n)
                      \/ \E how \in {"refused", "replayed", "failed", "tripped"} :
                            Rollback(r, how)
  <1>1. r \in Open
    BY DEF Execute, Lock, Funds, WithinLimit, Expect, Find, Insert, Mark, Set, Ensure,
           Sweep, NetOut, Tally, When, Hold, Floor, TriggerRead, TriggerWrite, Recompute, RecomputeCard, UseLimit,
           PostGL, Commit, At, Open
  <1>2. TypeOK /\ s \in Statement /\ Amount(r) \in Int
    BY <1>1, UpcomingStatement, AmountType DEF LedgerInv
  <1>3. s.op \in AccountOps => s.row \in Accounts /\ s.amt \in Int /\ x \in AccountRow
    BY <1>2, AccountStatement, ViewType
  <1>4. s.op \in DocOps => s.row \in Docs
    BY <1>2, DocStatement
  <1>5. CASE Lock(r)
    <2>1. /\ s.op = "lock" /\ Free(r, s.row) /\ owner' = [owner EXCEPT ![s.row] = r]
          /\ Advance(r) /\ UNCHANGED <<row, draft, pend, journal, seen>>
      BY <1>5 DEF Lock, At
    <2>2. s.row \in Accounts /\ x \in AccountRow
      BY <1>3, <2>1 DEF AccountOps, AccountWrites
    <2>3. draft[s.row].bal = x.bal + 0
      BY <2>1, <2>2 DEF LedgerInv, DraftIsPending, View, Free, AccountRow
    <2>4. \A b \in Accounts : owner'[b] = IF b = s.row THEN r ELSE owner[b]
      BY <1>2, <2>1, <2>2 DEF TypeOK, Rows
    <2>5. \A q \in Requests, b \in Accounts : pend[q][b] = pend[q][b] + 0
      BY <1>2 DEF TypeOK
    <2>6. Takes(r, s.row, 0)
      BY <2>1, <2>2, <2>3, <2>4, <2>5 DEF Takes, AccountWrites
    <2>7. QED
      BY <2>2, <2>6
  <1>6. CASE Funds(r) \/ WithinLimit(r) \/ Expect(r) \/ Find(r)
    <2>1. \/ Advance(r) /\ UNCHANGED <<sql, seen>>
          \/ Rollback(r, "refused") \/ Rollback(r, "replayed")
      BY <1>6 DEF Funds, WithinLimit, Expect, Find, Require
    <2>2. s.op \in {"funds", "limit", "expect", "find"}
      BY <1>6 DEF Funds, WithinLimit, Expect, Find, At
    <2>3. QED
      BY <2>1, <2>2 DEF Keeps, AccountWrites, sql
  <1>7. CASE Insert(r) \/ Mark(r) \/ Set(r) \/ Ensure(r)
    <2>1. s.op \in DocWrites /\ s.row \in Docs
      BY <1>4, <1>7 DEF Insert, Mark, Set, Ensure, At, DocOps, DocWrites
    <2>2. \/ /\ owner' = [owner EXCEPT ![s.row] = r] /\ Advance(r)
             /\ UNCHANGED <<row, draft, pend, journal, seen>>
          \/ Rollback(r, "refused") \/ Rollback(r, "replayed")
      BY <1>7 DEF Insert, Mark, Set, Ensure, ChangeDoc
    <2>3. owner' = [owner EXCEPT ![s.row] = r] => \A a \in Accounts : owner'[a] = owner[a]
      BY <1>2, <2>1, NamesAssumption DEF TypeOK, Rows
    <2>4. QED
      BY <2>1, <2>2, <2>3 DEF Keeps, AccountWrites, DocWrites
  <1>8. CASE Sweep(r)
    <2> DEFINE swept == {d \in Docs : doc[d] = s.was}
    <2>1. /\ s.op = "sweep" /\ Advance(r) /\ UNCHANGED <<row, draft, pend, journal, seen>>
          /\ owner' = [y \in Rows |-> IF y \in swept THEN r ELSE owner[y]]
      BY <1>8 DEF Sweep, At
    <2>2. \A a \in Accounts : owner'[a] = owner[a]
      BY <2>1, NamesAssumption DEF Rows
    <2>3. QED
      BY <2>1, <2>2 DEF Keeps, AccountWrites
  <1>9. CASE NetOut(r) \/ Tally(r)
    <2>1. s.op \in {"net", "tally"}
      BY <1>9 DEF NetOut, Tally, At
    <2>2. \/ Advance(r) /\ UNCHANGED <<sql, seen>>
          \/ Rollback(r, "refused")
      BY <1>9 DEF NetOut, Tally
    <2>3. QED
      BY <2>1, <2>2 DEF Keeps, AccountWrites, sql
  <1>10. CASE TriggerRead(r)
    <2>1. /\ s.op = "read" /\ seen' = [seen EXCEPT ![r] = x.bal]
          /\ Advance(r) /\ UNCHANGED sql
      BY <1>10 DEF TriggerRead, At
    <2>2. seen'[r] = x.bal /\ \A q \in Requests \ {r} : seen'[q] = seen[q]
      BY <1>2, <2>1 DEF TypeOK
    <2>3. QED
      BY <2>1, <2>2 DEF Keeps, AccountWrites, sql
  <1>11. CASE PostGL(r)
    <2>1. s.op = "gl"
      BY <1>11 DEF PostGL, At
    <2>2. \/ Advance(r) /\ UNCHANGED <<sql, seen>>
          \/ Rollback(r, "failed")
      BY <1>11 DEF PostGL
    <2>3. QED
      BY <2>1, <2>2 DEF Keeps, AccountWrites, sql
  <1>12. ASSUME Floor(r) \/ TriggerWrite(r) \/ Recompute(r) \/ RecomputeCard(r)
                \/ Hold(r) \/ UseLimit(r)
         PROVE  Shape
    <2>1. s.op \in AccountWrites
      BY <1>12 DEF Floor, TriggerWrite, Recompute, RecomputeCard, Hold, UseLimit, At,
                   AccountWrites
    <2>2. s.row \in Accounts /\ x \in AccountRow /\ s.amt \in Int
      BY <1>3, <2>1 DEF AccountOps
    <2>3. \A y \in AccountRow, n \in Int :
             Update(r, s.row, y, n) /\ y.bal = x.bal + n => Shape
      BY <1>1, <2>1, <2>2, UpdateShape
    <2>4. \A y \in AccountRow :
             Update(r, s.row, y, 0) /\ y.bal = x.bal => Shape
      BY <2>2, <2>3 DEF AccountRow
    <2>5. Overdraft[s.row] \in Int /\ seen[r] \in Int
      BY <1>2, <2>2, RowsAssumption DEF TypeOK
    <2>6. CASE Floor(r)
      <3>1. Update(r, s.row, [x EXCEPT !.avail = 0], 0)
        BY <2>6 DEF Floor
      <3>2. QED
        BY <2>2, <2>4, <3>1 DEF AccountRow
    <2>7. CASE TriggerWrite(r)
      <3>1. Update(r, s.row, [x EXCEPT !.bal = seen[r] + Amount(r)], Amount(r))
        BY <2>7 DEF TriggerWrite
      <3>2. seen[r] = x.bal
        BY <1>1, <2>7 DEF LedgerInv, ReadIsFresh, TriggerWrite, At
      <3>3. QED
        BY <1>2, <2>2, <2>3, <2>5, <3>1, <3>2 DEF AccountRow
    <2>8. CASE Recompute(r)
      <3>1. Update(r, s.row, [x EXCEPT !.avail = x.bal + Overdraft[s.row] - x.held], 0)
        BY <2>8 DEF Recompute
      <3>2. QED
        BY <2>2, <2>4, <2>5, <3>1 DEF AccountRow
    <2>9. CASE RecomputeCard(r)
      <3>1. Update(r, s.row, [x EXCEPT !.avail = Overdraft[s.row] - x.bal - x.held], 0)
        BY <2>9 DEF RecomputeCard
      <3>2. QED
        BY <2>2, <2>4, <2>5, <3>1 DEF AccountRow
    <2>10. CASE Hold(r)
      <3>1. Update(r, s.row, [x EXCEPT !.held = @ + Amount(r)], 0)
        BY <2>10 DEF Hold
      <3>2. QED
        BY <1>2, <2>2, <2>4, <3>1 DEF AccountRow
    <2>11. CASE UseLimit(r)
      <3> DEFINE y == [x EXCEPT !.used[s.tag] = @ + s.amt]
      <3>1. Update(r, s.row, y, 0)
        BY <2>11 DEF UseLimit
      <3>2. y \in AccountRow /\ y.bal = x.bal
        BY <2>2 DEF AccountRow
      <3>3. QED
        BY <2>4, <3>1, <3>2
    <2>12. QED
      BY <1>12, <2>6, <2>7, <2>8, <2>9, <2>10, <2>11
  <1>13. CASE When(r)
    <2>1. /\ task[r] \in Tasks /\ pc[r] \in 1..Len(Script[task[r]])
          /\ Script[task[r]][pc[r]].op = "when"
      BY <1>1, <1>2, <1>13, UpcomingStatement DEF When, At, Upcoming
    <2>2. QED
      BY <2>1 DEF AllDisciplined, Disciplined
  <1>14. QED
    BY <1>5, <1>6, <1>7, <1>8, <1>9, <1>10, <1>11, <1>12, <1>13 DEF Execute

\* The statement of an open request that stays put.
LEMMA RowOfStatement ==
    ASSUME TypeOK, NEW r \in Open, NEW j \in 1..pc[r],
           Script[task[r]][j].op \in AccountOps
    PROVE  Script[task[r]][j].row \in Accounts
  <1>1. task[r] \in Tasks /\ pc[r] \in 1..Len(Script[task[r]])
    BY UpcomingStatement
  <1>2. Script[task[r]][j] \in Statement
    BY <1>1, ScriptAssumption
  <1>3. QED
    BY <1>2, AccountStatement

LEMMA KeepsInv ==
    ASSUME LedgerInv, AllDisciplined, NEW r \in Open, Keeps(r), TypeOK'
    PROVE  LedgerInv'
  <1> USE DEF LedgerInv
  <1>1. /\ r \in Requests /\ outcome' = outcome /\ task' = task
        /\ pc' = [pc EXCEPT ![r] = pc[r] + 1] /\ Open' = Open
    BY DEF Keeps, Advance, Open
  <1>2. /\ pc'[r] = pc[r] + 1 /\ pc[r] \in Nat
        /\ \A q \in Open \ {r} : pc'[q] = pc[q]
        /\ \A q \in Open : pc[q] \in Nat
    BY <1>1 DEF TypeOK, Open
  <1>3. LocksKept'
    <2> SUFFICES ASSUME NEW q \in Open, NEW j \in 1..pc'[q]-1,
                        Script[task[q]][j].op \in AccountWrites
                 PROVE  owner'[Script[task[q]][j].row] = q
      BY <1>1 DEF LocksKept
    <2>1. j \in 1..pc[q]-1
      <3>1. CASE q = r
        BY <1>1, <1>2, <3>1 DEF Keeps, Upcoming
      <3>2. CASE q # r
        BY <1>2, <3>2
      <3>3. QED
        BY <3>1, <3>2
    <2>2. pc[q] \in Nat /\ j \in 1..pc[q]
      BY <2>1 DEF TypeOK, Open
    <2>3. Script[task[q]][j].row \in Accounts
      BY <2>2, RowOfStatement DEF AccountOps
    <2>4. QED
      BY <2>1, <2>3 DEF LocksKept, Keeps
  <1>4. ReadIsFresh'
    <2> SUFFICES ASSUME NEW q \in Open, NextOf(q).op = "write"
                 PROVE  seen'[q] = NextView(q, NextOf(q).row).bal
      BY <1>1 DEF ReadIsFresh, NextOf, NextView, Upcoming, View
    <2>1. \A b \in Accounts : NextView(q, b) = View(q, b)
      BY DEF View, NextView, Keeps
    <2>2. CASE q # r
      <3>1. NextOf(q) = Upcoming(q)
        BY <1>1, <1>2, <2>2 DEF Upcoming, NextOf
      <3>2. Upcoming(q).row \in Accounts
        BY <3>1, WriterOwns
      <3>3. QED
        BY <2>1, <2>2, <3>1, <3>2 DEF ReadIsFresh, Keeps, Open
    <2>3. CASE q = r
      <3> DEFINE s == Script[task[r]]
      <3>1. NextOf(r) = s[pc[r]+1] /\ pc[r] + 1 \in 1..Len(s) /\ task[r] \in Tasks
        BY <1>1, <1>2 DEF NextOf, TypeOK
      <3>2. s[(pc[r]+1)-1].op = "read" /\ s[(pc[r]+1)-1].row = s[pc[r]+1].row
        BY <2>3, <3>1 DEF AllDisciplined, Disciplined
      <3>3. Upcoming(r).op = "read" /\ Upcoming(r).row = NextOf(r).row
        <4>1. (pc[r]+1)-1 = pc[r]
          BY <1>2
        <4>2. QED
          BY <3>1, <3>2, <4>1 DEF Upcoming
      <3>4. Upcoming(r).row \in Accounts
        BY <3>3, UpcomingStatement, AccountStatement DEF AccountOps
      <3>5. QED
        <4>1. seen'[r] = View(r, Upcoming(r).row).bal
          BY <3>3 DEF Keeps
        <4>2. NextView(r, Upcoming(r).row) = View(r, Upcoming(r).row)
          BY <2>1, <2>3, <3>4
        <4>3. QED
          BY <2>3, <3>3, <4>1, <4>2
    <2>4. QED
      BY <2>2, <2>3
  <1>5. DraftIsPending'
    BY DEF DraftIsPending, Keeps
  <1>6. BalanceIsJournal'
    BY DEF BalanceIsJournal, Keeps
  <1>7. QED
    BY <1>3, <1>4, <1>5, <1>6

LEMMA TakesInv ==
    ASSUME LedgerInv, AllDisciplined, NEW r \in Open, NEW a \in Accounts, NEW n \in Int,
           Takes(r, a, n), TypeOK'
    PROVE  LedgerInv'
  <1> USE DEF LedgerInv
  <1>1. /\ r \in Requests /\ outcome' = outcome /\ task' = task
        /\ pc' = [pc EXCEPT ![r] = pc[r] + 1] /\ Open' = Open
    BY DEF Takes, Advance, Open
  <1>2. /\ pc'[r] = pc[r] + 1 /\ pc[r] \in Nat
        /\ \A q \in Open \ {r} : pc'[q] = pc[q]
        /\ \A q \in Open : pc[q] \in Nat
    BY <1>1 DEF TypeOK, Open
  <1>3. /\ owner'[a] = r /\ owner[a] \in {NoOne, r} /\ NoOne \notin Requests
        /\ a = Upcoming(r).row
        /\ \A b \in Accounts \ {a} : owner'[b] = owner[b] /\ draft'[b] = draft[b]
        /\ row' = row
    BY NamesAssumption DEF Takes, Free
  <1>4. LocksKept'
    <2> SUFFICES ASSUME NEW q \in Open, NEW j \in 1..pc'[q]-1,
                        Script[task[q]][j].op \in AccountWrites
                 PROVE  owner'[Script[task[q]][j].row] = q
      BY <1>1 DEF LocksKept
    <2> DEFINE b == Script[task[q]][j].row
    <2>1. pc[q] \in Nat /\ j \in 1..pc[q]
      BY <1>2
    <2>2. b \in Accounts
      BY <2>1, RowOfStatement DEF AccountOps
    <2>3. CASE q = r /\ j = pc[r]
      BY <1>3, <2>3 DEF Upcoming
    <2>4. CASE ~(q = r /\ j = pc[r])
      <3>1. j \in 1..pc[q]-1
        BY <1>2, <2>1, <2>4
      <3>2. owner[b] = q /\ q \in Requests
        BY <3>1 DEF LocksKept, Open
      <3>3. QED
        BY <1>3, <2>2, <3>2
    <2>5. QED
      BY <2>3, <2>4
  <1>5. ReadIsFresh'
    <2> SUFFICES ASSUME NEW q \in Open, NextOf(q).op = "write"
                 PROVE  seen'[q] = NextView(q, NextOf(q).row).bal
      BY <1>1 DEF ReadIsFresh, NextOf, NextView, Upcoming, View
    <2>1. q # r
      <3> SUFFICES ASSUME q = r PROVE FALSE
        OBVIOUS
      <3> DEFINE s == Script[task[r]]
      <3>1. NextOf(r) = s[pc[r]+1] /\ pc[r] + 1 \in 1..Len(s) /\ task[r] \in Tasks
        BY <1>1, <1>2 DEF NextOf, TypeOK
      <3>2. s[(pc[r]+1)-1].op = "read"
        BY <3>1 DEF AllDisciplined, Disciplined
      <3>3. Upcoming(r).op = "read"
        BY <1>2, <3>2 DEF Upcoming
      <3>4. QED
        BY <3>3 DEF Takes, AccountWrites
    <2>2. NextOf(q) = Upcoming(q)
      BY <1>1, <1>2, <2>1 DEF Upcoming, NextOf
    <2>3. Upcoming(q).row \in Accounts /\ owner[Upcoming(q).row] = q
      BY <2>2, WriterOwns
    <2>4. Upcoming(q).row # a
      BY <1>3, <2>1, <2>3 DEF Open
    <2>5. NextView(q, Upcoming(q).row) = View(q, Upcoming(q).row)
      BY <1>3, <2>3, <2>4 DEF View, NextView
    <2>6. seen'[q] = seen[q]
      BY <2>1 DEF Takes, Open
    <2>7. QED
      BY <2>2, <2>5, <2>6 DEF ReadIsFresh
  <1>6. DraftIsPending'
    <2> SUFFICES ASSUME NEW b \in Accounts
                 PROVE  /\ \A q \in Requests :
                             /\ owner'[b] = q => draft'[b].bal = row[b].bal + pend'[q][b]
                             /\ owner'[b] # q => pend'[q][b] = 0
                        /\ owner'[b] = NoOne => draft'[b] = row[b]
      BY <1>3 DEF DraftIsPending
    <2>1. CASE b # a
      <3>1. \A q \in Requests : pend'[q][b] = pend[q][b]
        BY <2>1 DEF Takes
      <3>2. QED
        BY <1>3, <2>1, <3>1 DEF DraftIsPending
    <2>2. CASE b = a
      <3>1. pend'[r][a] = pend[r][a] + n /\ pend[r][a] \in Int /\ row[a].bal \in Int
        <4>1. pend'[r][a] = pend[r][a] + n
          BY <1>1 DEF Takes
        <4>2. pend[r][a] \in Int /\ row[a] \in AccountRow
          BY <1>1 DEF TypeOK
        <4>3. QED
          BY <4>1, <4>2 DEF AccountRow
      <3>2. \A q \in Requests \ {r} : pend'[q][a] = pend[q][a] /\ pend[q][a] = 0
        BY <1>3 DEF Takes, DraftIsPending
      <3>3. draft'[a].bal = View(r, a).bal + n
        BY DEF Takes
      <3>4. View(r, a).bal = row[a].bal + pend[r][a]
        BY <1>1, <1>3, <3>1 DEF View, DraftIsPending
      <3>5. draft'[a].bal = row[a].bal + pend'[r][a]
        BY <3>1, <3>3, <3>4
      <3>6. QED
        BY <1>1, <1>3, <2>2, <3>2, <3>5
    <2>3. QED
      BY <2>1, <2>2
  <1>7. BalanceIsJournal'
    BY DEF BalanceIsJournal, Takes
  <1>8. QED
    BY <1>4, <1>5, <1>6, <1>7

LEMMA RollbackInv ==
    ASSUME LedgerInv, AllDisciplined, NEW r \in Requests, NEW how, how # "open",
           Rollback(r, how), TypeOK'
    PROVE  LedgerInv'
  <1> USE DEF LedgerInv
  <1>1. /\ outcome' = [outcome EXCEPT ![r] = how] /\ task' = task
        /\ pc' = [pc EXCEPT ![r] = 0] /\ seen' = [seen EXCEPT ![r] = 0]
        /\ owner' = [x \in Rows |-> IF owner[x] = r THEN NoOne ELSE owner[x]]
        /\ pend' = [pend EXCEPT ![r] = NoEntries]
        /\ draft' = [a \in Accounts |-> IF owner[a] = r THEN row[a] ELSE draft[a]]
        /\ row' = row /\ journal' = journal
    BY DEF Rollback, Finish
  <1>2. /\ \A q \in Open' : q \in Open /\ q # r /\ pc'[q] = pc[q] /\ seen'[q] = seen[q]
        /\ NoOne # r
    BY <1>1, NamesAssumption DEF TypeOK, Open
  <1>3. \A a \in Accounts :
           /\ owner[a] = r => owner'[a] = NoOne /\ draft'[a] = row[a]
           /\ owner[a] # r => owner'[a] = owner[a] /\ draft'[a] = draft[a]
    BY <1>1 DEF Rows
  <1>4. LocksKept'
    <2> SUFFICES ASSUME NEW q \in Open', NEW j \in 1..pc'[q]-1,
                        Script[task[q]][j].op \in AccountWrites
                 PROVE  owner'[Script[task[q]][j].row] = q
      BY <1>1 DEF LocksKept
    <2>1. q \in Open /\ q # r /\ j \in 1..pc[q]-1 /\ pc[q] \in Nat
      BY <1>2 DEF TypeOK, Open
    <2>2. Script[task[q]][j].row \in Accounts
      BY <2>1, RowOfStatement DEF AccountOps
    <2>3. QED
      BY <1>3, <2>1, <2>2 DEF LocksKept
  <1>5. ReadIsFresh'
    <2> SUFFICES ASSUME NEW q \in Open', NextOf(q).op = "write"
                 PROVE  seen'[q] = NextView(q, NextOf(q).row).bal
      BY <1>1 DEF ReadIsFresh, NextOf, NextView, Upcoming, View
    <2>1. q \in Open /\ q # r /\ NextOf(q) = Upcoming(q)
      BY <1>1, <1>2 DEF NextOf, Upcoming
    <2>2. Upcoming(q).row \in Accounts /\ owner[Upcoming(q).row] = q
      BY <2>1, WriterOwns
    <2>3. NextView(q, Upcoming(q).row) = View(q, Upcoming(q).row)
      BY <1>3, <2>1, <2>2 DEF NextView, View
    <2>4. QED
      BY <1>2, <2>1, <2>3 DEF ReadIsFresh
  <1>6. DraftIsPending'
    <2> SUFFICES ASSUME NEW a \in Accounts
                 PROVE  /\ \A q \in Requests :
                             /\ owner'[a] = q => draft'[a].bal = row[a].bal + pend'[q][a]
                             /\ owner'[a] # q => pend'[q][a] = 0
                        /\ owner'[a] = NoOne => draft'[a] = row[a]
      BY <1>1 DEF DraftIsPending
    <2>1. \A q \in Requests \ {r} : pend'[q][a] = pend[q][a]
      BY <1>1 DEF TypeOK
    <2>2. pend'[r][a] = 0
      BY <1>1 DEF TypeOK, NoEntries
    <2>3. NoOne \notin Requests
      BY NamesAssumption
    <2>4. QED
      BY <1>2, <1>3, <2>1, <2>2, <2>3 DEF DraftIsPending
  <1>7. BalanceIsJournal'
    BY <1>1 DEF BalanceIsJournal
  <1>8. QED
    BY <1>4, <1>5, <1>6, <1>7

LEMMA CommitInv ==
    ASSUME LedgerInv, AllDisciplined, NEW r \in Requests, Commit(r), TypeOK'
    PROVE  LedgerInv'
  <1> USE DEF LedgerInv
  <1>1. /\ outcome' = [outcome EXCEPT ![r] = "posted"] /\ task' = task
        /\ pc' = [pc EXCEPT ![r] = 0] /\ seen' = [seen EXCEPT ![r] = 0]
        /\ owner' = [x \in Rows |-> IF owner[x] = r THEN NoOne ELSE owner[x]]
        /\ pend' = [pend EXCEPT ![r] = NoEntries]
        /\ draft' = draft
        /\ row' = [a \in Accounts |-> IF owner[a] = r THEN draft[a] ELSE row[a]]
        /\ journal' = [a \in Accounts |-> journal[a] + pend[r][a]]
    BY DEF Commit, Finish
  <1>2. /\ \A q \in Open' : q \in Open /\ q # r /\ pc'[q] = pc[q] /\ seen'[q] = seen[q]
        /\ NoOne \notin Requests
    BY <1>1, NamesAssumption DEF TypeOK, Open
  <1>3. \A a \in Accounts :
           /\ owner[a] = r => owner'[a] = NoOne /\ row'[a] = draft[a]
           /\ owner[a] # r => owner'[a] = owner[a] /\ row'[a] = row[a]
    BY <1>1 DEF Rows
  <1>4. LocksKept'
    <2> SUFFICES ASSUME NEW q \in Open', NEW j \in 1..pc'[q]-1,
                        Script[task[q]][j].op \in AccountWrites
                 PROVE  owner'[Script[task[q]][j].row] = q
      BY <1>1 DEF LocksKept
    <2>1. q \in Open /\ q # r /\ j \in 1..pc[q]-1 /\ pc[q] \in Nat
      BY <1>2 DEF TypeOK, Open
    <2>2. Script[task[q]][j].row \in Accounts
      BY <2>1, RowOfStatement DEF AccountOps
    <2>3. QED
      BY <1>3, <2>1, <2>2 DEF LocksKept
  <1>5. ReadIsFresh'
    <2> SUFFICES ASSUME NEW q \in Open', NextOf(q).op = "write"
                 PROVE  seen'[q] = NextView(q, NextOf(q).row).bal
      BY <1>1 DEF ReadIsFresh, NextOf, NextView, Upcoming, View
    <2>1. q \in Open /\ q # r /\ NextOf(q) = Upcoming(q)
      BY <1>1, <1>2 DEF NextOf, Upcoming
    <2>2. Upcoming(q).row \in Accounts /\ owner[Upcoming(q).row] = q
      BY <2>1, WriterOwns
    <2>3. NextView(q, Upcoming(q).row) = View(q, Upcoming(q).row)
      BY <1>1, <1>3, <2>1, <2>2 DEF NextView, View
    <2>4. QED
      BY <1>2, <2>1, <2>3 DEF ReadIsFresh
  <1>6. DraftIsPending'
    <2> SUFFICES ASSUME NEW a \in Accounts
                 PROVE  /\ \A q \in Requests :
                             /\ owner'[a] = q => draft'[a].bal = row'[a].bal + pend'[q][a]
                             /\ owner'[a] # q => pend'[q][a] = 0
                        /\ owner'[a] = NoOne => draft'[a] = row'[a]
      BY DEF DraftIsPending
    <2>1. \A q \in Requests \ {r} : pend'[q][a] = pend[q][a]
      BY <1>1 DEF TypeOK
    <2>2. pend'[r][a] = 0
      BY <1>1 DEF TypeOK, NoEntries
    <2>3. QED
      BY <1>1, <1>2, <1>3, <2>1, <2>2 DEF DraftIsPending
  <1>7. BalanceIsJournal'
    <2> SUFFICES ASSUME NEW a \in Accounts
                 PROVE  row'[a].bal = OpeningRow[a].bal + journal'[a]
      BY DEF BalanceIsJournal
    <2>1. /\ row[a].bal = OpeningRow[a].bal + journal[a]
          /\ journal'[a] = journal[a] + pend[r][a]
          /\ owner[a] = r => draft[a].bal = row[a].bal + pend[r][a]
          /\ owner[a] # r => pend[r][a] = 0
      BY <1>1 DEF BalanceIsJournal, DraftIsPending
    <2>2. /\ OpeningRow[a].bal \in Int /\ journal[a] \in Int /\ pend[r][a] \in Int
      BY RowsAssumption DEF TypeOK, AccountRow
    <2>3. QED
      BY <1>3, <2>1, <2>2
  <1>8. QED
    BY <1>4, <1>5, <1>6, <1>7

LEMMA BeginInv ==
    ASSUME LedgerInv, AllDisciplined, NEW r \in Requests, NEW t \in Tasks, Begin(r, t),
           TypeOK'
    PROVE  LedgerInv'
  <1> USE DEF LedgerInv
  <1>1. /\ outcome' = [outcome EXCEPT ![r] = "open"] /\ task' = [task EXCEPT ![r] = t]
        /\ pc' = [pc EXCEPT ![r] = 1]
        /\ UNCHANGED <<owner, row, draft, pend, journal, seen>>
    BY DEF Begin, sql
  <1>2. /\ task'[r] = t /\ pc'[r] = 1
        /\ \A q \in Open' \ {r} : q \in Open /\ task'[q] = task[q] /\ pc'[q] = pc[q]
    BY <1>1 DEF TypeOK, Open
  <1>3. LocksKept'
    <2> SUFFICES ASSUME NEW q \in Open', NEW j \in 1..pc'[q]-1,
                        Script[task'[q]][j].op \in AccountWrites
                 PROVE  owner[Script[task'[q]][j].row] = q
      BY <1>1 DEF LocksKept
    <2>1. q # r
      BY <1>2
    <2>2. QED
      BY <1>2, <2>1 DEF LocksKept
  <1>4. ReadIsFresh'
    <2> SUFFICES ASSUME NEW q \in Open', NextOf(q).op = "write"
                 PROVE  seen[q] = NextView(q, NextOf(q).row).bal
      BY <1>1 DEF ReadIsFresh, NextOf, NextView, Upcoming, View
    <2>1. q # r
      <3> SUFFICES ASSUME q = r PROVE FALSE
        OBVIOUS
      <3>1. Script[t][1].op = "write" /\ 1 \in 1..Len(Script[t])
        BY <1>2, ScriptAssumption DEF NextOf
      <3>2. QED
        BY <3>1 DEF AllDisciplined, Disciplined
    <2>2. q \in Open /\ NextOf(q) = Upcoming(q)
      BY <1>2, <2>1 DEF NextOf, Upcoming
    <2>3. QED
      BY <1>1, <2>2 DEF ReadIsFresh, NextView, View
  <1>5. DraftIsPending' /\ BalanceIsJournal'
    BY <1>1 DEF DraftIsPending, BalanceIsJournal
  <1>6. QED
    BY <1>3, <1>4, <1>5

LEMMA LedgerInvInit == Init => LedgerInv
  <1> SUFFICES ASSUME Init PROVE LedgerInv
    OBVIOUS
  <1>1. TypeOK
    BY InitType
  <1>2. Open = {} /\ row = OpeningRow /\ draft = OpeningRow /\ journal = NoEntries
    BY DEF Init, Open
  <1>3. DraftIsPending
    <2> SUFFICES ASSUME NEW a \in Accounts
                 PROVE  /\ \A q \in Requests : owner[a] # q /\ pend[q][a] = 0
                        /\ draft[a] = row[a]
      BY DEF DraftIsPending
    <2>1. owner[a] = NoOne
      BY DEF Init, Rows
    <2>2. QED
      BY <1>2, <2>1, NamesAssumption DEF Init, NoEntries
  <1>4. BalanceIsJournal
    <2> SUFFICES ASSUME NEW a \in Accounts
                 PROVE  row[a].bal = OpeningRow[a].bal + journal[a]
      BY DEF BalanceIsJournal
    <2>1. OpeningRow[a].bal \in Int
      BY RowsAssumption DEF AccountRow
    <2>2. QED
      BY <1>2, <2>1 DEF NoEntries
  <1>5. QED
    BY <1>1, <1>2, <1>3, <1>4 DEF LedgerInv, LocksKept, ReadIsFresh

LEMMA LedgerInvNext ==
    AllDisciplined /\ LedgerInv /\ [Next]_vars => LedgerInv'
  <1> SUFFICES ASSUME AllDisciplined, LedgerInv, [Next]_vars PROVE LedgerInv'
    OBVIOUS
  <1>1. TypeOK'
    BY NextType DEF LedgerInv
  <1>2. ASSUME NEW r \in Requests, NEW t \in Tasks, Begin(r, t)
        PROVE  LedgerInv'
    BY <1>1, <1>2, BeginInv
  <1>3. ASSUME NEW r \in Requests, Commit(r)
        PROVE  LedgerInv'
    BY <1>1, <1>3, CommitInv
  <1>4. ASSUME NEW r \in Requests, Execute(r), ~Commit(r)
        PROVE  LedgerInv'
    <2>1. r \in Open
      BY <1>4 DEF Execute, Lock, Funds, WithinLimit, Expect, Find, Insert, Mark, Set,
                  Ensure, Sweep, NetOut, Tally, When, Hold, Floor, TriggerRead, TriggerWrite, Recompute,
                  RecomputeCard, UseLimit, PostGL, At, Open
    <2>2. CASE Keeps(r)
      BY <1>1, <2>1, <2>2, KeepsInv
    <2>3. ASSUME NEW a \in Accounts, NEW n \in Int, Takes(r, a, n)
          PROVE  LedgerInv'
      BY <1>1, <2>1, <2>3, TakesInv
    <2>4. ASSUME NEW how \in {"refused", "replayed", "failed", "tripped"},
                 Rollback(r, how)
          PROVE  LedgerInv'
      BY <1>1, <2>4, RollbackInv
    <2>5. QED
      BY <1>4, <2>2, <2>3, <2>4, ExecuteShape
  <1>5. ASSUME NEW r \in Requests, Abort(r)
        PROVE  LedgerInv'
    BY <1>1, <1>5, RollbackInv DEF Abort
  <1>6. CASE UNCHANGED vars
    BY <1>6, <1>1 DEF LedgerInv, LocksKept, ReadIsFresh, DraftIsPending,
                      BalanceIsJournal, Open, Upcoming, View, vars, sql
  <1>7. QED
    BY <1>2, <1>3, <1>4, <1>5, <1>6 DEF Next, Done

\* When every posting has locked the row it posts to, the balance that the
\* trigger keeps is the sum of the committed entries, however the statements
\* of any number of requests, their failures and their crashes interleave.
THEOREM NoLostUpdate == AllDisciplined => (Spec => []BalanceIsJournal)
  <1> SUFFICES ASSUME AllDisciplined PROVE Spec => []BalanceIsJournal
    OBVIOUS
  <1>1. Init => LedgerInv
    BY LedgerInvInit
  <1>2. LedgerInv /\ [Next]_vars => LedgerInv'
    BY LedgerInvNext
  <1>3. LedgerInv => BalanceIsJournal
    BY DEF LedgerInv
  <1>4. QED
    BY <1>1, <1>2, <1>3, PTL DEF Spec
-----------------------------------------------------------------------------
(***************************************************************************)
(* No deadlock.  When the scripts lock the rows along one strict order,    *)
(* every transaction of a cycle would wait for a row above all it has      *)
(* locked, and its owner for one higher still, without end.                *)
(***************************************************************************)

StrictOrder(before) ==
    /\ \A x \in Rows : <<x, x>> \notin before
    /\ \A x, y, z \in Rows :
         <<x, y>> \in before /\ <<y, z>> \in before => <<x, z>> \in before

\* A script locks a row it has locked before, or one above all it has locked.
Ordered(s, before) ==
    \A i \in 1..Len(s) :
        /\ s[i].op \notin {"when", "sweep"}
        /\ s[i].op \in Locking =>
             \/ \E j \in 1..i-1 : s[j].op \in Locking /\ s[j].row = s[i].row
             \/ \A j \in 1..i-1 :
                  s[j].op \in Locking => <<s[j].row, s[i].row>> \in before

\* Script s has had row x locked before its statement n.
HasLocked(s, n, x) == \E j \in 1..n-1 : s[j].op \in Locking /\ s[j].row = x

\* What a transaction has locked is what its script has locked so far.
OwnsWhatItLocked ==
    \A x \in Rows :
        /\ \A r \in Open : HasLocked(Script[task[r]], pc[r], x) => owner[x] = r
        /\ owner[x] # NoOne => /\ owner[x] \in Open
                               /\ HasLocked(Script[task[owner[x]]], pc[owner[x]], x)

AllOrdered(before) == \A t \in Tasks : Ordered(Script[t], before)

\* The kinds of step, by what they do to the locks.
Passes(r) == Advance(r) /\ Upcoming(r).op \notin Locking /\ owner' = owner
Grabs(r) ==
    /\ Advance(r) /\ Upcoming(r).op \in Locking /\ Upcoming(r).row \in Rows
    /\ Free(r, Upcoming(r).row)
    /\ owner' = [owner EXCEPT ![Upcoming(r).row] = r]
Closes(r) == \E how \in {"posted", "refused", "replayed", "failed", "tripped"} : Finish(r, how)

LEMMA LockingStatement ==
    ASSUME NEW s \in Statement, s.op \in Locking PROVE s.row \in Rows
  BY DocStatement, AccountStatement
     DEF Locking, AccountOps, DocOps, AccountWrites, DocWrites, Rows

LEMMA ExecuteLocks ==
    ASSUME TypeOK, NEW before, AllOrdered(before), NEW r \in Requests, Execute(r)
    PROVE  r \in Open /\ (Passes(r) \/ Grabs(r) \/ Closes(r))
  <1> DEFINE s == Upcoming(r)
             Shape == Passes(r) \/ Grabs(r) \/ Closes(r)
  <1>1. r \in Open
    BY DEF Execute, Lock, Funds, WithinLimit, Expect, Find, Insert, Mark, Set, Ensure,
           Sweep, NetOut, Tally, When, Hold, Floor, TriggerRead, TriggerWrite, Recompute,
           RecomputeCard, UseLimit, PostGL, Commit, At, Open
  <1>2. s \in Statement /\ s.op \notin {"when", "sweep"}
    BY <1>1, UpcomingStatement DEF AllOrdered, Ordered, Upcoming
  <1>3. s.op \in Locking => s.row \in Rows
    BY <1>2, LockingStatement
  <1>4. ASSUME NEW how, Rollback(r, how), how \in {"refused", "replayed", "failed", "tripped"}
        PROVE  Shape
    BY <1>4 DEF Rollback, Closes
  <1>5. CASE Funds(r) \/ WithinLimit(r) \/ Expect(r) \/ Find(r)
    <2>1. s.op \notin Locking
      BY <1>5 DEF Funds, WithinLimit, Expect, Find, At, Locking, AccountWrites, DocWrites
    <2>2. (Advance(r) /\ owner' = owner) \/ Rollback(r, "refused") \/ Rollback(r, "replayed")
      BY <1>5 DEF Funds, WithinLimit, Expect, Find, Require, sql
    <2> QED
      BY <1>1, <1>4, <2>1, <2>2 DEF Passes
  <1>6. CASE NetOut(r) \/ Tally(r) \/ TriggerRead(r) \/ PostGL(r)
    <2>1. s.op \notin Locking
      BY <1>6 DEF NetOut, Tally, TriggerRead, PostGL, At, Locking, AccountWrites, DocWrites
    <2>2. (Advance(r) /\ owner' = owner) \/ Rollback(r, "refused") \/ Rollback(r, "failed")
      BY <1>6 DEF NetOut, Tally, TriggerRead, PostGL, sql
    <2> QED
      BY <1>1, <1>4, <2>1, <2>2 DEF Passes
  <1>7. CASE Lock(r) \/ Insert(r) \/ Mark(r) \/ Set(r) \/ Ensure(r)
    <2>1. s.op \in Locking
      BY <1>7 DEF Lock, Insert, Mark, Set, Ensure, At, Locking, AccountWrites, DocWrites
    <2>2. \/ /\ Advance(r) /\ Free(r, s.row)
             /\ owner' = [owner EXCEPT ![s.row] = r]
          \/ Rollback(r, "refused") \/ Rollback(r, "replayed")
      BY <1>7 DEF Lock, Insert, Mark, Set, Ensure, ChangeDoc
    <2> QED
      BY <1>1, <1>3, <1>4, <2>1, <2>2 DEF Grabs
  <1>8. CASE Floor(r) \/ TriggerWrite(r) \/ Recompute(r) \/ RecomputeCard(r)
               \/ Hold(r) \/ UseLimit(r)
    <2>1. s.op \in Locking
      BY <1>8 DEF Floor, TriggerWrite, Recompute, RecomputeCard, Hold, UseLimit, At,
                  Locking, AccountWrites
    <2>2. \E x, n : Update(r, s.row, x, n)
      BY <1>8 DEF Floor, TriggerWrite, Recompute, RecomputeCard, Hold, UseLimit
    <2>3. \/ /\ Advance(r) /\ Free(r, s.row)
             /\ owner' = [owner EXCEPT ![s.row] = r]
          \/ Rollback(r, "tripped")
      BY <2>2 DEF Update
    <2> QED
      BY <1>1, <1>3, <1>4, <2>1, <2>3 DEF Grabs
  <1>9. CASE Commit(r)
    BY <1>1, <1>9 DEF Commit, Closes
  <1>10. ~When(r) /\ ~Sweep(r)
    BY <1>2 DEF When, Sweep, At
  <1> QED
    BY <1>1, <1>5, <1>6, <1>7, <1>8, <1>9, <1>10 DEF Execute

LEMMA OwnsInit == Init => OwnsWhatItLocked
  BY DEF Init, OwnsWhatItLocked, Open, Rows

LEMMA AdvanceOwns ==
    ASSUME TypeOK, OwnsWhatItLocked, NEW r \in Open, Passes(r) \/ Grabs(r)
    PROVE  OwnsWhatItLocked'
  <1> DEFINE s == Script[task[r]]
  <1>1. /\ r \in Requests /\ Open' = Open /\ task' = task
        /\ pc[r] \in Nat /\ pc'[r] = pc[r] + 1
        /\ \A q \in Open \ {r} : pc'[q] = pc[q]
        /\ Upcoming(r) = s[pc[r]] /\ NoOne \notin Requests
    BY NamesAssumption DEF Passes, Grabs, Advance, TypeOK, Open, Upcoming
  <1>2. pc[r] \in 1..pc'[r]-1
    <2>1. pc[r] \in 1..Len(s)
      BY UpcomingStatement
    <2> QED
      BY <1>1, <2>1
  <1>3. \A x : HasLocked(s, pc'[r], x) <=>
                 HasLocked(s, pc[r], x) \/ (s[pc[r]].op \in Locking /\ s[pc[r]].row = x)
    <2>1. \A j \in 1..pc'[r]-1 : j = pc[r] \/ j \in 1..pc[r]-1
      BY <1>1
    <2>2. \A j \in 1..pc[r]-1 : j \in 1..pc'[r]-1
      BY <1>1
    <2> QED
      BY <1>2, <2>1, <2>2 DEF HasLocked
  <1>4. CASE Passes(r)
    <2>1. \A x : HasLocked(s, pc'[r], x) <=> HasLocked(s, pc[r], x)
      BY <1>1, <1>3, <1>4 DEF Passes
    <2>2. \A q \in Open, x \in Rows :
            HasLocked(Script[task'[q]], pc'[q], x) <=> HasLocked(Script[task[q]], pc[q], x)
      BY <1>1, <2>1
    <2> QED
      BY <1>1, <1>4, <2>2 DEF OwnsWhatItLocked, Passes
  <1>5. CASE Grabs(r)
    <2> DEFINE a == s[pc[r]].row
    <2>1. /\ a \in Rows /\ owner[a] \in {NoOne, r} /\ owner'[a] = r
          /\ \A x \in Rows \ {a} : owner'[x] = owner[x]
          /\ s[pc[r]].op \in Locking
      BY <1>1, <1>5 DEF Grabs, Free, TypeOK
    <2> SUFFICES ASSUME NEW x \in Rows
                 PROVE  /\ \A q \in Open : HasLocked(Script[task[q]], pc'[q], x) => owner'[x] = q
                        /\ owner'[x] # NoOne =>
                             /\ owner'[x] \in Open
                             /\ HasLocked(Script[task[owner'[x]]], pc'[owner'[x]], x)
      BY <1>1 DEF OwnsWhatItLocked
    <2>2. CASE x = a
      <3>1. \A q \in Open \ {r} : ~HasLocked(Script[task[q]], pc'[q], a)
        BY <1>1, <2>1 DEF OwnsWhatItLocked, Open
      <3> QED
        BY <1>3, <2>1, <2>2, <3>1
    <2>3. CASE x # a
      <3>1. \A q \in Open : HasLocked(Script[task[q]], pc'[q], x)
                              <=> HasLocked(Script[task[q]], pc[q], x)
        BY <1>1, <1>3, <2>3
      <3>2. owner'[x] = owner[x]
        BY <2>1, <2>3
      <3> QED
        BY <3>1, <3>2 DEF OwnsWhatItLocked
    <2> QED
      BY <2>2, <2>3
  <1> QED
    BY <1>4, <1>5

LEMMA FinishOwns ==
    ASSUME TypeOK, OwnsWhatItLocked, NEW r \in Requests, Closes(r)
    PROVE  OwnsWhatItLocked'
  <1>1. PICK how \in {"posted", "refused", "replayed", "failed", "tripped"} : Finish(r, how)
    BY DEF Closes
  <1>2. /\ task' = task /\ \A q \in Requests \ {r} : pc'[q] = pc[q]
        /\ Open' = Open \ {r} /\ Open \subseteq Requests /\ NoOne \notin Requests
    BY <1>1, NamesAssumption DEF Finish, TypeOK, Open
  <1>3. \A x \in Rows : owner'[x] = IF owner[x] = r THEN NoOne ELSE owner[x]
    BY <1>1 DEF Finish
  <1> QED
    BY <1>2, <1>3 DEF OwnsWhatItLocked

LEMMA BeginOwns ==
    ASSUME TypeOK, OwnsWhatItLocked, NEW r \in Requests, NEW t \in Tasks, Begin(r, t)
    PROVE  OwnsWhatItLocked'
  <1>1. /\ owner' = owner /\ Open' = Open \cup {r} /\ r \notin Open
        /\ pc'[r] = 1
        /\ \A q \in Open : pc'[q] = pc[q] /\ task'[q] = task[q]
    BY DEF Begin, sql, TypeOK, Open
  <1>2. \A s, x : ~HasLocked(s, 1, x)
    BY DEF HasLocked
  <1> QED
    BY <1>1, <1>2 DEF OwnsWhatItLocked

LEMMA OwnsNext ==
    ASSUME NEW before, AllOrdered(before), TypeOK, OwnsWhatItLocked, [Next]_vars
    PROVE  OwnsWhatItLocked'
  <1>1. ASSUME NEW r \in Requests, Execute(r) PROVE OwnsWhatItLocked'
    BY <1>1, ExecuteLocks, AdvanceOwns, FinishOwns
  <1>2. ASSUME NEW r \in Requests, Abort(r) PROVE OwnsWhatItLocked'
    BY <1>2, FinishOwns DEF Abort, Rollback, Closes
  <1>3. CASE UNCHANGED vars
    BY <1>3 DEF vars, sql, OwnsWhatItLocked, Open
  <1> QED
    BY <1>1, <1>2, <1>3, BeginOwns DEF Next, Done

\* A transaction that waits, waits for a row above all it has locked.
LEMMA WaitsAbove ==
    ASSUME NEW before, AllOrdered(before), TypeOK, OwnsWhatItLocked,
           NEW r \in Requests, Waiting(r), NEW x \in Rows, owner[x] = r
    PROVE  Upcoming(r).row \in Rows /\ <<x, Upcoming(r).row>> \in before
  <1> DEFINE s == Script[task[r]]  y == Upcoming(r).row
  <1>1. /\ r \in Open /\ task[r] \in Tasks /\ pc[r] \in 1..Len(s) /\ s[pc[r]] = Upcoming(r)
        /\ Upcoming(r) \in Statement /\ Upcoming(r).op \in Locking /\ owner[y] \notin {NoOne, r}
    BY UpcomingStatement DEF Waiting, Upcoming, Free
  <1>2. y \in Rows
    BY <1>1, LockingStatement
  <1>3. ~HasLocked(s, pc[r], y)
    BY <1>1, <1>2 DEF OwnsWhatItLocked
  <1>4. \A j \in 1..pc[r]-1 : s[j].op \in Locking => <<s[j].row, y>> \in before
    BY <1>1, <1>3 DEF AllOrdered, Ordered, HasLocked
  <1>5. r # NoOne
    BY NamesAssumption
  <1>6. HasLocked(s, pc[r], x)
    BY <1>5 DEF OwnsWhatItLocked
  <1> QED
    BY <1>2, <1>4, <1>6 DEF HasLocked

LEMMA OrderedNeverCycles ==
    ASSUME NEW before, StrictOrder(before), IsFiniteSet(Rows), AllOrdered(before),
           TypeOK, OwnsWhatItLocked
    PROVE  NoWaitCycle
  <1> SUFFICES ASSUME NEW S \in SUBSET Open, S # {},
                      \A r \in S : Waiting(r) /\ owner[Upcoming(r).row] \in S
               PROVE  FALSE
    BY DEF NoWaitCycle
  <1> DEFINE Above(x) == {y \in Rows : <<x, y>> \in before}
             T == {Above(Upcoming(r).row) : r \in S}
  <1>1. \A r \in S : r \in Requests /\ Upcoming(r).row \in Rows
    BY UpcomingStatement, LockingStatement DEF Waiting, Open
  <1>2. IsWellFoundedOn(StrictSubsetOrdering(Rows), SUBSET Rows)
    BY FS_StrictSubsetOrderingWellFounded, FS_FiniteSubsetsOfFinite
  <1>3. T \subseteq SUBSET Rows /\ T # {}
    OBVIOUS
  <1> HIDE DEF T
  <1>4. PICK least \in T : \A u \in T : <<u, least>> \notin StrictSubsetOrdering(Rows)
    BY <1>2, <1>3, WFMin
  <1>5. PICK r \in S : least = Above(Upcoming(r).row)
    BY DEF T
  <1> DEFINE x == Upcoming(r).row
             q == owner[x]
             y == Upcoming(q).row
  <1>6. /\ q \in S /\ x \in Rows /\ y \in Rows
        /\ <<x, y>> \in before
    BY <1>1, WaitsAbove
  <1>7. y \in Above(x) /\ y \notin Above(y) /\ Above(y) \subseteq Above(x)
    BY <1>6 DEF StrictOrder
  <1>8. Above(y) \in T /\ Above(x) \subseteq Rows /\ Above(y) \subseteq Rows
    BY <1>6 DEF T
  <1>9. <<Above(y), Above(x)>> \in StrictSubsetOrdering(Rows)
    BY <1>7, <1>8 DEF StrictSubsetOrdering
  <1> QED
    BY <1>4, <1>5, <1>8, <1>9

\* Handlers whose scripts lock the rows along one strict order never wait for
\* each other in a circle: PostgreSQL has no deadlock to break, however many of
\* them run at once and wherever they are cut off.
THEOREM NeverDeadlocks ==
    ASSUME NEW before, StrictOrder(before), IsFiniteSet(Rows), AllOrdered(before)
    PROVE  Spec => []NoWaitCycle
  <1>1. Init => TypeOK /\ OwnsWhatItLocked
    BY InitType, OwnsInit
  <1>2. TypeOK /\ OwnsWhatItLocked /\ [Next]_vars => (TypeOK /\ OwnsWhatItLocked)'
    BY NextType, OwnsNext
  <1>3. TypeOK /\ OwnsWhatItLocked => NoWaitCycle
    BY OrderedNeverCycles
  <1> QED
    BY <1>1, <1>2, <1>3, PTL DEF Spec
-----------------------------------------------------------------------------
(* A logic of scripts.  What an open transaction has done is told by the     *)
(* rows X that one cares about: which of them it has locked, what they were  *)
(* when it did and what it has made of them, the entries it has inserted,    *)
(* and what it has told the core.  No other request can change any of that,  *)
(* so the script can be run alone, with a set of such standings before and   *)
(* after each of its statements.                                             *)

IsPiece(s) == \E S : s \in Seq(S)

NoRow == [bal |-> 0, avail |-> 0, held |-> 0, used |-> [m \in Meters |-> 0]]

Standing(X) ==
    [own   : SUBSET X,
     was   : [X \cap Docs -> STRING],         now   : [X \cap Docs -> STRING],
     row   : [X \cap Accounts -> AccountRow], draft : [X \cap Accounts -> AccountRow],
     posts : [Accounts -> Int], seen : Int, net : Int, told : Int]

StandingOf(X, r) ==
    [own   |-> {x \in X : owner[x] = r},
     was   |-> [d \in X \cap Docs |-> IF owner[d] = r THEN doc[d] ELSE Absent],
     now   |-> [d \in X \cap Docs |-> IF owner[d] = r THEN docDraft[d] ELSE Absent],
     row   |-> [a \in X \cap Accounts |-> IF owner[a] = r THEN row[a] ELSE NoRow],
     draft |-> [a \in X \cap Accounts |-> IF owner[a] = r THEN draft[a] ELSE NoRow],
     posts |-> pend[r], seen |-> seen[r], net |-> net[r], told |-> gl[r]]

Fresh(X) ==
    [own   |-> {},
     was   |-> [d \in X \cap Docs |-> Absent], now   |-> [d \in X \cap Docs |-> Absent],
     row   |-> [a \in X \cap Accounts |-> NoRow], draft |-> [a \in X \cap Accounts |-> NoRow],
     posts |-> NoEntries, seen |-> 0, net |-> 0, told |-> 0]

AmountIn(s, l) == s.amt * (IF s.tag = ByNet THEN l.net ELSE 1)
SeenAfter(s, l) == IF s.op = "lock" THEN l.seen ELSE 0
PostsAfter(s, l) ==
    IF s.op = "write" THEN [l.posts EXCEPT ![s.row] = @ + AmountIn(s, l)] ELSE l.posts

\* What statement s makes of row y of account s.row.
RowAfter(s, l, y) ==
    CASE s.op = "lock"      -> y
      [] s.op = "floor"     -> [y EXCEPT !.avail = 0]
      [] s.op = "write"     -> [y EXCEPT !.bal = l.seen + AmountIn(s, l)]
      [] s.op = "recompute" -> [y EXCEPT !.avail = y.bal + Overdraft[s.row] - y.held]
      [] s.op = "recard"    -> [y EXCEPT !.avail = Overdraft[s.row] - y.bal - y.held]
      [] s.op = "hold"      -> [y EXCEPT !.held = @ + AmountIn(s, l)]
      [] s.op = "use"       -> [y EXCEPT !.used[s.tag] = @ + s.amt]

StatusAfter(s, v) == IF s.op = "ensure" /\ v # s.was THEN v ELSE s.tag

\* The parts of a standing that a statement leaves alone.
SameDocs(l, m) == m.was = l.was /\ m.now = l.now
SameRows(l, m) == m.row = l.row /\ m.draft = l.draft
SameSums(l, m) == m.net = l.net /\ m.told = l.told
SameLocks(l, m) == m.own = l.own /\ SameDocs(l, m) /\ SameRows(l, m)

\* Row x, found to be v, is locked and becomes w.
TakesDoc(l, m, x, v, w) ==
    /\ m.own = l.own \cup {x}
    /\ m.was = [l.was EXCEPT ![x] = v] /\ m.now = [l.now EXCEPT ![x] = w]
TakesRow(l, m, x, v, w) ==
    /\ m.own = l.own \cup {x}
    /\ m.row = [l.row EXCEPT ![x] = v] /\ m.draft = [l.draft EXCEPT ![x] = w]

ChangesDoc(s, l, m) ==
    \E v \in STRING :
        LET y == IF s.row \in l.own THEN l.now[s.row] ELSE v IN
            /\ s.row \in l.own => v = l.was[s.row]
            /\ s.op \in {"insert", "mark"} => y = s.was
            /\ TakesDoc(l, m, s.row, v, StatusAfter(s, y))
            /\ SameRows(l, m) /\ SameSums(l, m) /\ m.posts = l.posts /\ m.seen = l.seen

ChangesRow(s, l, m) ==
    \E v \in AccountRow :
        LET y == IF s.row \in l.own THEN l.draft[s.row] ELSE v IN
            /\ s.row \in l.own => v = l.row[s.row]
            /\ TakesRow(l, m, s.row, v, RowAfter(s, l, y))
            /\ SameDocs(l, m) /\ SameSums(l, m)

Sweeps(X, s, l, m) ==
    \E W \in SUBSET (X \cap Docs) :
        /\ \A d \in l.own \cap Docs : d \in W <=> l.was[d] = s.was
        /\ m.own = l.own \cup W
        /\ m.was = [d \in X \cap Docs |-> IF d \in W THEN s.was ELSE l.was[d]]
        /\ m.now = [d \in X \cap Docs |-> IF d \in W THEN s.tag ELSE l.now[d]]
        /\ SameRows(l, m) /\ SameSums(l, m) /\ m.posts = l.posts /\ m.seen = l.seen

\* Statement s, not a branch, may take a transaction that stands at l to m.
Does(X, s, l, m) ==
    \/ s.op \in DocWrites /\ s.row \in X /\ ChangesDoc(s, l, m)
    \/ s.op = "sweep" /\ Sweeps(X, s, l, m)
    \/ /\ s.op \in AccountWrites
       /\ IF s.row \in X THEN ChangesRow(s, l, m) ELSE SameLocks(l, m) /\ SameSums(l, m)
       /\ m.seen = SeenAfter(s, l) /\ m.posts = PostsAfter(s, l)
    \/ /\ s.op = "read"
       /\ s.row \in l.own => m.seen = l.draft[s.row].bal
       /\ SameLocks(l, m) /\ SameSums(l, m) /\ m.posts = l.posts
    \/ /\ s.op = "net"
       /\ m.net > 0 /\ (s.row \in l.own => m.net = -l.draft[s.row].bal)
       /\ SameLocks(l, m) /\ m.told = l.told /\ m.posts = l.posts /\ m.seen = l.seen
    \/ /\ s.op \in {"tally", "gl"}
       /\ m.net = l.net + (IF s.op = "tally" THEN s.amt ELSE 0)
       /\ m.told = l.told + (IF s.op = "gl" THEN AmountIn(s, l) ELSE 0)
       /\ SameLocks(l, m) /\ m.posts = l.posts /\ m.seen = l.seen
    \/ /\ \/ s.op = "funds" /\ (s.row \in l.own => l.draft[s.row].avail >= AmountIn(s, l))
          \/ s.op \in {"find", "expect", "limit", "commit"}
          \/ s.op \in DocWrites /\ s.row \notin X
       /\ m = l

\* What a branch may find of row x, which it knows only when it is locked.
HoldsIn(x, state, n, l) ==
    IF x \in Docs THEN l.now[x] = state
    ELSE CASE state = "bears" -> l.draft[x].bal - n >= -Overdraft[x]
           [] state = "short" -> l.draft[x].avail < n
           [] state = "owes"  -> -l.draft[x].bal > n
MayHold(x, state, n, l) == x \in l.own => HoldsIn(x, state, n, l)
MayFail(x, state, n, l) == x \in l.own => ~HoldsIn(x, state, n, l)
MayEnter(s, l) == s.tag = "if" /\ MayHold(s.row, s.was, s.amt, l)
MaySkip(s, l) == s.tag = "if" => MayFail(s.row, s.was, s.amt, l)

StepsOn(X, s, w, i) ==
    IF s[i].op = "when"
    THEN /\ s[i].over \in Nat /\ i + s[i].over <= Len(s)
         /\ \A l \in w[i] : /\ MayEnter(s[i], l) => l \in w[i + 1]
                            /\ MaySkip(s[i], l) => l \in w[i + 1 + s[i].over]
    ELSE \A l \in w[i], m \in Standing(X) : Does(X, s[i], l, m) => m \in w[i + 1]

\* The standings before each statement of s, and after the last.
IsWalk(X, w, s) ==
    /\ w \in [1..Len(s)+1 -> SUBSET Standing(X)]
    /\ \A i \in 1..Len(s) : StepsOn(X, s, w, i)

\* Run alone from a standing of G, the piece s ends at one of H, if it ends.
Leads(X, s, G, H) ==
    /\ IsPiece(s)
    /\ \E w : IsWalk(X, w, s) /\ G \subseteq w[1] /\ w[Len(s)+1] \subseteq H

\* No statement leads nowhere.
LEMMA LeadsNowhere ==
    ASSUME NEW X, NEW G \in SUBSET Standing(X), NEW H, G \subseteq H
    PROVE  Leads(X, << >>, G, H)
  <1> DEFINE s == << >>  w == [i \in 1..1 |-> G]
  <1>1. s \in Seq({}) /\ Len(s) = 0
    OBVIOUS
  <1>2. w \in [1..1 -> SUBSET Standing(X)] /\ w[1] = G
    OBVIOUS
  <1> HIDE DEF s, w
  <1>3. IsPiece(s) /\ 1..Len(s) = {} /\ Len(s) + 1 = 1
    BY <1>1 DEF IsPiece
  <1>4. Leads(X, s, G, H)
    BY <1>2, <1>3 DEF Leads, IsWalk
  <1> QED
    BY <1>4 DEF s

\* One statement, by what it does.
LEMMA LeadsByOne ==
    ASSUME NEW X, NEW x, NEW G \in SUBSET Standing(X), NEW H, x.op # "when",
           \A l \in G, m \in Standing(X) : Does(X, x, l, m) => m \in H
    PROVE  Leads(X, << x >>, G, H)
  <1> DEFINE s == << x >>  K == H \cap Standing(X)
             w == [i \in 1..2 |-> IF i = 1 THEN G ELSE K]
  <1>1. s \in Seq({x}) /\ Len(s) = 1 /\ s[1] = x
    OBVIOUS
  <1>2. w \in [1..2 -> SUBSET Standing(X)] /\ w[1] = G /\ w[2] = K
    OBVIOUS
  <1>0. K \subseteq H /\ \A l \in G, m \in Standing(X) : Does(X, x, l, m) => m \in K
    OBVIOUS
  <1> HIDE DEF s, w, K
  <1>3. IsPiece(s) /\ Len(s) + 1 = 2 /\ \A i \in 1..Len(s) : i = 1
    BY <1>1 DEF IsPiece
  <1>4. IsWalk(X, w, s)
    <2>1. StepsOn(X, s, w, 1)
      BY <1>0, <1>1, <1>2 DEF StepsOn
    <2> QED
      BY <1>2, <1>3, <2>1 DEF IsWalk
  <1>5. Leads(X, s, G, H)
    BY <1>0, <1>2, <1>3, <1>4 DEF Leads
  <1> QED
    BY <1>5 DEF s

\* A piece that leads from G to H leads from less to more.
LEMMA LeadsAlso ==
    ASSUME NEW X, NEW s, NEW F, NEW G, NEW H, NEW K, Leads(X, s, G, H),
           F \subseteq G, H \subseteq K
    PROVE  Leads(X, s, F, K)
  BY DEF Leads

\* What two pieces of a script make together.
LEMMA PiecesJoin ==
    ASSUME NEW s, NEW t, IsPiece(s), IsPiece(t)
    PROVE  /\ IsPiece(s \o t) /\ Len(s \o t) = Len(s) + Len(t)
           /\ Len(s) \in Nat /\ Len(t) \in Nat
           /\ \A i \in 1..Len(s) : (s \o t)[i] = s[i]
           /\ \A i \in 1..Len(t) : (s \o t)[Len(s) + i] = t[i]
  <1>1. PICK S : s \in Seq(S) /\ t \in Seq(S)
    <2>1. PICK A : s \in Seq(A)
      BY DEF IsPiece
    <2>2. PICK B : t \in Seq(B)
      BY DEF IsPiece
    <2>3. s \in Seq(A \cup B) /\ t \in Seq(A \cup B)
      BY <2>1, <2>2
    <2> QED
      BY <2>3
  <1>2. s \o t \in Seq(S)
    BY <1>1
  <1> QED
    BY <1>1, <1>2 DEF IsPiece

\* Walk x takes the statement at k + i of u as walk v takes that at i of s.
LEMMA StepMoves ==
    ASSUME NEW X, NEW s, NEW v, NEW u, NEW x, NEW i \in Int, NEW k \in Int,
           Len(s) \in Nat, Len(u) \in Nat, k >= 0, k + Len(s) <= Len(u),
           i \in 1..Len(s), StepsOn(X, s, v, i), u[k + i] = s[i],
           x[k + i] \subseteq v[i],
           \A j \in i+1..Len(s)+1 : v[j] \subseteq x[k + j]
    PROVE  StepsOn(X, u, x, k + i)
  <1>1. v[i + 1] \subseteq x[(k + i) + 1]
    <2>1. i + 1 \in i+1..Len(s)+1 /\ k + (i + 1) = (k + i) + 1
      OBVIOUS
    <2> QED
      BY <2>1
  <1>2. CASE s[i].op = "when"
    <2> DEFINE j == i + 1 + s[i].over
    <2>0. s[i].over \in Nat /\ i + s[i].over <= Len(s)
      BY <1>2 DEF StepsOn
    <2>1. j \in i+1..Len(s)+1
      BY <2>0
    <2>2. (k + i) + 1 + u[k+i].over = k + j /\ k + i + u[k+i].over <= Len(u)
      BY <2>0
    <2>3. v[j] \subseteq x[k + j]
      BY <2>1
    <2>4. \A l \in v[i] : /\ MayEnter(s[i], l) => l \in v[i + 1]
                          /\ MaySkip(s[i], l) => l \in v[j]
      BY <1>2 DEF StepsOn
    <2> HIDE DEF j
    <2> QED
      BY <1>1, <1>2, <2>0, <2>2, <2>3, <2>4 DEF StepsOn
  <1>3. CASE s[i].op # "when"
    BY <1>1, <1>3 DEF StepsOn
  <1> QED
    BY <1>2, <1>3

\* Pieces that lead from one set to the next, one after the other.
LEMMA LeadsOn ==
    ASSUME NEW X, NEW s, NEW t, NEW F, NEW G, NEW H, Leads(X, s, F, G), Leads(X, t, G, H)
    PROVE  Leads(X, s \o t, F, H)
  <1> DEFINE u == s \o t
  <1>2. /\ IsPiece(u) /\ Len(u) = Len(s) + Len(t)
        /\ Len(s) \in Nat /\ Len(t) \in Nat
        /\ \A i \in 1..Len(s) : u[i] = s[i]
        /\ \A i \in 1..Len(t) : u[Len(s) + i] = t[i]
    BY PiecesJoin DEF Leads
  <1>3. PICK v : IsWalk(X, v, s) /\ F \subseteq v[1] /\ v[Len(s)+1] \subseteq G
    BY DEF Leads
  <1>4. PICK w : IsWalk(X, w, t) /\ G \subseteq w[1] /\ w[Len(t)+1] \subseteq H
    BY DEF Leads
  <1> DEFINE x == [i \in 1..Len(u)+1 |-> IF i <= Len(s) THEN v[i] ELSE w[i - Len(s)]]
  <1> HIDE DEF u
  <1>5. \A i \in 1..Len(u)+1 :
          /\ i <= Len(s) => x[i] = v[i] /\ i \in 1..Len(s)+1
          /\ ~(i <= Len(s)) => x[i] = w[i - Len(s)] /\ i - Len(s) \in 1..Len(t)+1
    BY <1>2
  <1>6. x \in [1..Len(u)+1 -> SUBSET Standing(X)]
    <2>1. \A i \in 1..Len(u)+1 : x[i] \in SUBSET Standing(X)
      BY <1>3, <1>4, <1>5 DEF IsWalk
    <2> QED
      BY <2>1
  <1>7. \A j \in 1..Len(t)+1 : x[Len(s) + j] = w[j]
    BY <1>2, <1>5
  <1>8. \A j \in 1..Len(s)+1 : v[j] \subseteq x[j]
    <2> TAKE j \in 1..Len(s)+1
    <2>1. CASE j <= Len(s)
      <3>1. j \in 1..Len(u)+1
        BY <1>2
      <3> QED
        BY <1>5, <2>1, <3>1
    <2>2. CASE j = Len(s) + 1
      <3>1. x[j] = w[1]
        <4>1. 1 \in 1..Len(t)+1
          BY <1>2
        <4> QED
          BY <1>7, <2>2, <4>1
      <3> QED
        BY <1>3, <1>4, <2>2, <3>1
    <2> QED
      BY <1>2, <2>1, <2>2
  <1> HIDE DEF x
  <1>9. ASSUME NEW i \in 1..Len(u)
        PROVE  StepsOn(X, u, x, i)
    <2>1. CASE i <= Len(s)
      <3>1. /\ i \in 1..Len(s) /\ StepsOn(X, s, v, i) /\ u[0 + i] = s[i] /\ 0 + i = i
            /\ i \in 1..Len(u)+1 /\ x[i] = v[i]
        BY <1>2, <1>3, <1>5, <2>1 DEF IsWalk
      <3>2. \A j \in i+1..Len(s)+1 : v[j] \subseteq x[0 + j]
        <4> TAKE j \in i+1..Len(s)+1
        <4>1. j \in 1..Len(s)+1 /\ 0 + j = j
          BY <1>2, <3>1
        <4> QED
          BY <1>8, <4>1
      <3>3. /\ i \in Int /\ 0 \in Int /\ Len(u) \in Nat /\ 0 >= 0 /\ 0 + Len(s) <= Len(u)
            /\ x[0 + i] \subseteq v[i]
        BY <1>2, <3>1
      <3>4. StepsOn(X, u, x, 0 + i)
        BY <1>2, <3>1, <3>2, <3>3, StepMoves
      <3> QED
        BY <3>1, <3>4
    <2>2. CASE i > Len(s)
      <3> DEFINE k == i - Len(s)
      <3>1. k \in 1..Len(t) /\ Len(s) + k = i /\ k \in 1..Len(t)+1
        BY <1>2, <2>2
      <3> HIDE DEF k
      <3>2. \A j \in k+1..Len(t)+1 : w[j] \subseteq x[Len(s) + j]
        <4> TAKE j \in k+1..Len(t)+1
        <4>1. j \in 1..Len(t)+1
          BY <1>2, <3>1
        <4> QED
          BY <1>7, <4>1
      <3>3. StepsOn(X, t, w, k) /\ u[Len(s) + k] = t[k] /\ x[Len(s) + k] = w[k]
        BY <1>2, <1>4, <1>7, <3>1 DEF IsWalk
      <3>4. /\ k \in Int /\ Len(s) \in Int /\ Len(u) \in Nat /\ Len(s) >= 0
            /\ Len(s) + Len(t) <= Len(u) /\ x[Len(s) + k] \subseteq w[k]
        BY <1>2, <3>1, <3>3
      <3>5. StepsOn(X, u, x, Len(s) + k)
        BY <1>2, <3>1, <3>2, <3>3, <3>4, StepMoves
      <3> QED
        BY <3>1, <3>5
    <2> QED
      BY <1>2, <2>1, <2>2
  <1>10. F \subseteq x[1] /\ x[Len(u)+1] \subseteq H
    <2>1. 1 \in 1..Len(s)+1 /\ Len(t) + 1 \in 1..Len(t)+1 /\ Len(s) + (Len(t) + 1) = Len(u) + 1
      BY <1>2
    <2> QED
      BY <1>3, <1>4, <1>7, <1>8, <2>1
  <1>11. Leads(X, u, F, H)
    BY <1>2, <1>6, <1>9, <1>10 DEF Leads, IsWalk
  <1> QED
    BY <1>11 DEF u

\* A branch, field by field.
LEMMA TestFields ==
    ASSUME NEW x, NEW state, NEW n, NEW how, NEW over
    PROVE  LET s == Test(x, state, n, how, over) IN
               /\ s.op = "when" /\ s.row = x /\ s.amt = n /\ s.was = state
               /\ s.tag = how /\ s.over = over
  BY DEF Test

\* A body that runs only in a state: from G by it, or past it.
LEMMA Branch ==
    ASSUME NEW X, NEW x, NEW state, NEW n, NEW body, NEW G \in SUBSET Standing(X), NEW H,
           NEW I, Leads(X, body, I, H),
           \A l \in G : MayHold(x, state, n, l) => l \in I,
           \A l \in G : MayFail(x, state, n, l) => l \in H
    PROVE  Leads(X, If(x, state, n, body), G, H)
  <1> DEFINE test == Test(x, state, n, "if", Len(body))  s == << test >>  u == s \o body
             K == H \cap Standing(X)
  <1>1. PICK v : IsWalk(X, v, body) /\ I \subseteq v[1] /\ v[Len(body)+1] \subseteq H
    BY DEF Leads
  <1>2. /\ test.op = "when" /\ test.row = x /\ test.amt = n /\ test.was = state
        /\ test.tag = "if" /\ test.over = Len(body)
    BY TestFields
  <1>3. s \in Seq({test}) /\ Len(s) = 1 /\ s[1] = test
    OBVIOUS
  <1> HIDE DEF test, s
  <1>4. /\ IsPiece(u) /\ Len(u) = 1 + Len(body) /\ Len(body) \in Nat
        /\ u[1] = test /\ \A i \in 1..Len(body) : u[1 + i] = body[i]
    <2>1. IsPiece(s) /\ IsPiece(body)
      BY <1>3 DEF Leads, IsPiece
    <2>2. /\ IsPiece(s \o body) /\ Len(s \o body) = Len(s) + Len(body) /\ Len(body) \in Nat
          /\ \A i \in 1..Len(s) : (s \o body)[i] = s[i]
          /\ \A i \in 1..Len(body) : (s \o body)[Len(s) + i] = body[i]
      BY <2>1, PiecesJoin
    <2>3. (s \o body)[1] = test
      BY <1>3, <2>2
    <2> QED
      BY <1>3, <2>2, <2>3
  <1> HIDE DEF u
  <1> DEFINE w == [i \in 1..Len(u)+1 |-> IF i = 1 THEN G
                                         ELSE IF i = Len(u) + 1 THEN K ELSE v[i - 1]]
  <1>5. /\ w[1] = G /\ w[Len(u)+1] = K /\ Len(u) + 1 # 1
        /\ \A j \in 1..Len(body) : w[1 + j] = v[j]
    BY <1>4
  <1>6. w \in [1..Len(u)+1 -> SUBSET Standing(X)]
    <2>1. \A i \in 1..Len(u)+1 : w[i] \in SUBSET Standing(X)
      <3> TAKE i \in 1..Len(u)+1
      <3>1. CASE i = 1
        BY <1>5, <3>1
      <3>2. CASE i = Len(u) + 1
        BY <1>5, <3>2
      <3>3. CASE i # 1 /\ i # Len(u) + 1
        <4>1. i - 1 \in 1..Len(body) /\ 1 + (i - 1) = i
          BY <1>4, <3>3
        <4>2. i - 1 \in 1..Len(body)+1
          BY <1>4, <4>1
        <4> QED
          BY <1>1, <1>5, <4>1, <4>2 DEF IsWalk
      <3> QED
        BY <3>1, <3>2, <3>3
    <2> QED
      BY <2>1
  <1>7. \A j \in 1..Len(body)+1 : v[j] \subseteq w[1 + j]
    <2> TAKE j \in 1..Len(body)+1
    <2>1. CASE j = Len(body) + 1
      <3>1. v[j] \in SUBSET Standing(X) /\ 1 + j = Len(u) + 1
        BY <1>1, <1>4, <2>1 DEF IsWalk
      <3> QED
        BY <1>1, <1>5, <2>1, <3>1
    <2>2. CASE j # Len(body) + 1
      BY <1>4, <1>5, <2>2
    <2> QED
      BY <2>1, <2>2
  <1> HIDE DEF w
  <1>8. StepsOn(X, u, w, 1)
    <2>1. 1 + 1 + test.over = Len(u) + 1 /\ 1 + test.over <= Len(u)
      BY <1>2, <1>4
    <2>2. I \subseteq w[1 + 1]
      <3>1. 1 \in 1..Len(body)+1
        BY <1>4
      <3> QED
        BY <1>1, <1>7, <3>1
    <2>3. \A l \in w[1] : /\ MayEnter(test, l) => l \in w[1 + 1]
                          /\ MaySkip(test, l) => l \in w[Len(u) + 1]
      BY <1>2, <1>5, <2>2 DEF MayEnter, MaySkip
    <2> QED
      BY <1>2, <1>4, <2>1, <2>3 DEF StepsOn
  <1>9. ASSUME NEW i \in 1..Len(u)
        PROVE  StepsOn(X, u, w, i)
    <2>1. CASE i = 1
      BY <1>8, <2>1
    <2>2. CASE i # 1
      <3> DEFINE k == i - 1
      <3>1. k \in 1..Len(body) /\ 1 + k = i
        BY <1>4, <2>2
      <3> HIDE DEF k
      <3>2. \A j \in k+1..Len(body)+1 : v[j] \subseteq w[1 + j]
        <4> TAKE j \in k+1..Len(body)+1
        <4>1. j \in 1..Len(body)+1
          BY <1>4, <3>1
        <4> QED
          BY <1>7, <4>1
      <3>3. StepsOn(X, body, v, k) /\ u[1 + k] = body[k] /\ w[1 + k] = v[k]
        BY <1>1, <1>4, <1>5, <3>1 DEF IsWalk
      <3>4. StepsOn(X, u, w, 1 + k)
        BY <1>4, <3>1, <3>2, <3>3, StepMoves
      <3> QED
        BY <3>1, <3>4
    <2> QED
      BY <2>1, <2>2
  <1>10. Leads(X, u, G, H)
    BY <1>4, <1>5, <1>6, <1>9 DEF Leads, IsWalk
  <1> QED
    BY <1>10 DEF u, s, test, If

\* One body or the other.
LEMMA BranchElse ==
    ASSUME NEW X, NEW x, NEW state, NEW n, NEW body, NEW other,
           NEW G \in SUBSET Standing(X), NEW H, NEW I, NEW J,
           Leads(X, body, I, H), Leads(X, other, J, H),
           \A l \in G : MayHold(x, state, n, l) => l \in I,
           \A l \in G : MayFail(x, state, n, l) => l \in J
    PROVE  Leads(X, IfElse(x, state, n, body, other), G, H)
  <1> DEFINE skip == Test(x, state, n, "skip", Len(other))  t == << skip >>
             b == body \o t
             test == Test(x, state, n, "if", Len(b))  s == << test >>
             f == s \o b  u == f \o other
             K == H \cap Standing(X)  N == Len(body) + 2
  <1>1. PICK v : IsWalk(X, v, body) /\ I \subseteq v[1] /\ v[Len(body)+1] \subseteq H
    BY DEF Leads
  <1>2. PICK z : IsWalk(X, z, other) /\ J \subseteq z[1] /\ z[Len(other)+1] \subseteq H
    BY DEF Leads
  <1>3. /\ test.op = "when" /\ test.row = x /\ test.amt = n /\ test.was = state
        /\ test.tag = "if" /\ test.over = Len(b)
        /\ skip.op = "when" /\ skip.tag = "skip" /\ skip.over = Len(other)
    BY TestFields
  <1>4. /\ s \in Seq({test}) /\ Len(s) = 1 /\ s[1] = test
        /\ t \in Seq({skip}) /\ Len(t) = 1 /\ t[1] = skip
    OBVIOUS
  <1> HIDE DEF test, s, skip, t
  <1>5. IsPiece(s) /\ IsPiece(t) /\ IsPiece(body) /\ IsPiece(other)
    BY <1>4 DEF Leads, IsPiece
  <1>6. /\ IsPiece(b) /\ Len(b) = Len(body) + 1 /\ Len(body) \in Nat
        /\ \A i \in 1..Len(body) : b[i] = body[i]
        /\ b[Len(body) + 1] = skip
    <2>1. /\ IsPiece(b) /\ Len(b) = Len(body) + Len(t) /\ Len(body) \in Nat
          /\ \A i \in 1..Len(body) : b[i] = body[i]
          /\ \A i \in 1..Len(t) : b[Len(body) + i] = t[i]
      BY <1>5, PiecesJoin
    <2> QED
      BY <1>4, <2>1
  <1> HIDE DEF b
  <1>7. /\ IsPiece(f) /\ Len(f) = N /\ f[1] = test
        /\ \A i \in 1..Len(body) : f[1 + i] = body[i]
        /\ f[N] = skip
    <2>1. /\ IsPiece(f) /\ Len(f) = Len(s) + Len(b)
          /\ \A i \in 1..Len(s) : f[i] = s[i]
          /\ \A i \in 1..Len(b) : f[Len(s) + i] = b[i]
      BY <1>5, <1>6, PiecesJoin
    <2>2. f[1] = test /\ Len(f) = N
      BY <1>4, <1>6, <2>1
    <2>3. \A i \in 1..Len(body)+1 : f[1 + i] = b[i]
      BY <1>4, <1>6, <2>1
    <2>4. Len(body) + 1 \in 1..Len(body)+1 /\ 1 + (Len(body) + 1) = N
      BY <1>6
    <2>5. f[N] = skip
      <3>1. f[1 + (Len(body) + 1)] = b[Len(body) + 1]
        BY <2>3, <2>4
      <3> QED
        BY <1>6, <2>4, <3>1
    <2> QED
      BY <1>6, <2>1, <2>2, <2>3, <2>5
  <1> HIDE DEF f
  <1>8. /\ IsPiece(u) /\ Len(u) = N + Len(other) /\ Len(other) \in Nat
        /\ u[1] = test /\ u[N] = skip
        /\ \A i \in 1..Len(body) : u[1 + i] = body[i]
        /\ \A i \in 1..Len(other) : u[N + i] = other[i]
    <2>1. /\ IsPiece(u) /\ Len(u) = Len(f) + Len(other) /\ Len(other) \in Nat
          /\ \A i \in 1..Len(f) : u[i] = f[i]
          /\ \A i \in 1..Len(other) : u[Len(f) + i] = other[i]
      BY <1>5, <1>7, PiecesJoin
    <2>2. u[1] = test /\ u[N] = skip
      BY <1>6, <1>7, <2>1
    <2>3. \A i \in 1..Len(body) : u[1 + i] = body[i]
      BY <1>6, <1>7, <2>1
    <2> QED
      BY <1>7, <2>1, <2>2, <2>3
  <1> HIDE DEF u
  <1> DEFINE w == [i \in 1..Len(u)+1 |->
                     IF i = 1 THEN G ELSE IF i = Len(u) + 1 THEN K
                     ELSE IF i <= N THEN v[i - 1] ELSE z[i - N]]
  <1>9. /\ N \in Nat /\ N > 1 /\ Len(u) + 1 # 1 /\ Len(u) \in Nat
        /\ w[1] = G /\ w[Len(u)+1] = K
        /\ \A j \in 1..Len(body)+1 : w[1 + j] = v[j]
        /\ \A j \in 1..Len(other) : w[N + j] = z[j]
    BY <1>6, <1>8
  <1>10. w \in [1..Len(u)+1 -> SUBSET Standing(X)]
    <2>1. \A i \in 1..Len(u)+1 : w[i] \in SUBSET Standing(X)
      <3> TAKE i \in 1..Len(u)+1
      <3>1. CASE i = 1
        BY <1>9, <3>1
      <3>2. CASE i = Len(u) + 1
        BY <1>9, <3>2
      <3>3. CASE i # 1 /\ i <= N /\ i # Len(u) + 1
        <4>1. i - 1 \in 1..Len(body)+1 /\ 1 + (i - 1) = i
          BY <1>6, <1>8, <3>3
        <4> QED
          BY <1>1, <1>9, <4>1 DEF IsWalk
      <3>4. CASE i > N /\ i # Len(u) + 1
        <4>0. N \in Nat /\ Len(other) \in Nat /\ i <= N + Len(other) /\ i > N /\ i \in Int
          <5>1. N \in Nat /\ Len(other) \in Nat /\ Len(u) = N + Len(other)
            BY <1>8, <1>9
          <5> HIDE DEF N, w
          <5> QED
            BY <5>1, <3>4
        <4>1. i - N \in 1..Len(other) /\ N + (i - N) = i
          <5> HIDE DEF N
          <5> QED
            BY <4>0
        <4>2. i - N \in 1..Len(other)+1
          BY <1>8, <4>1
        <4> QED
          BY <1>2, <1>9, <4>1, <4>2 DEF IsWalk
      <3> QED
        BY <1>9, <3>1, <3>2, <3>3, <3>4
    <2> QED
      BY <2>1
  <1>11. \A j \in 1..Len(other)+1 : z[j] \subseteq w[N + j]
    <2> TAKE j \in 1..Len(other)+1
    <2>1. CASE j = Len(other) + 1
      <3>1. z[j] \in SUBSET Standing(X) /\ N + j = Len(u) + 1
        BY <1>2, <1>6, <1>8, <2>1 DEF IsWalk
      <3> QED
        BY <1>2, <1>9, <2>1, <3>1
    <2>2. CASE j # Len(other) + 1
      BY <1>8, <1>9, <2>2
    <2> QED
      BY <2>1, <2>2
  <1> HIDE DEF w
  <1>12. StepsOn(X, u, w, 1)
    <2>1. 1 + 1 + test.over = N + 1 /\ test.over \in Nat /\ 1 + test.over <= Len(u)
      BY <1>3, <1>6, <1>8
    <2>2. I \subseteq w[1 + 1] /\ J \subseteq w[N + 1]
      <3>1. 1 \in 1..Len(body)+1 /\ 1 \in 1..Len(other)+1
        BY <1>6, <1>8
      <3> QED
        BY <1>1, <1>2, <1>9, <1>11, <3>1
    <2>3. \A l \in w[1] : /\ MayEnter(test, l) => l \in w[1 + 1]
                          /\ MaySkip(test, l) => l \in w[N + 1]
      BY <1>3, <1>9, <2>2 DEF MayEnter, MaySkip
    <2> QED
      BY <1>3, <1>8, <2>1, <2>3 DEF StepsOn
  <1>13. StepsOn(X, u, w, N)
    <2>1. N + 1 + skip.over = Len(u) + 1 /\ skip.over \in Nat /\ N + skip.over <= Len(u)
      BY <1>3, <1>6, <1>8
    <2>2. w[N] \subseteq w[Len(u) + 1]
      <3>1. Len(body) + 1 \in 1..Len(body)+1 /\ 1 + (Len(body) + 1) = N
        BY <1>6
      <3>2. w[N] = v[Len(body) + 1] /\ v[Len(body) + 1] \in SUBSET Standing(X)
        BY <1>1, <1>9, <3>1 DEF IsWalk
      <3> QED
        BY <1>1, <1>9, <3>2
    <2>3. \A l : ~MayEnter(skip, l)
      BY <1>3 DEF MayEnter
    <2> QED
      BY <1>3, <1>8, <2>1, <2>2, <2>3 DEF StepsOn
  <1>14. ASSUME NEW i \in 1..Len(u)
         PROVE  StepsOn(X, u, w, i)
    <2>1. CASE i = 1
      BY <1>12, <2>1
    <2>2. CASE i = N
      BY <1>13, <2>2
    <2>3. CASE i # 1 /\ i < N
      <3> DEFINE k == i - 1
      <3>1. k \in 1..Len(body) /\ 1 + k = i /\ k \in 1..Len(body)+1 /\ k \in Int
        BY <1>6, <1>8, <2>3
      <3> HIDE DEF k
      <3>2. \A j \in k+1..Len(body)+1 : v[j] \subseteq w[1 + j]
        <4> TAKE j \in k+1..Len(body)+1
        <4>1. j \in 1..Len(body)+1
          BY <1>6, <3>1
        <4> QED
          BY <1>9, <4>1
      <3>3. StepsOn(X, body, v, k) /\ u[1 + k] = body[k] /\ w[1 + k] = v[k]
        BY <1>1, <1>8, <1>9, <3>1 DEF IsWalk
      <3>4. 1 + Len(body) <= Len(u) /\ 1 \in Int /\ 1 >= 0 /\ w[1 + k] \subseteq v[k]
        BY <1>6, <1>8, <3>3
      <3>5. StepsOn(X, u, w, 1 + k)
        BY <1>6, <1>9, <3>1, <3>2, <3>3, <3>4, StepMoves
      <3> QED
        BY <3>1, <3>5
    <2>4. CASE i > N
      <3> DEFINE k == i - N
      <3>1. k \in 1..Len(other) /\ N + k = i /\ k \in 1..Len(other)+1 /\ k \in Int
        BY <1>6, <1>8, <1>9, <2>4
      <3> HIDE DEF k
      <3>2. \A j \in k+1..Len(other)+1 : z[j] \subseteq w[N + j]
        <4> TAKE j \in k+1..Len(other)+1
        <4>1. j \in 1..Len(other)+1
          BY <1>8, <3>1
        <4> QED
          BY <1>11, <4>1
      <3>3. StepsOn(X, other, z, k) /\ u[N + k] = other[k] /\ w[N + k] = z[k]
        BY <1>2, <1>8, <1>9, <3>1 DEF IsWalk
      <3>4. N + Len(other) <= Len(u) /\ N \in Int /\ N >= 0 /\ w[N + k] \subseteq z[k]
        BY <1>8, <1>9, <3>3
      <3> HIDE DEF N
      <3>5. StepsOn(X, u, w, N + k)
        BY <1>8, <1>9, <3>1, <3>2, <3>3, <3>4, StepMoves
      <3> QED
        BY <3>1, <3>5
    <2> QED
      BY <1>9, <2>1, <2>2, <2>3, <2>4
  <1>15. Leads(X, u, G, H)
    BY <1>8, <1>9, <1>10, <1>14 DEF Leads, IsWalk
  <1> QED
    BY <1>15 DEF u, f, b, s, t, test, skip, If, IfElse
-----------------------------------------------------------------------------
(* The logic is sound. *)

\* A row that nobody has locked has no draft of its own.
Unlocked ==
    /\ \A a \in Accounts : owner[a] = NoOne => draft[a] = row[a]
    /\ \A d \in Docs : owner[d] = NoOne => docDraft[d] = doc[d]

\* The step is r's: what others have locked, inserted or told stays.
StepOf(r) ==
    /\ \A q \in Requests \ {r} :
         /\ \A x \in Rows : owner'[x] = q <=> owner[x] = q
         /\ \A a \in Accounts : owner[a] = q => row'[a] = row[a] /\ draft'[a] = draft[a]
         /\ \A d \in Docs : owner[d] = q => doc'[d] = doc[d] /\ docDraft'[d] = docDraft[d]
         /\ pend'[q] = pend[q] /\ seen'[q] = seen[q] /\ net'[q] = net[q] /\ gl'[q] = gl[q]
         /\ task'[q] = task[q] /\ pc'[q] = pc[q] /\ outcome'[q] = outcome[q]

\* What an open transaction has done is a standing.
LEMMA StandingType ==
    ASSUME TypeOK, NEW X \in SUBSET Rows, NEW r \in Requests
    PROVE  StandingOf(X, r) \in Standing(X)
  <1>1. Absent \in STRING /\ NoRow \in AccountRow
    <2>1. [m \in Meters |-> 0] \in [Meters -> Int]
      OBVIOUS
    <2>2. NoRow \in AccountRow
      BY <2>1 DEF NoRow, AccountRow
    <2> QED
      BY <2>2, RowsAssumption
  <1>2. {x \in X : owner[x] = r} \in SUBSET X
    OBVIOUS
  <1>3. /\ [d \in X \cap Docs |-> IF owner[d] = r THEN doc[d] ELSE Absent]
             \in [X \cap Docs -> STRING]
        /\ [d \in X \cap Docs |-> IF owner[d] = r THEN docDraft[d] ELSE Absent]
             \in [X \cap Docs -> STRING]
    BY <1>1 DEF TypeOK
  <1>4. /\ [a \in X \cap Accounts |-> IF owner[a] = r THEN row[a] ELSE NoRow]
             \in [X \cap Accounts -> AccountRow]
        /\ [a \in X \cap Accounts |-> IF owner[a] = r THEN draft[a] ELSE NoRow]
             \in [X \cap Accounts -> AccountRow]
    BY <1>1 DEF TypeOK
  <1>5. pend[r] \in [Accounts -> Int] /\ seen[r] \in Int /\ net[r] \in Int /\ gl[r] \in Int
    BY DEF TypeOK
  <1> QED
    BY <1>2, <1>3, <1>4, <1>5 DEF StandingOf, Standing

\* No step of another request changes it.
LEMMA OthersStand ==
    ASSUME NEW X \in SUBSET Rows, NEW r \in Requests, StepOf(r), NEW q \in Requests \ {r}
    PROVE  StandingOf(X, q)' = StandingOf(X, q)
  <1>1. {x \in X : owner'[x] = q} = {x \in X : owner[x] = q}
    BY DEF StepOf
  <1>2. /\ [d \in X \cap Docs |-> IF owner'[d] = q THEN doc'[d] ELSE Absent]
             = [d \in X \cap Docs |-> IF owner[d] = q THEN doc[d] ELSE Absent]
        /\ [d \in X \cap Docs |-> IF owner'[d] = q THEN docDraft'[d] ELSE Absent]
             = [d \in X \cap Docs |-> IF owner[d] = q THEN docDraft[d] ELSE Absent]
    BY DEF StepOf, Rows
  <1>3. /\ [a \in X \cap Accounts |-> IF owner'[a] = q THEN row'[a] ELSE NoRow]
             = [a \in X \cap Accounts |-> IF owner[a] = q THEN row[a] ELSE NoRow]
        /\ [a \in X \cap Accounts |-> IF owner'[a] = q THEN draft'[a] ELSE NoRow]
             = [a \in X \cap Accounts |-> IF owner[a] = q THEN draft[a] ELSE NoRow]
    BY DEF StepOf, Rows
  <1>4. pend'[q] = pend[q] /\ seen'[q] = seen[q] /\ net'[q] = net[q] /\ gl'[q] = gl[q]
    BY DEF StepOf
  <1> QED
    BY <1>1, <1>2, <1>3, <1>4 DEF StandingOf

\* The end of a transaction touches its own locks and entries only.
LEMMA FinishIsOf ==
    ASSUME TypeOK, NEW r \in Requests, NEW how, Finish(r, how)
    PROVE  /\ \A q \in Requests \ {r} :
                /\ \A x \in Rows : owner'[x] = q <=> owner[x] = q
                /\ pend'[q] = pend[q] /\ seen'[q] = seen[q] /\ net'[q] = net[q]
                /\ task'[q] = task[q] /\ pc'[q] = pc[q] /\ outcome'[q] = outcome[q]
           /\ \A x \in Rows : owner'[x] = NoOne <=> owner[x] \in {r, NoOne}
  BY NamesAssumption DEF TypeOK, Finish

\* A rollback is a step of its own request, and leaves no draft behind.
LEMMA RollbackIsOf ==
    ASSUME TypeOK, Unlocked, NEW r \in Requests, NEW how, Rollback(r, how),
           \A q \in Requests \ {r} : gl'[q] = gl[q]
    PROVE  StepOf(r) /\ Unlocked'
  <1>1. Finish(r, how)
    BY DEF Rollback
  <1>2. /\ row' = row /\ doc' = doc
        /\ \A a \in Accounts : draft'[a] = IF owner[a] = r THEN row[a] ELSE draft[a]
        /\ \A d \in Docs : docDraft'[d] = IF owner[d] = r THEN doc[d] ELSE docDraft[d]
    BY DEF Rollback
  <1>3. StepOf(r)
    BY <1>1, <1>2, FinishIsOf DEF StepOf
  <1>4. Unlocked'
    BY <1>1, <1>2, FinishIsOf DEF Unlocked, Rows
  <1> QED
    BY <1>3, <1>4

\* So is a commit.
LEMMA CommitIsOf ==
    ASSUME TypeOK, Unlocked, NEW r \in Requests, Commit(r)
    PROVE  StepOf(r) /\ Unlocked'
  <1>1. Finish(r, "posted")
    BY DEF Commit
  <1>2. /\ draft' = draft /\ docDraft' = docDraft /\ gl' = gl
        /\ \A a \in Accounts : row'[a] = IF owner[a] = r THEN draft[a] ELSE row[a]
        /\ \A d \in Docs : doc'[d] = IF owner[d] = r THEN docDraft[d] ELSE doc[d]
    BY DEF Commit
  <1>3. StepOf(r)
    BY <1>1, <1>2, FinishIsOf DEF StepOf
  <1>4. Unlocked'
    BY <1>1, <1>2, FinishIsOf DEF Unlocked, Rows
  <1> QED
    BY <1>3, <1>4

\* A step of r that changes no row.
LEMMA QuietIsOf ==
    ASSUME TypeOK, Unlocked, NEW r \in Requests,
           \A q \in Requests \ {r} :
               /\ seen'[q] = seen[q] /\ net'[q] = net[q] /\ gl'[q] = gl[q]
               /\ task'[q] = task[q] /\ pc'[q] = pc[q] /\ outcome'[q] = outcome[q],
           UNCHANGED sql
    PROVE  StepOf(r) /\ Unlocked'
  BY DEF StepOf, Unlocked, sql

\* A step of r that locks the row x and changes its draft.
LEMMA AccountIsOf ==
    ASSUME TypeOK, Unlocked, NEW r \in Requests, NEW x \in Accounts, Free(r, x),
           owner' = [owner EXCEPT ![x] = r],
           \A a \in Accounts \ {x} : draft'[a] = draft[a],
           \A q \in Requests \ {r} :
               /\ pend'[q] = pend[q] /\ seen'[q] = seen[q] /\ net'[q] = net[q] /\ gl'[q] = gl[q]
               /\ task'[q] = task[q] /\ pc'[q] = pc[q] /\ outcome'[q] = outcome[q],
           UNCHANGED <<row, doc, docDraft>>
    PROVE  StepOf(r) /\ Unlocked'
  <1>1. x \in Rows /\ x \notin Docs
    BY NamesAssumption DEF Rows
  <1>2. \A y \in Rows : owner'[y] = IF y = x THEN r ELSE owner[y]
    BY DEF TypeOK
  <1>3. r # NoOne /\ owner[x] \in {NoOne, r}
    BY NamesAssumption DEF Free
  <1>4. StepOf(r)
    BY <1>1, <1>2, <1>3, NamesAssumption DEF StepOf, Rows
  <1>5. Unlocked'
    BY <1>1, <1>2, <1>3 DEF Unlocked, Rows
  <1> QED
    BY <1>4, <1>5

\* So is a change of status rows.
LEMMA DocIsOf ==
    ASSUME TypeOK, Unlocked, NEW r \in Requests, NEW W \in SUBSET Docs,
           \A x \in W : Free(r, x),
           \A x \in Rows : owner'[x] = IF x \in W THEN r ELSE owner[x],
           \A d \in Docs \ W : docDraft'[d] = docDraft[d],
           \A q \in Requests \ {r} :
               /\ seen'[q] = seen[q] /\ net'[q] = net[q] /\ gl'[q] = gl[q]
               /\ task'[q] = task[q] /\ pc'[q] = pc[q] /\ outcome'[q] = outcome[q],
           UNCHANGED <<row, draft, doc, pend>>
    PROVE  StepOf(r) /\ Unlocked'
  <1>1. W \subseteq Rows /\ W \cap Accounts = {}
    BY NamesAssumption DEF Rows
  <1>3. r # NoOne /\ \A x \in W : owner[x] \in {NoOne, r}
    BY NamesAssumption DEF Free
  <1>4. StepOf(r)
    BY <1>1, <1>3, NamesAssumption DEF StepOf, Rows
  <1>5. Unlocked'
    BY <1>1, <1>3 DEF Unlocked, Rows
  <1> QED
    BY <1>4, <1>5

\* What a step of r that leaves the rows alone makes of its standing.
LEMMA QuietStands ==
    ASSUME NEW X \in SUBSET Rows, NEW r \in Requests, UNCHANGED sql
    PROVE  LET l == StandingOf(X, r)  m == StandingOf(X, r)' IN
           /\ SameLocks(l, m) /\ m.posts = l.posts
           /\ m.seen = seen'[r] /\ m.net = net'[r] /\ m.told = gl'[r]
           /\ l.seen = seen[r] /\ l.net = net[r] /\ l.told = gl[r]
  BY DEF StandingOf, sql, SameLocks, SameDocs, SameRows

\* Standings with the same parts are the same.
LEMMA SameStanding ==
    ASSUME NEW X, NEW l \in Standing(X), NEW m \in Standing(X),
           SameLocks(l, m), SameSums(l, m), m.posts = l.posts, m.seen = l.seen
    PROVE  m = l
  BY DEF Standing, SameLocks, SameDocs, SameRows, SameSums

\* What a step of r that locks account a, and changes its draft, makes of r's standing.
AccountTaken(X, r, a) ==
    LET l == StandingOf(X, r)  m == StandingOf(X, r)' IN
        /\ SameDocs(l, m) /\ SameSums(l, m) /\ m.seen = seen'[r] /\ m.posts = pend'[r]
        /\ l.seen = seen[r] /\ l.posts = pend[r] /\ l.net = net[r]
        /\ a \in X => TakesRow(l, m, a, row[a], draft'[a])
        /\ a \notin X => m.own = l.own /\ SameRows(l, m)
        /\ a \in l.own => a \in X /\ l.row[a] = row[a] /\ l.draft[a] = draft[a]
                           /\ View(r, a) = draft[a]
        /\ a \in X /\ a \notin l.own => draft[a] = row[a] /\ View(r, a) = row[a]

\* The drafts of a transaction, when it locks and changes one row more.
LEMMA ChangedAt ==
    ASSUME NEW A, NEW x \in A, NEW f, NEW g, NEW u, NEW v, NEW r, NEW c,
           \A b \in A : v[b] = IF b = x THEN r ELSE u[b],
           \A b \in A : b # x => g[b] = f[b]
    PROVE  [b \in A |-> IF v[b] = r THEN g[b] ELSE c]
             = [[b \in A |-> IF u[b] = r THEN f[b] ELSE c] EXCEPT ![x] = g[x]]
  OBVIOUS

\* The standing of a transaction that takes an account.
LEMMA AccountStands ==
    ASSUME TypeOK, Unlocked, NEW X \in SUBSET Rows, NEW r \in Requests, NEW a \in Accounts,
           Free(r, a), owner' = [owner EXCEPT ![a] = r],
           \A b \in Accounts \ {a} : draft'[b] = draft[b],
           net' = net, gl' = gl, UNCHANGED <<row, doc, docDraft>>
    PROVE  AccountTaken(X, r, a)
  <1> DEFINE l == StandingOf(X, r)  m == StandingOf(X, r)'
  <1>1. a \in Rows /\ a \notin Docs /\ r # NoOne /\ owner[a] \in {NoOne, r}
    BY NamesAssumption DEF Rows, Free
  <1>2. \A y \in Rows : owner'[y] = IF y = a THEN r ELSE owner[y]
    BY <1>1 DEF TypeOK
  <1>3. m.own = IF a \in X THEN l.own \cup {a} ELSE l.own
    BY <1>1, <1>2 DEF StandingOf
  <1>4. SameDocs(l, m)
    BY <1>1, <1>2 DEF StandingOf, Rows, SameDocs
  <1>5. SameSums(l, m) /\ m.seen = seen'[r] /\ m.posts = pend'[r]
        /\ l.seen = seen[r] /\ l.posts = pend[r] /\ l.net = net[r]
    BY DEF StandingOf, SameSums
  <1>6. a \in X => /\ m.row = [l.row EXCEPT ![a] = row[a]]
                  /\ m.draft = [l.draft EXCEPT ![a] = draft'[a]]
    <2> SUFFICES ASSUME a \in X PROVE /\ m.row = [l.row EXCEPT ![a] = row[a]]
                                     /\ m.draft = [l.draft EXCEPT ![a] = draft'[a]]
      OBVIOUS
    <2> DEFINE A == X \cap Accounts
    <2>1. /\ m.row = [b \in A |-> IF owner'[b] = r THEN row[b] ELSE NoRow]
          /\ l.row = [b \in A |-> IF owner[b] = r THEN row[b] ELSE NoRow]
          /\ m.draft = [b \in A |-> IF owner'[b] = r THEN draft'[b] ELSE NoRow]
          /\ l.draft = [b \in A |-> IF owner[b] = r THEN draft[b] ELSE NoRow]
      BY DEF StandingOf
    <2>2. \A b \in A : owner'[b] = IF b = a THEN r ELSE owner[b]
      BY <1>2 DEF Rows
    <2>3. \A b \in A : b # a => draft'[b] = draft[b]
      OBVIOUS
    <2> HIDE DEF l, m
    <2>4. a \in A
      OBVIOUS
    <2> HIDE DEF A
    <2>5. m.row = [l.row EXCEPT ![a] = row[a]]
      BY <2>1, <2>2, <2>4
    <2>6. m.draft = [l.draft EXCEPT ![a] = draft'[a]]
      BY <2>1, <2>2, <2>3, <2>4, ChangedAt
    <2> QED
      BY <2>5, <2>6
  <1>7. a \notin X => SameRows(l, m)
    BY <1>1, <1>2 DEF StandingOf, Rows, SameRows
  <1>8. /\ a \in l.own => a \in X /\ l.row[a] = row[a] /\ l.draft[a] = draft[a]
                              /\ View(r, a) = draft[a]
        /\ a \in X /\ a \notin l.own => draft[a] = row[a] /\ View(r, a) = row[a]
    BY <1>1 DEF StandingOf, Unlocked, View
  <1> QED
    BY <1>3, <1>4, <1>5, <1>6, <1>7, <1>8 DEF TakesRow, AccountTaken

DocTaken(X, r, d) ==
    LET l == StandingOf(X, r)  m == StandingOf(X, r)' IN
        /\ SameRows(l, m) /\ SameSums(l, m) /\ m.posts = l.posts /\ m.seen = l.seen
        /\ d \in X => TakesDoc(l, m, d, doc[d], docDraft'[d])
        /\ d \notin X => m.own = l.own /\ SameDocs(l, m)
        /\ d \in l.own => d \in X /\ l.was[d] = doc[d] /\ l.now[d] = docDraft[d]
                           /\ DocView(r, d) = docDraft[d]
        /\ d \in X /\ d \notin l.own => docDraft[d] = doc[d] /\ DocView(r, d) = doc[d]

\* The standing of a transaction that takes a status row.
LEMMA DocStands ==
    ASSUME TypeOK, Unlocked, NEW X \in SUBSET Rows, NEW r \in Requests, NEW d \in Docs,
           Free(r, d), owner' = [owner EXCEPT ![d] = r],
           \A b \in Docs \ {d} : docDraft'[b] = docDraft[b],
           UNCHANGED <<row, draft, doc, pend, seen, net, gl>>
    PROVE  DocTaken(X, r, d)
  <1> DEFINE l == StandingOf(X, r)  m == StandingOf(X, r)'
  <1>1. d \in Rows /\ d \notin Accounts /\ r # NoOne /\ owner[d] \in {NoOne, r}
    BY NamesAssumption DEF Rows, Free
  <1>2. \A y \in Rows : owner'[y] = IF y = d THEN r ELSE owner[y]
    BY <1>1 DEF TypeOK
  <1>3. m.own = IF d \in X THEN l.own \cup {d} ELSE l.own
    BY <1>1, <1>2 DEF StandingOf
  <1>4. SameRows(l, m)
    BY <1>1, <1>2 DEF StandingOf, Rows, SameRows
  <1>5. SameSums(l, m) /\ m.seen = l.seen /\ m.posts = l.posts
    BY DEF StandingOf, SameSums
  <1>6. d \in X => /\ m.was = [l.was EXCEPT ![d] = doc[d]]
                  /\ m.now = [l.now EXCEPT ![d] = docDraft'[d]]
    <2> SUFFICES ASSUME d \in X PROVE /\ m.was = [l.was EXCEPT ![d] = doc[d]]
                                     /\ m.now = [l.now EXCEPT ![d] = docDraft'[d]]
      OBVIOUS
    <2> DEFINE D == X \cap Docs
    <2>1. /\ m.was = [b \in D |-> IF owner'[b] = r THEN doc[b] ELSE Absent]
          /\ l.was = [b \in D |-> IF owner[b] = r THEN doc[b] ELSE Absent]
          /\ m.now = [b \in D |-> IF owner'[b] = r THEN docDraft'[b] ELSE Absent]
          /\ l.now = [b \in D |-> IF owner[b] = r THEN docDraft[b] ELSE Absent]
      BY DEF StandingOf
    <2>2. \A b \in D : owner'[b] = IF b = d THEN r ELSE owner[b]
      BY <1>2 DEF Rows
    <2>3. \A b \in D : b # d => docDraft'[b] = docDraft[b]
      OBVIOUS
    <2> HIDE DEF l, m
    <2>4. d \in D
      OBVIOUS
    <2> HIDE DEF D
    <2>5. m.was = [l.was EXCEPT ![d] = doc[d]]
      BY <2>1, <2>2, <2>4
    <2>6. m.now = [l.now EXCEPT ![d] = docDraft'[d]]
      BY <2>1, <2>2, <2>3, <2>4, ChangedAt
    <2> QED
      BY <2>5, <2>6
  <1>7. d \notin X => SameDocs(l, m)
    BY <1>1, <1>2 DEF StandingOf, Rows, SameDocs
  <1>8. /\ d \in l.own => d \in X /\ l.was[d] = doc[d] /\ l.now[d] = docDraft[d]
                              /\ DocView(r, d) = docDraft[d]
        /\ d \in X /\ d \notin l.own => docDraft[d] = doc[d] /\ DocView(r, d) = doc[d]
    BY <1>1 DEF StandingOf, Unlocked, DocView
  <1> QED
    BY <1>3, <1>4, <1>5, <1>6, <1>7, <1>8 DEF TakesDoc, DocTaken
-----------------------------------------------------------------------------
\* A statement has taken effect, and its request goes on to the next one.
Ran(X, r) ==
    /\ Advance(r) /\ Upcoming(r).op \notin {"when", "commit"}
    /\ Does(X, Upcoming(r), StandingOf(X, r), StandingOf(X, r)')

GaveUp(r) ==
    /\ \E how \in {"refused", "replayed", "failed", "tripped"} : Rollback(r, how)
    /\ \A q \in Requests \ {r} : gl'[q] = gl[q]

\* The amount of a statement is the one its standing gives.
LEMMA AmountStands ==
    ASSUME NEW X, NEW r
    PROVE  AmountIn(Upcoming(r), StandingOf(X, r)) = Amount(r)
  BY DEF AmountIn, StandingOf, Amount

\* To go on to the next statement is a step of its own request.
LEMMA AdvanceIsOf ==
    ASSUME TypeOK, NEW r \in Requests, Advance(r)
    PROVE  \A q \in Requests \ {r} :
               task'[q] = task[q] /\ pc'[q] = pc[q] /\ outcome'[q] = outcome[q]
  BY DEF Advance, TypeOK

\* A transaction reads its own draft of a row it has locked.
LEMMA OwnView ==
    ASSUME Unlocked, NEW X \in SUBSET Rows, NEW r \in Requests,
           NEW a \in Accounts, a \in StandingOf(X, r).own
    PROVE  View(r, a) = StandingOf(X, r).draft[a]
  BY DEF StandingOf, View

\* And of a status row.
LEMMA OwnDocView ==
    ASSUME Unlocked, NEW X \in SUBSET Rows, NEW r \in Requests,
           NEW d \in Docs, d \in StandingOf(X, r).own
    PROVE  DocView(r, d) = StandingOf(X, r).now[d]
  BY DEF StandingOf, DocView

\* The checks, and what reads or adds up without a lock.
LEMMA ChecksRun ==
    ASSUME TypeOK, Unlocked, NEW X \in SUBSET Rows, NEW r \in Open,
           Funds(r) \/ WithinLimit(r) \/ Expect(r) \/ Find(r)
    PROVE  StepOf(r) /\ Unlocked' /\ (Ran(X, r) \/ GaveUp(r))
  <1> DEFINE s == Upcoming(r)  l == StandingOf(X, r)  m == StandingOf(X, r)'
  <1>1. r \in Requests /\ l \in Standing(X) /\ s \in Statement
    BY UpcomingStatement, StandingType
  <1>2. s.op \in {"funds", "limit", "expect", "find"} /\ gl' = gl
    BY DEF Funds, WithinLimit, Expect, Find, At, Require
  <1>3. \/ Advance(r) /\ UNCHANGED <<sql, seen, net>>
           /\ (s.op = "funds" => View(r, s.row).avail >= Amount(r))
        \/ Rollback(r, "refused") \/ Rollback(r, "replayed")
    BY DEF Funds, WithinLimit, Expect, Find, At, Require
  <1>4. ASSUME Advance(r), UNCHANGED <<sql, seen, net>>,
               s.op = "funds" => View(r, s.row).avail >= Amount(r)
        PROVE  StepOf(r) /\ Unlocked' /\ Ran(X, r)
    <2>1. StepOf(r) /\ Unlocked'
      BY <1>1, <1>2, <1>4, AdvanceIsOf, QuietIsOf
    <2>2. SameLocks(l, m) /\ m.posts = l.posts /\ SameSums(l, m) /\ m.seen = l.seen
      BY <1>1, <1>2, <1>4, QuietStands DEF SameSums
    <2>3. m \in Standing(X)
      BY <1>2, <1>4, <1>1, StandingType DEF StandingOf, sql
    <2>4. m = l
      BY <1>1, <2>2, <2>3, SameStanding
    <2>5. s.op = "funds" => (s.row \in l.own => l.draft[s.row].avail >= AmountIn(s, l))
      <3> SUFFICES ASSUME s.op = "funds", s.row \in l.own
                   PROVE  l.draft[s.row].avail >= AmountIn(s, l)
        OBVIOUS
      <3>1. s.row \in Accounts
        BY <1>1, AccountStatement DEF AccountOps
      <3> QED
        BY <1>1, <1>4, <3>1, OwnView, AmountStands
    <2>6. Does(X, s, l, m)
      BY <1>2, <2>4, <2>5 DEF Does
    <2> QED
      BY <1>2, <1>4, <2>1, <2>6 DEF Ran
  <1>5. ASSUME NEW how \in {"refused", "replayed"}, Rollback(r, how)
        PROVE  StepOf(r) /\ Unlocked' /\ GaveUp(r)
    BY <1>1, <1>2, <1>5, RollbackIsOf DEF GaveUp
  <1> QED
    BY <1>3, <1>4, <1>5

\* The statements that read an amount or tell the core of one.
LEMMA SumsRun ==
    ASSUME TypeOK, Unlocked, NEW X \in SUBSET Rows, NEW r \in Open,
           TriggerRead(r) \/ NetOut(r) \/ Tally(r) \/ PostGL(r)
    PROVE  StepOf(r) /\ Unlocked' /\ (Ran(X, r) \/ GaveUp(r))
  <1> DEFINE s == Upcoming(r)  l == StandingOf(X, r)  m == StandingOf(X, r)'
  <1>1. r \in Requests /\ s \in Statement /\ Amount(r) \in Int
    BY UpcomingStatement, AmountType
  <1>2. s.op \in {"read", "net", "tally", "gl"}
    BY DEF TriggerRead, NetOut, Tally, PostGL, At
  <1>3. \A q \in Requests \ {r} : seen'[q] = seen[q] /\ net'[q] = net[q] /\ gl'[q] = gl[q]
    BY <1>1 DEF TriggerRead, NetOut, Tally, PostGL, Rollback, Finish, TypeOK
  <1>4. s.op \in AccountOps => s.row \in Accounts
    BY <1>1, AccountStatement
  <1>5. ASSUME Advance(r), UNCHANGED sql,
               m.posts = l.posts /\ SameLocks(l, m) => Does(X, s, l, m)
        PROVE  StepOf(r) /\ Unlocked' /\ Ran(X, r)
    <2>1. StepOf(r) /\ Unlocked'
      BY <1>1, <1>3, <1>5, AdvanceIsOf, QuietIsOf
    <2>2. SameLocks(l, m) /\ m.posts = l.posts
      BY <1>1, <1>5, QuietStands
    <2> QED
      BY <1>2, <1>5, <2>1, <2>2 DEF Ran
  <1>6. ASSUME NEW how \in {"refused", "failed"}, Rollback(r, how)
        PROVE  StepOf(r) /\ Unlocked' /\ GaveUp(r)
    BY <1>1, <1>3, <1>6, RollbackIsOf DEF GaveUp
  <1>7. /\ m.seen = seen'[r] /\ m.net = net'[r] /\ m.told = gl'[r]
        /\ l.seen = seen[r] /\ l.net = net[r] /\ l.told = gl[r]
    BY DEF StandingOf
  <1>8. seen[r] \in Int /\ net[r] \in Int /\ gl[r] \in Int /\ AmountIn(s, l) = Amount(r)
    BY <1>1, AmountStands DEF TypeOK
  <1>9. s.op \in {"read", "net"} /\ s.row \in l.own => View(r, s.row) = l.draft[s.row]
    BY <1>1, <1>4, OwnView DEF AccountOps
  <1> HIDE DEF l, m
  <1>10. CASE TriggerRead(r)
    <2>1. /\ s.op = "read" /\ Advance(r) /\ UNCHANGED <<sql, net, gl>>
          /\ seen'[r] = View(r, s.row).bal
      BY <1>1, <1>10 DEF TriggerRead, At, TypeOK
    <2>2. m.posts = l.posts /\ SameLocks(l, m) => Does(X, s, l, m)
      BY <1>7, <1>9, <2>1 DEF Does, SameSums
    <2> QED
      BY <1>5, <2>1, <2>2
  <1>11. CASE NetOut(r)
    <2>1. CASE -View(r, s.row).bal > 0
      <3>1. /\ s.op = "net" /\ Advance(r) /\ UNCHANGED <<sql, seen, gl>>
            /\ net'[r] = -View(r, s.row).bal
        BY <1>1, <1>11, <2>1 DEF NetOut, At, TypeOK
      <3>2. m.posts = l.posts /\ SameLocks(l, m) => Does(X, s, l, m)
        BY <1>7, <1>9, <2>1, <3>1 DEF Does
      <3> QED
        BY <1>5, <3>1, <3>2
    <2>2. CASE ~(-View(r, s.row).bal > 0)
      BY <1>6, <1>11, <2>2 DEF NetOut
    <2> QED
      BY <2>1, <2>2
  <1>12. CASE Tally(r)
    <2>1. /\ s.op = "tally" /\ Advance(r) /\ UNCHANGED <<sql, seen, gl>>
          /\ net'[r] = net[r] + s.amt
      BY <1>1, <1>12 DEF Tally, At, TypeOK
    <2>2. m.posts = l.posts /\ SameLocks(l, m) => Does(X, s, l, m)
      BY <1>7, <1>8, <2>1 DEF Does
    <2> QED
      BY <1>5, <2>1, <2>2
  <1>13. CASE PostGL(r)
    <2>1. s.op = "gl"
      BY <1>13 DEF PostGL, At
    <2>2. \/ /\ Advance(r) /\ UNCHANGED <<sql, seen, net>>
             /\ gl'[r] = gl[r] + Amount(r)
          \/ Rollback(r, "failed")
      <3>1. CASE s.tag = ByNet /\ net[r] = 0
        <4>1. Amount(r) = 0
          <5>1. s.amt \in Int
            BY <1>1 DEF Statement
          <5> QED
            BY <3>1, <5>1 DEF Amount
        <4> QED
          BY <1>8, <1>13, <3>1, <4>1 DEF PostGL
      <3>2. CASE ~(s.tag = ByNet /\ net[r] = 0)
        <4>1. \/ /\ Advance(r) /\ UNCHANGED <<sql, seen, net>>
                 /\ gl' = [gl EXCEPT ![r] = @ + Amount(r)]
              \/ Rollback(r, "failed")
          BY <1>13, <3>2 DEF PostGL
        <4> QED
          BY <1>1, <4>1 DEF TypeOK
      <3> QED
        BY <3>1, <3>2
    <2>3. CASE Rollback(r, "failed")
      BY <1>6, <2>3
    <2>4. CASE Advance(r) /\ UNCHANGED <<sql, seen, net>> /\ gl'[r] = gl[r] + Amount(r)
      <3>1. m.posts = l.posts /\ SameLocks(l, m) => Does(X, s, l, m)
        BY <1>7, <1>8, <2>1, <2>4 DEF Does
      <3> QED
        BY <1>5, <2>4, <3>1
    <2> QED
      BY <2>2, <2>3, <2>4
  <1> QED
    BY <1>10, <1>11, <1>12, <1>13
-----------------------------------------------------------------------------
\* A statement of r that locks account a and makes x of it.
Touches(r, a, x, n) ==
    /\ Free(r, a) /\ Advance(r)
    /\ owner' = [owner EXCEPT ![a] = r]
    /\ draft'[a] = x /\ \A b \in Accounts \ {a} : draft'[b] = draft[b]
    /\ pend' = [pend EXCEPT ![r][a] = @ + n]
    /\ seen'[r] = SeenAfter(Upcoming(r), [seen |-> seen[r]])
    /\ \A q \in Requests \ {r} : seen'[q] = seen[q]
    /\ net' = net /\ gl' = gl /\ UNCHANGED <<row, doc, docDraft>>

\* A statement that takes an account does to the standing what Does says.
LEMMA TouchRuns ==
    ASSUME TypeOK, Unlocked, NEW X \in SUBSET Rows, NEW r \in Open,
           Upcoming(r).op \in AccountWrites,
           NEW a \in Accounts, a = Upcoming(r).row, NEW x, NEW n \in Int, Touches(r, a, x, n),
           n = (IF Upcoming(r).op = "write" THEN Amount(r) ELSE 0),
           x = RowAfter(Upcoming(r), StandingOf(X, r), View(r, a))
    PROVE  StepOf(r) /\ Unlocked' /\ Ran(X, r)
  <1> DEFINE s == Upcoming(r)  l == StandingOf(X, r)  m == StandingOf(X, r)'
  <1>1. r \in Requests /\ s \in Statement /\ a \in Accounts
    BY UpcomingStatement
  <1>2. /\ Free(r, a) /\ Advance(r) /\ owner' = [owner EXCEPT ![a] = r]
        /\ draft'[a] = x /\ \A b \in Accounts \ {a} : draft'[b] = draft[b]
        /\ pend' = [pend EXCEPT ![r][a] = @ + n]
        /\ \A q \in Requests \ {r} : seen'[q] = seen[q]
        /\ net' = net /\ gl' = gl /\ UNCHANGED <<row, doc, docDraft>>
        /\ seen'[r] = IF s.op = "lock" THEN seen[r] ELSE 0
    BY DEF Touches, SeenAfter
  <1>3. StepOf(r) /\ Unlocked'
    <2>1. \A q \in Requests \ {r} : pend'[q] = pend[q]
      BY <1>1, <1>2 DEF TypeOK
    <2> QED
      BY <1>1, <1>2, <2>1, AdvanceIsOf, AccountIsOf
  <1>4. pend'[r] = [pend[r] EXCEPT ![a] = @ + n]
    BY <1>1, <1>2 DEF TypeOK
  <1>5. /\ SameDocs(l, m) /\ SameSums(l, m) /\ m.seen = seen'[r] /\ m.posts = pend'[r]
        /\ l.seen = seen[r] /\ l.posts = pend[r] /\ l.net = net[r]
        /\ a \in X => TakesRow(l, m, a, row[a], draft'[a])
        /\ a \notin X => m.own = l.own /\ SameRows(l, m)
        /\ a \in l.own => a \in X /\ l.row[a] = row[a] /\ l.draft[a] = draft[a]
                           /\ View(r, a) = draft[a]
        /\ a \in X /\ a \notin l.own => draft[a] = row[a] /\ View(r, a) = row[a]
    <2>1. AccountTaken(X, r, a)
      BY <1>1, <1>2, AccountStands
    <2> QED
      BY <2>1 DEF AccountTaken
  <1>6. AmountIn(s, l) = Amount(r)
    BY AmountStands
  <1>7. row[a] \in AccountRow /\ pend[r] \in [Accounts -> Int]
    BY <1>1 DEF TypeOK
  <1>8. x = RowAfter(s, l, View(r, a))
    OBVIOUS
  <1> HIDE DEF l, m, s
  <1>9. m.posts = PostsAfter(s, l)
    <2>1. CASE s.op = "write"
      BY <1>4, <1>5, <1>6, <2>1 DEF PostsAfter, s
    <2>2. CASE s.op # "write"
      <3>1. n = 0
        BY <2>2 DEF s
      <3>2. pend'[r] = pend[r]
        BY <1>1, <1>4, <1>7, <3>1
      <3> QED
        BY <1>5, <2>2, <3>2 DEF PostsAfter
    <2> QED
      BY <2>1, <2>2
  <1>10. m.seen = SeenAfter(s, l)
    BY <1>2, <1>5 DEF SeenAfter
  <1>11. a = s.row /\ s.op \in AccountWrites
    BY DEF s
  <1>12. a \in X => ChangesRow(s, l, m)
    <2> SUFFICES ASSUME a \in X PROVE ChangesRow(s, l, m)
      OBVIOUS
    <2>1. /\ a \in l.own => row[a] = l.row[a]
          /\ View(r, a) = IF a \in l.own THEN l.draft[a] ELSE row[a]
      BY <1>5
    <2>2. TakesRow(l, m, a, row[a], RowAfter(s, l, IF a \in l.own THEN l.draft[a] ELSE row[a]))
      BY <1>2, <1>5, <1>8, <2>1
    <2> QED
      BY <1>5, <1>7, <1>11, <2>1, <2>2 DEF ChangesRow
  <1>13. Does(X, s, l, m)
    BY <1>5, <1>9, <1>10, <1>11, <1>12 DEF Does, SameLocks
  <1>14. s.op \notin {"when", "commit"}
    BY <1>11 DEF AccountWrites
  <1> QED
    BY <1>2, <1>3, <1>13, <1>14 DEF Ran, l, m, s

\* A lock.
LEMMA LockRuns ==
    ASSUME TypeOK, Unlocked, NEW X \in SUBSET Rows, NEW r \in Open, Lock(r)
    PROVE  StepOf(r) /\ Unlocked' /\ Ran(X, r)
  <1> DEFINE s == Upcoming(r)  a == s.row  x == View(r, a)
  <1>1. /\ s.op = "lock" /\ Free(r, a) /\ owner' = [owner EXCEPT ![a] = r] /\ Advance(r)
        /\ UNCHANGED <<row, draft, doc, docDraft, pend, journal, seen, net, gl>>
    BY DEF Lock, At
  <1>2. r \in Requests /\ s \in Statement /\ a \in Accounts
    BY <1>1, UpcomingStatement, AccountStatement DEF AccountOps, AccountWrites
  <1>3. draft[a] = x
    <2>1. owner[a] = r \/ (owner[a] # r /\ owner[a] = NoOne)
      BY <1>1 DEF Free
    <2>2. owner[a] = NoOne => draft[a] = row[a]
      BY <1>2 DEF Unlocked
    <2> QED
      BY <2>1, <2>2 DEF View
  <1>4. pend' = [pend EXCEPT ![r][a] = @ + 0]
    BY <1>1, <1>2 DEF TypeOK
  <1>5. x = RowAfter(s, StandingOf(X, r), View(r, a))
    BY <1>1 DEF RowAfter
  <1>6. Touches(r, a, x, 0)
    BY <1>1, <1>3, <1>4 DEF Touches, SeenAfter
  <1>7. 0 \in Int /\ s.op \in AccountWrites
    BY <1>1 DEF AccountWrites
  <1> HIDE DEF x
  <1> QED
    BY <1>1, <1>2, <1>5, <1>6, <1>7, TouchRuns

\* An UPDATE of an account.
LEMMA UpdateRuns ==
    ASSUME TypeOK, Unlocked, NEW X \in SUBSET Rows, NEW r \in Open, NEW x, NEW n \in Int,
           Update(r, Upcoming(r).row, x, n), Upcoming(r).op \in AccountWrites,
           Upcoming(r).op # "lock",
           n = (IF Upcoming(r).op = "write" THEN Amount(r) ELSE 0),
           x = RowAfter(Upcoming(r), StandingOf(X, r), View(r, Upcoming(r).row))
    PROVE  StepOf(r) /\ Unlocked' /\ (Ran(X, r) \/ GaveUp(r))
  <1> DEFINE s == Upcoming(r)  a == s.row
  <1>1. r \in Requests /\ s \in Statement /\ a \in Accounts
    BY UpcomingStatement, AccountStatement DEF AccountOps
  <1>2. CASE RowChecks(a, x)
    <2>1. /\ Free(r, a) /\ owner' = [owner EXCEPT ![a] = r] /\ draft' = [draft EXCEPT ![a] = x]
          /\ pend' = [pend EXCEPT ![r][a] = @ + n] /\ seen' = [seen EXCEPT ![r] = 0] /\ Advance(r)
          /\ UNCHANGED <<row, doc, docDraft, journal, net, gl>>
      BY <1>2 DEF Update
    <2>2. /\ draft'[a] = x /\ \A b \in Accounts \ {a} : draft'[b] = draft[b]
          /\ seen'[r] = 0 /\ \A q \in Requests \ {r} : seen'[q] = seen[q]
      BY <1>1, <2>1 DEF TypeOK
    <2>3. Touches(r, a, x, n)
      BY <2>1, <2>2 DEF Touches, SeenAfter
    <2> QED
      BY <1>1, <2>3, TouchRuns
  <1>3. CASE ~RowChecks(a, x)
    <2>1. Rollback(r, "tripped") /\ gl' = gl
      BY <1>3 DEF Update
    <2> QED
      BY <1>1, <2>1, RollbackIsOf DEF GaveUp
  <1> QED
    BY <1>2, <1>3

\* The statements that update an account.
LEMMA AccountsRun ==
    ASSUME TypeOK, Unlocked, NEW X \in SUBSET Rows, NEW r \in Open,
           Floor(r) \/ TriggerWrite(r) \/ Recompute(r) \/ RecomputeCard(r) \/ Hold(r) \/ UseLimit(r)
    PROVE  StepOf(r) /\ Unlocked' /\ (Ran(X, r) \/ GaveUp(r))
  <1> DEFINE s == Upcoming(r)  a == s.row  y == View(r, a)  l == StandingOf(X, r)
  <1>1. Amount(r) \in Int /\ AmountIn(s, l) = Amount(r) /\ l.seen = seen[r]
    BY AmountType, AmountStands DEF StandingOf
  <1>2. ASSUME NEW x, NEW n \in Int, Update(r, a, x, n), s.op \in AccountWrites \ {"lock"},
               n = (IF s.op = "write" THEN Amount(r) ELSE 0), x = RowAfter(s, l, y)
        PROVE  StepOf(r) /\ Unlocked' /\ (Ran(X, r) \/ GaveUp(r))
    BY <1>2, UpdateRuns
  <1>0. 0 \in Int
    OBVIOUS
  <1> HIDE DEF y, l
  <1>3. CASE Floor(r)
    <2>1. s.op = "floor" /\ Update(r, a, [y EXCEPT !.avail = 0], 0)
      BY <1>3 DEF Floor, At, y
    <2>2. [y EXCEPT !.avail = 0] = RowAfter(s, l, y)
      BY <2>1 DEF RowAfter
    <2> QED
      BY <1>0, <1>2, <2>1, <2>2 DEF AccountWrites
  <1>4. CASE TriggerWrite(r)
    <2>1. s.op = "write" /\ Update(r, a, [y EXCEPT !.bal = seen[r] + Amount(r)], Amount(r))
      BY <1>4 DEF TriggerWrite, At, y
    <2>2. [y EXCEPT !.bal = seen[r] + Amount(r)] = RowAfter(s, l, y)
      BY <1>1, <2>1 DEF RowAfter
    <2> QED
      BY <1>1, <1>2, <2>1, <2>2 DEF AccountWrites
  <1>5. CASE Recompute(r)
    <2>1. s.op = "recompute" /\ Update(r, a, [y EXCEPT !.avail = y.bal + Overdraft[a] - y.held], 0)
      BY <1>5 DEF Recompute, At, y
    <2>2. [y EXCEPT !.avail = y.bal + Overdraft[a] - y.held] = RowAfter(s, l, y)
      BY <2>1 DEF RowAfter
    <2> QED
      BY <1>0, <1>2, <2>1, <2>2 DEF AccountWrites
  <1>6. CASE RecomputeCard(r)
    <2>1. s.op = "recard" /\ Update(r, a, [y EXCEPT !.avail = Overdraft[a] - y.bal - y.held], 0)
      BY <1>6 DEF RecomputeCard, At, y
    <2>2. [y EXCEPT !.avail = Overdraft[a] - y.bal - y.held] = RowAfter(s, l, y)
      BY <2>1 DEF RowAfter
    <2> QED
      BY <1>0, <1>2, <2>1, <2>2 DEF AccountWrites
  <1>7. CASE Hold(r)
    <2>1. s.op = "hold" /\ Update(r, a, [y EXCEPT !.held = @ + Amount(r)], 0)
      BY <1>7 DEF Hold, At, y
    <2>2. [y EXCEPT !.held = @ + Amount(r)] = RowAfter(s, l, y)
      BY <1>1, <2>1 DEF RowAfter
    <2> QED
      BY <1>0, <1>2, <2>1, <2>2 DEF AccountWrites
  <1>8. CASE UseLimit(r)
    <2>1. s.op = "use" /\ Update(r, a, [y EXCEPT !.used[s.tag] = @ + s.amt], 0)
      BY <1>8 DEF UseLimit, At, y
    <2>2. [y EXCEPT !.used[s.tag] = @ + s.amt] = RowAfter(s, l, y)
      BY <2>1 DEF RowAfter
    <2> QED
      BY <1>0, <1>2, <2>1, <2>2 DEF AccountWrites
  <1> QED
    BY <1>3, <1>4, <1>5, <1>6, <1>7, <1>8

\* The statements that change a status row.
LEMMA DocsRun ==
    ASSUME TypeOK, Unlocked, NEW X \in SUBSET Rows, NEW r \in Open,
           NEW d, d = Upcoming(r).row, Insert(r) \/ Mark(r) \/ Set(r) \/ Ensure(r)
    PROVE  StepOf(r) /\ Unlocked' /\ (Ran(X, r) \/ GaveUp(r))
  <1> DEFINE s == Upcoming(r)  l == StandingOf(X, r)  m == StandingOf(X, r)'
             y == DocView(r, d)
  <1>1. r \in Requests /\ s.op \in DocWrites /\ d \in Docs
    BY UpcomingStatement, DocStatement DEF Insert, Mark, Set, Ensure, At, DocOps, DocWrites
  <1>2. gl' = gl
    BY DEF Insert, Mark, Set, Ensure, ChangeDoc
  <1>3. ASSUME NEW how \in {"refused", "replayed"}, Rollback(r, how)
        PROVE  StepOf(r) /\ Unlocked' /\ GaveUp(r)
    BY <1>1, <1>2, <1>3, RollbackIsOf DEF GaveUp
  <1>4. \/ /\ Free(r, d) /\ owner' = [owner EXCEPT ![d] = r] /\ Advance(r)
           /\ docDraft' = [docDraft EXCEPT ![d] =
                 IF s.op = "ensure" /\ y # s.was THEN @ ELSE s.tag]
           /\ s.op \in {"insert", "mark"} => y = s.was
           /\ UNCHANGED <<row, draft, doc, pend, seen, net, gl>>
        \/ Rollback(r, "refused") \/ Rollback(r, "replayed")
    <2>1. CASE Insert(r) \/ Mark(r)
      <3>1. s.op \in {"insert", "mark"} /\ (ChangeDoc(r, "replayed") \/ ChangeDoc(r, "refused"))
        BY <2>1 DEF Insert, Mark, At
      <3> QED
        BY <3>1 DEF ChangeDoc
    <2>2. CASE Set(r)
      BY <2>2 DEF Set, At
    <2>3. CASE Ensure(r)
      BY <2>3 DEF Ensure, At
    <2> QED
      BY <2>1, <2>2, <2>3
  <1>5. CASE Rollback(r, "refused") \/ Rollback(r, "replayed")
    BY <1>3, <1>5
  <1>6. CASE /\ Free(r, d) /\ owner' = [owner EXCEPT ![d] = r] /\ Advance(r)
             /\ docDraft' = [docDraft EXCEPT ![d] =
                   IF s.op = "ensure" /\ y # s.was THEN @ ELSE s.tag]
             /\ s.op \in {"insert", "mark"} => y = s.was
             /\ UNCHANGED <<row, draft, doc, pend, seen, net, gl>>
    <2> DEFINE W == {d}
    <2>1. /\ docDraft'[d] = IF s.op = "ensure" /\ y # s.was THEN docDraft[d] ELSE s.tag
          /\ \A b \in Docs \ {d} : docDraft'[b] = docDraft[b]
      BY <1>1, <1>6 DEF TypeOK
    <2>2. \A x \in Rows : owner'[x] = IF x \in W THEN r ELSE owner[x]
      BY <1>6 DEF TypeOK
    <2>3. /\ W \in SUBSET Docs /\ \A x \in W : Free(r, x)
          /\ \A b \in Docs \ W : docDraft'[b] = docDraft[b]
      BY <1>1, <1>6, <2>1
    <2>4. \A q \in Requests \ {r} :
               /\ seen'[q] = seen[q] /\ net'[q] = net[q] /\ gl'[q] = gl[q]
               /\ task'[q] = task[q] /\ pc'[q] = pc[q] /\ outcome'[q] = outcome[q]
      BY <1>1, <1>6, AdvanceIsOf
    <2>5. StepOf(r) /\ Unlocked'
      <3> HIDE DEF W
      <3> QED
        BY <1>1, <1>6, <2>2, <2>3, <2>4, DocIsOf
    <2>6. /\ SameRows(l, m) /\ SameSums(l, m) /\ m.posts = l.posts /\ m.seen = l.seen
          /\ d \in X => TakesDoc(l, m, d, doc[d], docDraft'[d])
          /\ d \notin X => m.own = l.own /\ SameDocs(l, m)
          /\ d \in l.own => d \in X /\ l.was[d] = doc[d] /\ l.now[d] = docDraft[d]
                             /\ y = docDraft[d]
          /\ d \in X /\ d \notin l.own => docDraft[d] = doc[d] /\ y = doc[d]
      <3>1. DocTaken(X, r, d)
        BY <1>1, <1>6, <2>1, DocStands
      <3> QED
        BY <3>1 DEF DocTaken
    <2>7. doc[d] \in STRING /\ l \in Standing(X) /\ s.op \notin {"when", "commit"}
      BY <1>1, StandingType DEF TypeOK, DocWrites
    <2> HIDE DEF l, m, y
    <2>8. CASE d \in X
      <3>1. docDraft[d] = y /\ y = IF d \in l.own THEN l.now[d] ELSE doc[d]
        BY <2>6, <2>8
      <3>2. docDraft'[d] = StatusAfter(s, y)
        BY <2>1, <3>1 DEF StatusAfter
      <3>3. ChangesDoc(s, l, m)
        BY <1>6, <2>6, <2>7, <2>8, <3>1, <3>2 DEF ChangesDoc
      <3>4. Does(X, s, l, m)
        BY <1>1, <2>8, <3>3 DEF Does
      <3> QED
        BY <1>6, <2>5, <2>7, <3>4 DEF Ran, l, m
    <2>9. CASE d \notin X
      <3>1. SameLocks(l, m)
        BY <2>6, <2>9 DEF SameLocks
      <3>2. m \in Standing(X)
        <4>1. m.own = l.own /\ m.was = l.was /\ m.now = l.now /\ m.row = l.row /\ m.draft = l.draft
          BY <3>1 DEF SameLocks, SameDocs, SameRows
        <4>2. m.net = l.net /\ m.told = l.told /\ m.posts = l.posts /\ m.seen = l.seen
          BY <2>6 DEF SameSums
        <4>3. m = [own |-> l.own, was |-> l.was, now |-> l.now, row |-> l.row, draft |-> l.draft,
                   posts |-> l.posts, seen |-> l.seen, net |-> l.net, told |-> l.told]
          BY <4>1, <4>2 DEF m, StandingOf
        <4> QED
          BY <2>7, <4>3 DEF Standing
      <3>3. m = l
        BY <2>6, <2>7, <3>1, <3>2, SameStanding
      <3>4. Does(X, s, l, m)
        BY <1>1, <2>9, <3>3 DEF Does
      <3> QED
        BY <1>6, <2>5, <2>7, <3>4 DEF Ran, l, m
    <2> QED
      BY <2>8, <2>9
  <1> QED
    BY <1>4, <1>5, <1>6
-----------------------------------------------------------------------------
\* The UPDATE over every row that has a status.
LEMMA SweepRuns ==
    ASSUME TypeOK, Unlocked, NEW X \in SUBSET Rows, NEW r \in Open, Sweep(r)
    PROVE  StepOf(r) /\ Unlocked' /\ Ran(X, r)
  <1> DEFINE s == Upcoming(r)  l == StandingOf(X, r)  m == StandingOf(X, r)'
             S == {d \in Docs : doc[d] = s.was}  W == S \cap X
  <1>1. /\ s.op = "sweep" /\ Advance(r) /\ \A d \in S : Free(r, d)
        /\ owner' = [x \in Rows |-> IF x \in S THEN r ELSE owner[x]]
        /\ docDraft' = [d \in Docs |-> IF d \in S THEN s.tag ELSE docDraft[d]]
        /\ UNCHANGED <<row, draft, doc, pend, seen, net, gl>>
    BY DEF Sweep, At
  <1>2. r \in Requests /\ S \in SUBSET Docs /\ \A x \in S : x \notin Accounts
    BY UpcomingStatement, NamesAssumption
  <1>3. StepOf(r) /\ Unlocked'
    <2>1. \A d \in Docs \ S : docDraft'[d] = docDraft[d]
      BY <1>1
    <2>2. \A x \in Rows : owner'[x] = IF x \in S THEN r ELSE owner[x]
      BY <1>1
    <2>3. \A q \in Requests \ {r} :
               /\ seen'[q] = seen[q] /\ net'[q] = net[q] /\ gl'[q] = gl[q]
               /\ task'[q] = task[q] /\ pc'[q] = pc[q] /\ outcome'[q] = outcome[q]
      BY <1>1, <1>2, AdvanceIsOf
    <2> HIDE DEF S
    <2> QED
      BY <1>1, <1>2, <2>1, <2>2, <2>3, DocIsOf
  <1>4. W \in SUBSET (X \cap Docs) /\ \A d \in l.own \cap Docs : d \in W <=> l.was[d] = s.was
    BY DEF StandingOf
  <1>5. m.own = l.own \cup W
    BY <1>1 DEF StandingOf
  <1>6. m.was = [d \in X \cap Docs |-> IF d \in W THEN s.was ELSE l.was[d]]
    BY <1>1 DEF StandingOf, Rows
  <1>7. m.now = [d \in X \cap Docs |-> IF d \in W THEN s.tag ELSE l.now[d]]
    BY <1>1 DEF StandingOf, Rows
  <1>8. SameRows(l, m) /\ SameSums(l, m) /\ m.posts = l.posts /\ m.seen = l.seen
    <2>1. \A a \in X \cap Accounts : owner'[a] = owner[a]
      BY <1>1, <1>2 DEF Rows
    <2> QED
      BY <1>1, <2>1 DEF StandingOf, SameRows, SameSums
  <1> HIDE DEF l, m, W
  <1>9. Sweeps(X, s, l, m)
    BY <1>4, <1>5, <1>6, <1>7, <1>8 DEF Sweeps
  <1>10. Does(X, s, l, m)
    BY <1>1, <1>9 DEF Does
  <1> QED
    BY <1>1, <1>3, <1>10 DEF Ran, l, m

\* A branch is taken as the standing allows.
Chose(X, r) ==
    LET s == Upcoming(r)  l == StandingOf(X, r) IN
        /\ s.op = "when" /\ outcome' = outcome /\ task' = task
        /\ StandingOf(X, r)' = l
        /\ \/ MayEnter(s, l) /\ pc' = [pc EXCEPT ![r] = @ + 1]
           \/ MaySkip(s, l) /\ pc' = [pc EXCEPT ![r] = @ + 1 + s.over]

\* A branch goes one of the two ways its standing admits.
LEMMA WhenRuns ==
    ASSUME TypeOK, Unlocked, NEW X \in SUBSET Rows, NEW r \in Open, When(r)
    PROVE  StepOf(r) /\ Unlocked' /\ Chose(X, r)
  <1> DEFINE s == Upcoming(r)  l == StandingOf(X, r)  x == s.row
  <1>1. /\ s.op = "when" /\ UNCHANGED <<outcome, task, sql, seen, net, gl>>
        /\ pc' = [pc EXCEPT ![r] = @ + 1 + (IF s.tag = "if" /\ Holds(r, s) THEN 0 ELSE s.over)]
    BY DEF When, At
  <1>2. r \in Requests /\ s \in Statement /\ pc[r] \in Nat
    BY UpcomingStatement DEF TypeOK
  <1>3. x \in Rows
    BY <1>1, <1>2 DEF Statement, AccountOps, AccountWrites, DocOps, DocWrites
  <1>4. StepOf(r) /\ Unlocked'
    <2>1. \A q \in Requests \ {r} :
               /\ seen'[q] = seen[q] /\ net'[q] = net[q] /\ gl'[q] = gl[q]
               /\ task'[q] = task[q] /\ pc'[q] = pc[q] /\ outcome'[q] = outcome[q]
      BY <1>1, <1>2 DEF TypeOK
    <2> QED
      BY <1>1, <1>2, <2>1, QuietIsOf
  <1>5. StandingOf(X, r)' = l
    BY <1>1 DEF StandingOf, sql
  <1>6. x \in l.own => (Holds(r, s) <=> HoldsIn(x, s.was, s.amt, l))
    <2> SUFFICES ASSUME x \in l.own PROVE Holds(r, s) <=> HoldsIn(x, s.was, s.amt, l)
      OBVIOUS
    <2>1. CASE x \in Docs
      <3>1. DocView(r, x) = l.now[x]
        BY <1>2, <2>1, OwnDocView
      <3> QED
        BY <2>1, <3>1 DEF Holds, HoldsIn
    <2>2. CASE x \notin Docs
      <3>1. View(r, x) = l.draft[x]
        BY <1>2, <1>3, <2>2, OwnView DEF Rows
      <3> QED
        BY <2>2, <3>1 DEF Holds, HoldsIn
    <2> QED
      BY <2>1, <2>2
  <1> HIDE DEF l
  <1>7. CASE s.tag = "if" /\ Holds(r, s)
    <2>1. MayEnter(s, l)
      BY <1>6, <1>7 DEF MayEnter, MayHold
    <2>2. pc' = [pc EXCEPT ![r] = @ + 1]
      <3>1. pc' = [pc EXCEPT ![r] = @ + 1 + 0]
        BY <1>1, <1>7
      <3>2. pc[r] + 1 + 0 = pc[r] + 1
        BY <1>2
      <3> QED
        BY <3>1, <3>2
    <2> QED
      BY <1>1, <1>4, <1>5, <2>1, <2>2 DEF Chose, l
  <1>8. CASE ~(s.tag = "if" /\ Holds(r, s))
    <2>1. MaySkip(s, l)
      BY <1>6, <1>8 DEF MaySkip, MayFail
    <2>2. pc' = [pc EXCEPT ![r] = @ + 1 + s.over]
      BY <1>1, <1>8
    <2> QED
      BY <1>1, <1>4, <1>5, <2>1, <2>2 DEF Chose, l
  <1> QED
    BY <1>7, <1>8

\* Every statement does to the standing of its request what Does says.
LEMMA ExecuteStands ==
    ASSUME TypeOK, Unlocked, NEW X \in SUBSET Rows, NEW r \in Requests, Execute(r)
    PROVE  /\ r \in Open /\ StepOf(r) /\ Unlocked'
           /\ Ran(X, r) \/ GaveUp(r) \/ Chose(X, r) \/ Commit(r)
  <1>1. r \in Open
    BY DEF Execute, Lock, Funds, WithinLimit, Expect, Find, Insert, Mark, Set, Ensure,
           Sweep, NetOut, Tally, When, Hold, Floor, TriggerRead, TriggerWrite, Recompute,
           RecomputeCard, UseLimit, PostGL, Commit, At, Open
  <1>2. Insert(r) \/ Mark(r) \/ Set(r) \/ Ensure(r)
           => StepOf(r) /\ Unlocked' /\ (Ran(X, r) \/ GaveUp(r))
    <2>1. PICK d : d = Upcoming(r).row
      OBVIOUS
    <2> QED
      BY <1>1, <2>1, DocsRun
  <1> QED
    BY <1>1, <1>2, ChecksRun, SumsRun, LockRuns, AccountsRun, SweepRuns, WhenRuns, CommitIsOf
       DEF Execute
-----------------------------------------------------------------------------
\* However it is run, the script of t ends at a standing of H.
EndsIn(X, t, H) == Leads(X, Script[t], {Fresh(X)}, H)

WalkTo(X, t, H) ==
    CHOOSE w : /\ IsWalk(X, w, Script[t]) /\ {Fresh(X)} \subseteq w[1]
               /\ w[Len(Script[t])+1] \subseteq H

\* Every open transaction stands where its script can have brought it.
StandsInv(X, H) ==
    /\ TypeOK /\ Unlocked
    /\ \A r \in Requests : outcome[r] = "idle" => StandingOf(X, r) = Fresh(X)
    /\ \A r \in Open : StandingOf(X, r) \in WalkTo(X, task[r], H[task[r]])[pc[r]]

\* The walk of a script that ends in H.
LEMMA WalkEnds ==
    ASSUME NEW X, NEW t \in Tasks, NEW H, EndsIn(X, t, H)
    PROVE  LET w == WalkTo(X, t, H) IN
           /\ IsWalk(X, w, Script[t]) /\ Fresh(X) \in w[1]
           /\ w[Len(Script[t])] \subseteq H
  <1> DEFINE w == WalkTo(X, t, H)  s == Script[t]  n == Len(s)
  <1>1. IsWalk(X, w, s) /\ {Fresh(X)} \subseteq w[1] /\ w[n+1] \subseteq H
    BY DEF EndsIn, Leads, WalkTo
  <1>2. s \in Seq(Statement) /\ n \in Nat /\ n \in 1..n /\ s[n].op = "commit"
    BY ScriptAssumption
  <1> HIDE DEF s, w
  <1>3. StepsOn(X, s, w, n) /\ w[n] \subseteq Standing(X)
    <2>1. n \in 1..n+1
      BY <1>2
    <2> QED
      BY <1>1, <1>2, <2>1 DEF IsWalk
  <1>4. \A l \in w[n] : Does(X, s[n], l, l)
    BY <1>2 DEF Does
  <1>5. \A l \in w[n] : l \in w[n+1]
    BY <1>2, <1>3, <1>4 DEF StepsOn
  <1> QED
    BY <1>1, <1>5 DEF s, w

\* A request with no lock and no entry stands as one that has begun.
LEMMA FreshStands ==
    ASSUME TypeOK, NEW X \in SUBSET Rows, NEW r \in Requests,
           \A x \in Rows : owner[x] # r,
           pend[r] = NoEntries, seen[r] = 0, net[r] = 0, gl[r] = 0
    PROVE  StandingOf(X, r) = Fresh(X)
  <1>1. {x \in X : owner[x] = r} = {}
    OBVIOUS
  <1>2. \A x \in X : owner[x] # r
    OBVIOUS
  <1>3. /\ [d \in X \cap Docs |-> IF owner[d] = r THEN doc[d] ELSE Absent]
             = [d \in X \cap Docs |-> Absent]
        /\ [d \in X \cap Docs |-> IF owner[d] = r THEN docDraft[d] ELSE Absent]
             = [d \in X \cap Docs |-> Absent]
    BY <1>2
  <1>4. /\ [a \in X \cap Accounts |-> IF owner[a] = r THEN row[a] ELSE NoRow]
             = [a \in X \cap Accounts |-> NoRow]
        /\ [a \in X \cap Accounts |-> IF owner[a] = r THEN draft[a] ELSE NoRow]
             = [a \in X \cap Accounts |-> NoRow]
    BY <1>2
  <1> QED
    BY <1>1, <1>3, <1>4 DEF StandingOf, Fresh

\* The standing after a step has its type.
LEMMA NextStandingType ==
    ASSUME NEW X \in SUBSET Rows, NEW r \in Requests
    PROVE  TypeOK' => StandingOf(X, r)' \in Standing(X)
  <1>1. TypeOK => StandingOf(X, r) \in Standing(X)
    BY StandingType
  <1>2. (TypeOK => StandingOf(X, r) \in Standing(X))'
    BY <1>1, PTL
  <1> QED
    BY <1>2 DEF Standing

\* At first nobody has begun.
LEMMA StandsInit ==
    ASSUME NEW X \in SUBSET Rows, NEW H, Init
    PROVE  StandsInv(X, H)
  <1>1. TypeOK
    BY InitType
  <1>2. Unlocked
    BY DEF Init, Unlocked
  <1>3. \A r \in Requests : outcome[r] = "idle" /\ pend[r] = NoEntries /\ seen[r] = 0
                             /\ net[r] = 0 /\ gl[r] = 0 /\ \A x \in Rows : owner[x] # r
    BY NamesAssumption DEF Init
  <1>4. \A r \in Requests : StandingOf(X, r) = Fresh(X)
    BY <1>1, <1>3, FreshStands
  <1>5. Open = {}
    BY <1>3 DEF Open
  <1> QED
    BY <1>1, <1>2, <1>4, <1>5 DEF StandsInv

\* A step of r keeps the standing of every other request where it was.
LEMMA OthersInv ==
    ASSUME NEW X \in SUBSET Rows, NEW H, StandsInv(X, H), NEW r \in Requests, StepOf(r),
           NEW q \in Requests \ {r}
    PROVE  /\ outcome'[q] = "idle" => StandingOf(X, q)' = Fresh(X)
           /\ outcome'[q] = "open" =>
                StandingOf(X, q)' \in WalkTo(X, task'[q], H[task'[q]])[pc'[q]]
  <1>1. StandingOf(X, q)' = StandingOf(X, q)
    BY OthersStand
  <1>2. task'[q] = task[q] /\ pc'[q] = pc[q] /\ outcome'[q] = outcome[q]
    BY DEF StepOf
  <1>3. /\ outcome[q] = "idle" => StandingOf(X, q) = Fresh(X)
        /\ outcome[q] = "open" => StandingOf(X, q) \in WalkTo(X, task[q], H[task[q]])[pc[q]]
    BY DEF StandsInv, Open
  <1> QED
    BY <1>1, <1>2, <1>3

\* The walk of an open request, at the statement it is at.
LEMMA WalkStep ==
    ASSUME NEW X \in SUBSET Rows, NEW H, \A t \in Tasks : EndsIn(X, t, H[t]),
           StandsInv(X, H), NEW r \in Open, NEW w, w = WalkTo(X, task[r], H[task[r]])
    PROVE  /\ StepsOn(X, Script[task[r]], w, pc[r]) /\ StandingOf(X, r) \in w[pc[r]]
           /\ pc[r] \in Nat /\ Upcoming(r) = Script[task[r]][pc[r]]
           /\ Upcoming(r).op = "commit" => w[pc[r]] \subseteq H[task[r]]
  <1>1. TypeOK /\ task[r] \in Tasks /\ pc[r] \in 1..Len(Script[task[r]])
    BY UpcomingStatement DEF StandsInv
  <1>2. IsWalk(X, w, Script[task[r]]) /\ w[Len(Script[task[r]])] \subseteq H[task[r]]
    BY <1>1, WalkEnds
  <1>3. Upcoming(r).op = "commit" => pc[r] = Len(Script[task[r]])
    BY <1>1, ScriptAssumption DEF Upcoming
  <1> QED
    BY <1>1, <1>2, <1>3 DEF IsWalk, StandsInv, Upcoming

\* Every step keeps each open request on the walk of its script.
LEMMA StandsNext ==
    ASSUME NEW X \in SUBSET Rows, NEW H, \A t \in Tasks : EndsIn(X, t, H[t]),
           StandsInv(X, H), [Next]_vars
    PROVE  StandsInv(X, H)'
  <1> DEFINE Good(r) == /\ outcome'[r] = "idle" => StandingOf(X, r)' = Fresh(X)
                        /\ outcome'[r] = "open" =>
                             StandingOf(X, r)' \in WalkTo(X, task'[r], H[task'[r]])[pc'[r]]
  <1>1. TypeOK /\ TypeOK'
    BY NextType DEF StandsInv
  <1>2. SUFFICES Unlocked' /\ \A r \in Requests : Good(r)
    <2>1. ASSUME \A r \in Requests : Good(r)
          PROVE  /\ \A r \in Requests : outcome'[r] = "idle" => StandingOf(X, r)' = Fresh(X)
                 /\ \A r \in Open' : StandingOf(X, r)' \in WalkTo(X, task'[r], H[task'[r]])[pc'[r]]
      BY <2>1 DEF Open
    <2> QED
      BY <1>1, <2>1 DEF StandsInv
  <1>3. CASE UNCHANGED vars
    <2>1. \A r \in Requests : StandingOf(X, r)' = StandingOf(X, r)
      BY <1>3 DEF StandingOf, vars, sql
    <2> QED
      BY <1>3, <2>1 DEF StandsInv, Unlocked, Open, vars, sql
  <1>4. ASSUME NEW r \in Requests, StepOf(r), Unlocked', Good(r)
        PROVE  Unlocked' /\ \A q \in Requests : Good(q)
    BY <1>4, OthersInv
  <1>5. ASSUME NEW r \in Requests, NEW t \in Tasks, Begin(r, t)
        PROVE  Unlocked' /\ \A q \in Requests : Good(q)
    <2>1. /\ outcome[r] = "idle" /\ outcome'[r] = "open" /\ task'[r] = t /\ pc'[r] = 1
          /\ UNCHANGED <<sql, seen, net, gl>>
      BY <1>1, <1>5 DEF Begin, TypeOK
    <2>2. \A q \in Requests \ {r} :
               /\ seen'[q] = seen[q] /\ net'[q] = net[q] /\ gl'[q] = gl[q]
               /\ task'[q] = task[q] /\ pc'[q] = pc[q] /\ outcome'[q] = outcome[q]
      BY <1>1, <1>5 DEF Begin, TypeOK
    <2>3. StepOf(r) /\ Unlocked'
      BY <1>1, <2>1, <2>2, QuietIsOf DEF StandsInv
    <2>4. StandingOf(X, r)' = StandingOf(X, r)
      BY <2>1 DEF StandingOf, sql
    <2>5. Fresh(X) \in WalkTo(X, t, H[t])[1]
      BY WalkEnds
    <2>6. Good(r)
      BY <2>1, <2>4, <2>5 DEF StandsInv
    <2> QED
      BY <1>4, <2>3, <2>6
  <1>6. ASSUME NEW r \in Requests, NEW how, Finish(r, how), how \notin {"idle", "open"}
        PROVE  Good(r)
    BY <1>1, <1>6 DEF Finish, TypeOK
  <1>7. ASSUME NEW r \in Requests, Abort(r)
        PROVE  Unlocked' /\ \A q \in Requests : Good(q)
    <2>1. Rollback(r, "failed") /\ gl' = gl
      BY <1>7 DEF Abort
    <2>2. StepOf(r) /\ Unlocked'
      BY <1>1, <2>1, RollbackIsOf DEF StandsInv
    <2> QED
      BY <1>4, <1>6, <2>1, <2>2 DEF Rollback
  <1>8. ASSUME NEW r \in Requests, Execute(r)
        PROVE  Unlocked' /\ \A q \in Requests : Good(q)
    <2>1. /\ r \in Open /\ StepOf(r) /\ Unlocked'
          /\ Ran(X, r) \/ GaveUp(r) \/ Chose(X, r) \/ Commit(r)
      BY <1>1, <1>8, ExecuteStands DEF StandsInv
    <2>2. PICK w : w = WalkTo(X, task[r], H[task[r]])
      OBVIOUS
    <2>3. PICK s : s = Script[task[r]]
      OBVIOUS
    <2>4. /\ StepsOn(X, s, w, pc[r]) /\ StandingOf(X, r) \in w[pc[r]]
          /\ pc[r] \in Nat /\ Upcoming(r) = s[pc[r]]
      BY <2>1, <2>2, <2>3, WalkStep
    <2>5. CASE Ran(X, r)
      <3>1. /\ task' = task /\ pc'[r] = pc[r] + 1
        BY <1>1, <2>5 DEF Ran, Advance, TypeOK
      <3>2. StandingOf(X, r)' \in Standing(X)
        BY <1>1, NextStandingType
      <3>3. StandingOf(X, r)' \in w[pc[r] + 1]
        BY <2>4, <2>5, <3>2 DEF Ran, StepsOn
      <3>4. Good(r)
        BY <2>1, <2>2, <2>5, <3>1, <3>3 DEF Ran, Advance, Open
      <3> QED
        BY <1>4, <2>1, <3>4
    <2>6. CASE Chose(X, r)
      <3>1. /\ task' = task /\ outcome' = outcome
            /\ \/ MayEnter(s[pc[r]], StandingOf(X, r)) /\ pc'[r] = pc[r] + 1
               \/ MaySkip(s[pc[r]], StandingOf(X, r)) /\ pc'[r] = pc[r] + 1 + s[pc[r]].over
            /\ s[pc[r]].op = "when" /\ StandingOf(X, r)' = StandingOf(X, r)
        BY <1>1, <2>4, <2>6 DEF Chose, TypeOK
      <3>2. StandingOf(X, r)' \in w[pc'[r]]
        BY <2>4, <3>1 DEF StepsOn
      <3>4. Good(r)
        BY <2>1, <2>2, <3>1, <3>2 DEF Open
      <3> QED
        BY <1>4, <2>1, <3>4
    <2>7. CASE GaveUp(r) \/ Commit(r)
      <3>1. PICK how : Finish(r, how) /\ how \notin {"idle", "open"}
        BY <2>7 DEF GaveUp, Rollback, Commit
      <3> QED
        BY <1>4, <1>6, <2>1, <3>1
    <2> QED
      BY <2>1, <2>5, <2>6, <2>7
  <1>9. CASE Next
    BY <1>3, <1>5, <1>7, <1>8, <1>9 DEF Next, Done
  <1> QED
    BY <1>3, <1>9

\* What a commit does to the rows X, and to the journal.
LEMMA CommitStands ==
    ASSUME NEW X \in SUBSET Rows, NEW H, \A t \in Tasks : EndsIn(X, t, H[t]),
           StandsInv(X, H), NEW r \in Requests, Commit(r)
    PROVE  LET l == StandingOf(X, r) IN
           /\ r \in Open /\ task[r] \in Tasks /\ l \in H[task[r]] /\ l \in Standing(X)
           /\ \A d \in X \cap Docs :
                IF d \in l.own THEN doc[d] = l.was[d] /\ doc'[d] = l.now[d] ELSE doc'[d] = doc[d]
           /\ \A a \in X \cap Accounts :
                IF a \in l.own THEN row[a] = l.row[a] /\ row'[a] = l.draft[a] ELSE row'[a] = row[a]
           /\ \A a \in Accounts : journal'[a] = journal[a] + l.posts[a]
  <1> DEFINE l == StandingOf(X, r)
  <1>1. r \in Open /\ Upcoming(r).op = "commit" /\ TypeOK
    BY DEF Commit, At, Open, StandsInv
  <1>2. task[r] \in Tasks
    BY <1>1, UpcomingStatement
  <1>3. l \in H[task[r]]
    <2>1. PICK w : w = WalkTo(X, task[r], H[task[r]])
      OBVIOUS
    <2> QED
      BY <1>1, <2>1, WalkStep
  <1>4. l \in Standing(X)
    BY <1>1, StandingType
  <1>5. /\ \A d \in X \cap Docs :
                IF d \in l.own THEN doc[d] = l.was[d] /\ doc'[d] = l.now[d] ELSE doc'[d] = doc[d]
        /\ \A a \in X \cap Accounts :
                IF a \in l.own THEN row[a] = l.row[a] /\ row'[a] = l.draft[a] ELSE row'[a] = row[a]
        /\ \A a \in Accounts : journal'[a] = journal[a] + l.posts[a]
    BY DEF Commit, StandingOf
  <1> QED
    BY <1>1, <1>2, <1>3, <1>4, <1>5

\* Whatever the requests do between its statements, an open request is where
\* the walk of its script, run alone, has it: it commits a standing of H.
THEOREM StandsAlways ==
    ASSUME NEW X \in SUBSET Rows, NEW H, \A t \in Tasks : EndsIn(X, t, H[t])
    PROVE  Spec => []StandsInv(X, H)
  <1>1. Init => StandsInv(X, H)
    BY StandsInit
  <1>2. StandsInv(X, H) /\ [Next]_vars => StandsInv(X, H)'
    BY StandsNext
  <1> QED
    BY <1>1, <1>2, PTL DEF Spec
-----------------------------------------------------------------------------
(* Running the scripts with only status rows in view. *)

\* The standings with the locks, statuses and entries given, and what the core has
\* been told.
Docket(X) == [own : SUBSET X, was : [X -> STRING], now : [X -> STRING]]
Clean(X) == [own |-> {}, was |-> [d \in X |-> Absent], now |-> [d \in X |-> Absent]]
Stood(X, k, p, g) ==
    {l \in Standing(X) : /\ l.own = k.own /\ l.was = k.was /\ l.now = k.now
                         /\ l.posts = p /\ l.told = g}

\* A row found at v and locked becomes w.
Marked(k, x, v, w) ==
    [own |-> k.own \cup {x},
     was |-> IF x \in k.own THEN k.was ELSE [k.was EXCEPT ![x] = v],
     now |-> [k.now EXCEPT ![x] = w]]

\* A docket in which one more row is marked is a docket.
LEMMA MarkedType ==
    ASSUME NEW X, NEW k \in Docket(X), NEW x \in X, NEW v \in STRING, NEW w \in STRING
    PROVE  Marked(k, x, v, w) \in Docket(X)
  <1>1. /\ k.own \cup {x} \in SUBSET X
        /\ (IF x \in k.own THEN k.was ELSE [k.was EXCEPT ![x] = v]) \in [X -> STRING]
        /\ [k.now EXCEPT ![x] = w] \in [X -> STRING]
    BY DEF Docket
  <1> QED
    BY <1>1 DEF Marked, Docket

\* So is the one of a request that has begun.
LEMMA CleanType == ASSUME NEW X PROVE Clean(X) \in Docket(X)
  BY RowsAssumption DEF Clean, Docket

\* The standings a docket and the sums give.
LEMMA StoodType == ASSUME NEW X, NEW k, NEW p, NEW g PROVE Stood(X, k, p, g) \in SUBSET Standing(X)
  BY DEF Stood

\* Where a script starts.
LEMMA FreshStood ==
    ASSUME NEW X \in SUBSET Docs
    PROVE  {Fresh(X)} \in SUBSET Stood(X, Clean(X), NoEntries, 0)
  <1>1. X \cap Docs = X /\ X \cap Accounts = {} /\ Absent \in STRING
    BY NamesAssumption, RowsAssumption
  <1>2. [d \in X \cap Docs |-> Absent] \in [X \cap Docs -> STRING]
    BY <1>1
  <1>6. NoEntries \in [Accounts -> Int]
    BY DEF NoEntries
  <1>5. [a \in X \cap Accounts |-> NoRow] \in [X \cap Accounts -> AccountRow]
    <2>1. \A a \in X \cap Accounts : NoRow \in AccountRow
      BY <1>1
    <2> HIDE DEF NoRow, AccountRow
    <2> QED
      BY <2>1
  <1>3. Fresh(X) \in Standing(X)
    BY <1>2, <1>5, <1>6, 0 \in Int DEF Fresh, Standing
  <1>4. Fresh(X).own = {} /\ Fresh(X).posts = NoEntries /\ Fresh(X).told = 0
        /\ Fresh(X).was = [d \in X |-> Absent] /\ Fresh(X).now = [d \in X |-> Absent]
    BY <1>1 DEF Fresh
  <1> QED
    BY <1>3, <1>4 DEF Stood, Clean

\* Statements that change nothing in view.
Idle(X, s) ==
    \/ s.op \in (AccountOps \ {"write", "net"}) /\ s.row \notin X
    \/ s.op \in DocOps /\ s.row \notin X
    \/ s.op \in {"find", "expect", "commit"}
    \/ s.op = "gl" /\ s.amt = 0 /\ s.tag # ByNet

\* A statement that changes nothing in view.
LEMMA IdleLeads ==
    ASSUME NEW X \in SUBSET Docs, NEW k, NEW p, NEW g, NEW s, Idle(X, s)
    PROVE  Leads(X, << s >>, Stood(X, k, p, g), Stood(X, k, p, g))
  <1> DEFINE G == Stood(X, k, p, g)
  <1>0. s.op # "when"
    BY DEF Idle, AccountOps, AccountWrites, DocOps, DocWrites
  <1>1. ASSUME NEW l \in G, NEW m \in Standing(X), Does(X, s, l, m) PROVE m \in G
    <2>1. l \in Standing(X) /\ l.own \subseteq X
      BY DEF Stood, Standing
    <2>2. \/ m = l
          \/ SameLocks(l, m) /\ m.posts = l.posts /\ m.told = l.told
      <3>1. CASE s.op \in (AccountOps \ {"write", "net"}) /\ s.row \notin X
        BY <1>1, <2>1, <3>1 DEF Does, AccountOps, AccountWrites, DocWrites, PostsAfter, SameSums
      <3>2. CASE s.op \in DocOps /\ s.row \notin X
        BY <1>1, <2>1, <3>2 DEF Does, AccountWrites, DocOps, DocWrites
      <3>3. CASE s.op \in {"find", "expect", "commit"}
        BY <1>1, <2>1, <3>3 DEF Does, AccountWrites, DocWrites
      <3>4. CASE s.op = "gl" /\ s.amt = 0 /\ s.tag # ByNet
        <4>1. m.told = l.told + AmountIn(s, l) /\ SameLocks(l, m) /\ m.posts = l.posts
          BY <1>1, <3>4 DEF Does, AccountWrites, DocWrites
        <4>2. AmountIn(s, l) = 0 /\ l.told \in Int
          BY <2>1, <3>4 DEF AmountIn, Standing
        <4> QED
          BY <4>1, <4>2
      <3> QED
        BY <3>1, <3>2, <3>3, <3>4 DEF Idle
    <2> QED
      BY <2>2 DEF Stood, SameLocks, SameDocs
  <1> QED
    BY <1>0, <1>1, StoodType, LeadsByOne

\* Entries on two accounts.
Shifted(p, from, to, n) ==
    [a \in Accounts |-> p[a] + (IF a = to THEN n ELSE 0) - (IF a = from THEN n ELSE 0)]

\* Entries after two more legs.
LEMMA ShiftedType ==
    ASSUME NEW p \in [Accounts -> Int], NEW from, NEW to, NEW n \in Int
    PROVE  Shifted(p, from, to, n) \in [Accounts -> Int]
  BY DEF Shifted

\* The entry of a leg.
LEMMA WriteLeads ==
    ASSUME NEW X \in SUBSET Docs, NEW k, NEW p, NEW g, NEW a \in Accounts, NEW n \in Int
    PROVE  Leads(X, << Do("write", a, n) >>, Stood(X, k, p, g),
                 Stood(X, k, [p EXCEPT ![a] = @ + n], g))
  <1> DEFINE s == Do("write", a, n)
  <1>1. s.op = "write" /\ s.row = a /\ s.amt = n /\ s.tag # ByNet
    BY DEF Do, Stmt, Blank, ByNet
  <1> HIDE DEF s
  <1>2. a \notin X
    BY NamesAssumption
  <1>3. ASSUME NEW l \in Stood(X, k, p, g), NEW m \in Standing(X), Does(X, s, l, m)
        PROVE  m \in Stood(X, k, [p EXCEPT ![a] = @ + n], g)
    <2>1. SameLocks(l, m) /\ SameSums(l, m) /\ m.posts = PostsAfter(s, l)
      BY <1>1, <1>2, <1>3 DEF Does, AccountWrites, DocWrites
    <2>2. AmountIn(s, l) = n
      BY <1>1 DEF AmountIn
    <2>3. m.posts = [l.posts EXCEPT ![a] = @ + n]
      BY <1>1, <2>1, <2>2 DEF PostsAfter
    <2> QED
      BY <2>1, <2>3 DEF Stood, SameLocks, SameDocs, SameSums
  <1>4. Leads(X, << s >>, Stood(X, k, p, g), Stood(X, k, [p EXCEPT ![a] = @ + n], g))
    BY <1>1, <1>3, StoodType, LeadsByOne
  <1> QED
    BY <1>4 DEF s

\* The read ahead of it.
LEMMA ReadLeads ==
    ASSUME NEW X \in SUBSET Docs, NEW k, NEW p, NEW g, NEW a \in Accounts
    PROVE  Leads(X, << Do("read", a, 0) >>, Stood(X, k, p, g), Stood(X, k, p, g))
  <1>1. a \notin X
    BY NamesAssumption
  <1>2. Idle(X, Do("read", a, 0))
    BY <1>1 DEF Idle, Do, Stmt, AccountOps, AccountWrites
  <1> QED
    BY <1>2, IdleLeads

\* The core is told of n.
LEMMA TellLeads ==
    ASSUME NEW X \in SUBSET Docs, NEW k, NEW p, NEW g \in Int, NEW n \in Int
    PROVE  Leads(X, << Do("gl", NoOne, n) >>, Stood(X, k, p, g), Stood(X, k, p, g + n))
  <1> DEFINE s == Do("gl", NoOne, n)
  <1>1. s.op = "gl" /\ s.amt = n /\ s.tag # ByNet
    BY DEF Do, Stmt, Blank, ByNet
  <1> HIDE DEF s
  <1>3. ASSUME NEW l \in Stood(X, k, p, g), NEW m \in Standing(X), Does(X, s, l, m)
        PROVE  m \in Stood(X, k, p, g + n)
    <2>1. SameLocks(l, m) /\ m.posts = l.posts /\ m.told = l.told + AmountIn(s, l)
      BY <1>1, <1>3 DEF Does, AccountWrites, DocWrites
    <2>2. AmountIn(s, l) = n
      BY <1>1 DEF AmountIn
    <2> QED
      BY <2>1, <2>2 DEF Stood, SameLocks, SameDocs
  <1>4. Leads(X, << s >>, Stood(X, k, p, g), Stood(X, k, p, g + n))
    BY <1>1, <1>3, StoodType, LeadsByOne
  <1> QED
    BY <1>4 DEF s

\* An insert, or a guarded transition, of a row in view.
LEMMA MarkLeads ==
    ASSUME NEW X \in SUBSET Docs, NEW k \in Docket(X), NEW p, NEW g, NEW x \in X, NEW v, NEW w,
           NEW op \in {"insert", "mark"}, x \in k.own => k.now[x] = v
    PROVE  Leads(X, << OnDoc(op, x, v, w) >>, Stood(X, k, p, g),
                 Stood(X, Marked(k, x, v, w), p, g))
  <1> DEFINE s == OnDoc(op, x, v, w)
  <1>1. s.op = op /\ s.row = x /\ s.was = v /\ s.tag = w
    BY DEF OnDoc, Stmt
  <1> HIDE DEF s
  <1>3. ASSUME NEW l \in Stood(X, k, p, g), NEW m \in Standing(X), Does(X, s, l, m)
        PROVE  m \in Stood(X, Marked(k, x, v, w), p, g)
    <2>1. ChangesDoc(s, l, m)
      BY <1>1, <1>3 DEF Does, AccountWrites
    <2>2. PICK u \in STRING : LET y == IF x \in l.own THEN l.now[x] ELSE u IN
                                /\ x \in l.own => u = l.was[x]
                                /\ y = v
                                /\ TakesDoc(l, m, x, u, StatusAfter(s, y))
                                /\ SameSums(l, m) /\ m.posts = l.posts
      BY <1>1, <2>1 DEF ChangesDoc
    <2>3. StatusAfter(s, v) = w
      BY <1>1 DEF StatusAfter
    <2>4. /\ l.own = k.own /\ l.was = k.was /\ l.now = k.now /\ l.posts = p /\ l.told = g
          /\ k.was \in [X -> STRING]
      BY DEF Stood, Docket
    <2>5. m.own = k.own \cup {x} /\ m.was = [k.was EXCEPT ![x] = u]
          /\ m.now = [k.now EXCEPT ![x] = w] /\ m.posts = p /\ m.told = g
      BY <2>2, <2>3, <2>4 DEF TakesDoc, SameSums
    <2>6. m.was = IF x \in k.own THEN k.was ELSE [k.was EXCEPT ![x] = v]
      <3>1. CASE x \in k.own
        <4>1. u = k.was[x]
          BY <2>2, <2>4, <3>1
        <4> QED
          BY <2>4, <2>5, <3>1, <4>1
      <3>2. CASE x \notin k.own
        BY <2>2, <2>4, <2>5, <3>2
      <3> QED
        BY <3>1, <3>2
    <2> QED
      BY <2>5, <2>6 DEF Stood, Marked
  <1>4. s.op # "when"
    BY <1>1
  <1>5. Leads(X, << s >>, Stood(X, k, p, g), Stood(X, Marked(k, x, v, w), p, g))
    BY <1>3, <1>4, StoodType, LeadsByOne
  <1> QED
    BY <1>5 DEF s

\* An unguarded change of a row in view that is locked already.
LEMMA SetLeads ==
    ASSUME NEW X \in SUBSET Docs, NEW k \in Docket(X), NEW p, NEW g, NEW x \in k.own, NEW w
    PROVE  Leads(X, << OnDoc("set", x, Blank, w) >>, Stood(X, k, p, g),
                 Stood(X, Marked(k, x, Blank, w), p, g))
  <1> DEFINE s == OnDoc("set", x, Blank, w)
  <1>1. s.op = "set" /\ s.row = x /\ s.tag = w /\ x \in X
    BY DEF OnDoc, Stmt, Docket
  <1> HIDE DEF s
  <1>3. ASSUME NEW l \in Stood(X, k, p, g), NEW m \in Standing(X), Does(X, s, l, m)
        PROVE  m \in Stood(X, Marked(k, x, Blank, w), p, g)
    <2>1. ChangesDoc(s, l, m)
      BY <1>1, <1>3 DEF Does, AccountWrites
    <2>2. PICK u \in STRING : /\ x \in l.own => u = l.was[x]
                              /\ TakesDoc(l, m, x, u, w)
                              /\ SameSums(l, m) /\ m.posts = l.posts
      BY <1>1, <2>1 DEF ChangesDoc, StatusAfter
    <2>4. /\ l.own = k.own /\ l.was = k.was /\ l.now = k.now /\ l.posts = p /\ l.told = g
          /\ k.was \in [X -> STRING]
      BY DEF Stood, Docket
    <2>5. m.own = k.own \cup {x} /\ m.was = k.was
          /\ m.now = [k.now EXCEPT ![x] = w] /\ m.posts = p /\ m.told = g
      BY <2>2, <2>4 DEF TakesDoc, SameSums
    <2> QED
      BY <2>5 DEF Stood, Marked
  <1>4. s.op # "when"
    BY <1>1
  <1>5. Leads(X, << s >>, Stood(X, k, p, g), Stood(X, Marked(k, x, Blank, w), p, g))
    BY <1>3, <1>4, StoodType, LeadsByOne
  <1> QED
    BY <1>5 DEF s
-----------------------------------------------------------------------------
\* A sequence of two is two pieces of one.
LEMMA TwoOnes ==
    ASSUME NEW x, NEW y PROVE << x, y >> = << x >> \o << y >>
  <1>1. /\ << x >> \in Seq({x, y}) /\ Len(<< x >>) = 1 /\ << x >>[1] = x
        /\ << y >> \in Seq({x, y}) /\ Len(<< y >>) = 1 /\ << y >>[1] = y
        /\ << x, y >> \in Seq({x, y}) /\ Len(<< x, y >>) = 2
        /\ << x, y >>[1] = x /\ << x, y >>[2] = y
    OBVIOUS
  <1> DEFINE s == << x >>  t == << y >>  u == << x, y >>
  <1> HIDE DEF s, t, u
  <1>2. /\ s \in Seq({x, y}) /\ Len(s) = 1 /\ s[1] = x
        /\ t \in Seq({x, y}) /\ Len(t) = 1 /\ t[1] = y
        /\ u \in Seq({x, y}) /\ Len(u) = 2 /\ u[1] = x /\ u[2] = y
    BY <1>1 DEF s, t, u
  <1>3. /\ s \o t \in Seq({x, y}) /\ Len(s \o t) = 2
        /\ (s \o t)[1] = x /\ (s \o t)[2] = y
    <2>1. /\ s \o t \in Seq({x, y}) /\ Len(s \o t) = Len(s) + Len(t)
          /\ \A i \in 1..Len(s) : (s \o t)[i] = s[i]
          /\ \A i \in 1..Len(t) : (s \o t)[Len(s) + i] = t[i]
      <3>1. ASSUME NEW S, s \in Seq(S), t \in Seq(S)
            PROVE  /\ s \o t \in Seq(S) /\ Len(s \o t) = Len(s) + Len(t)
                   /\ \A i \in 1..Len(s) : (s \o t)[i] = s[i]
                   /\ \A i \in 1..Len(t) : (s \o t)[Len(s) + i] = t[i]
        BY <3>1
      <3> QED
        BY <1>2, <3>1
    <2>2. 1 \in 1..Len(s) /\ 1 \in 1..Len(t) /\ Len(s) + 1 = 2 /\ Len(s) + Len(t) = 2
      BY <1>2
    <2>3. (s \o t)[Len(s) + 1] = t[1] /\ (s \o t)[1] = s[1]
      BY <2>1, <2>2
    <2> QED
      BY <1>2, <2>1, <2>2, <2>3
  <1>4. \A i \in 1..2 : u[i] = (s \o t)[i]
    <2>1. \A i \in 1..2 : i = 1 \/ i = 2
      OBVIOUS
    <2> QED
      BY <1>2, <1>3, <2>1
  <1>5. u = s \o t
    BY <1>2, <1>3, <1>4
  <1> QED
    BY <1>5 DEF s, t, u

\* A sequence of three.
LEMMA ThreeOnes ==
    ASSUME NEW x, NEW y, NEW z PROVE << x, y, z >> = << x >> \o (<< y >> \o << z >>)
  <1> DEFINE s == << x >>  t == << y, z >>  u == << x, y, z >>
  <1>1. /\ s \in Seq({x, y, z}) /\ Len(s) = 1 /\ s[1] = x
        /\ t \in Seq({x, y, z}) /\ Len(t) = 2 /\ t[1] = y /\ t[2] = z
        /\ u \in Seq({x, y, z}) /\ Len(u) = 3 /\ u[1] = x /\ u[2] = y /\ u[3] = z
    OBVIOUS
  <1>2. t = << y >> \o << z >>
    BY TwoOnes
  <1> HIDE DEF s, t, u
  <1>3. /\ s \o t \in Seq({x, y, z}) /\ Len(s \o t) = 3
        /\ (s \o t)[1] = x /\ (s \o t)[2] = y /\ (s \o t)[3] = z
    <2>1. /\ s \o t \in Seq({x, y, z}) /\ Len(s \o t) = Len(s) + Len(t)
          /\ \A i \in 1..Len(s) : (s \o t)[i] = s[i]
          /\ \A i \in 1..Len(t) : (s \o t)[Len(s) + i] = t[i]
      <3>1. ASSUME NEW S, s \in Seq(S), t \in Seq(S)
            PROVE  /\ s \o t \in Seq(S) /\ Len(s \o t) = Len(s) + Len(t)
                   /\ \A i \in 1..Len(s) : (s \o t)[i] = s[i]
                   /\ \A i \in 1..Len(t) : (s \o t)[Len(s) + i] = t[i]
        BY <3>1
      <3> QED
        BY <1>1, <3>1
    <2>2. /\ 1 \in 1..Len(s) /\ 1 \in 1..Len(t) /\ 2 \in 1..Len(t)
          /\ Len(s) + 1 = 2 /\ Len(s) + 2 = 3 /\ Len(s) + Len(t) = 3
      BY <1>1
    <2>3. /\ (s \o t)[1] = s[1] /\ (s \o t)[Len(s) + 1] = t[1]
          /\ (s \o t)[Len(s) + 2] = t[2]
      BY <2>1, <2>2
    <2> QED
      BY <1>1, <2>1, <2>2, <2>3
  <1>4. \A i \in 1..3 : u[i] = (s \o t)[i]
    <2>1. \A i \in 1..3 : i = 1 \/ i = 2 \/ i = 3
      OBVIOUS
    <2> QED
      BY <1>1, <1>3, <2>1
  <1>5. u = s \o t
    BY <1>1, <1>3, <1>4
  <1> QED
    BY <1>2, <1>5 DEF s, u

\* A piece leads from either of two sets.
LEMMA EitherWay ==
    ASSUME NEW X, NEW s, NEW F, NEW G, NEW H, NEW I, Leads(X, s, F, H), Leads(X, s, G, I)
    PROVE  Leads(X, s, F \cup G, H \cup I)
  <1>1. PICK v : IsWalk(X, v, s) /\ F \subseteq v[1] /\ v[Len(s)+1] \subseteq H
    BY DEF Leads
  <1>2. PICK w : IsWalk(X, w, s) /\ G \subseteq w[1] /\ w[Len(s)+1] \subseteq I
    BY DEF Leads
  <1>3. IsPiece(s) /\ Len(s) \in Nat
    BY DEF Leads, IsPiece
  <1> DEFINE n == Len(s)
             z == [i \in 1..n+1 |-> v[i] \cup w[i]]
  <1>4. z \in [1..n+1 -> SUBSET Standing(X)] /\ \A i \in 1..n+1 : z[i] = v[i] \cup w[i]
    BY <1>1, <1>2 DEF IsWalk
  <1> HIDE DEF z
  <1>5. ASSUME NEW i \in 1..n PROVE StepsOn(X, s, z, i)
    <2>1. StepsOn(X, s, v, i) /\ StepsOn(X, s, w, i)
      BY <1>1, <1>2 DEF IsWalk
    <2>2. i \in 1..n+1 /\ i + 1 \in 1..n+1
      BY <1>3
    <2>3. z[i] = v[i] \cup w[i] /\ z[i+1] = v[i+1] \cup w[i+1]
      BY <1>4, <2>2
    <2>4. CASE s[i].op = "when"
      <3>1. s[i].over \in Nat /\ i + s[i].over <= n
        BY <2>1, <2>4 DEF StepsOn
      <3>2. i + 1 + s[i].over \in 1..n+1
        BY <1>3, <3>1
      <3>3. z[i + 1 + s[i].over] = v[i + 1 + s[i].over] \cup w[i + 1 + s[i].over]
        BY <1>4, <3>2
      <3> QED
        BY <2>1, <2>3, <2>4, <3>1, <3>3 DEF StepsOn
    <2>5. CASE s[i].op # "when"
      BY <2>1, <2>3, <2>5 DEF StepsOn
    <2> QED
      BY <2>4, <2>5
  <1>6. 1 \in 1..n+1 /\ n + 1 \in 1..n+1
    BY <1>3
  <1>7. F \cup G \subseteq z[1] /\ z[n+1] \subseteq H \cup I
    BY <1>1, <1>2, <1>4, <1>6
  <1> QED
    BY <1>3, <1>4, <1>5, <1>7 DEF Leads, IsWalk
\* Rows, statuses and entries change when a request commits.
LEMMA OnlyCommits ==
    ASSUME [Next]_vars
    PROVE  (\E r \in Requests : Commit(r)) \/ UNCHANGED <<row, doc, journal>>
  <1>1. ASSUME NEW r \in Requests, NEW how, Rollback(r, how) PROVE UNCHANGED <<row, doc, journal>>
    BY <1>1 DEF Rollback
  <1>2. ASSUME NEW r \in Requests, NEW a, NEW x, NEW n, Update(r, a, x, n)
        PROVE  UNCHANGED <<row, doc, journal>>
    BY <1>1, <1>2 DEF Update
  <1>3. ASSUME NEW r \in Requests, NEW ok, NEW how, Require(r, ok, how)
        PROVE  UNCHANGED <<row, doc, journal>>
    BY <1>1, <1>3 DEF Require, sql
  <1>4. ASSUME NEW r \in Requests, NEW how, ChangeDoc(r, how)
        PROVE  UNCHANGED <<row, doc, journal>>
    BY <1>1, <1>4 DEF ChangeDoc
  <1>5. ASSUME NEW r \in Requests, NEW t \in Tasks, Begin(r, t)
        PROVE  UNCHANGED <<row, doc, journal>>
    BY <1>5 DEF Begin, sql
  <1>6. ASSUME NEW r \in Requests, Abort(r) PROVE UNCHANGED <<row, doc, journal>>
    BY <1>1, <1>6 DEF Abort
  <1>7. CASE UNCHANGED vars
    BY <1>7 DEF vars, sql
  <1>8. ASSUME NEW r \in Requests, Execute(r), ~Commit(r) PROVE UNCHANGED <<row, doc, journal>>
    <2>1. CASE Lock(r) \/ Set(r) \/ Ensure(r) \/ Sweep(r)
      BY <2>1 DEF Lock, Set, Ensure, Sweep
    <2>2. CASE Funds(r) \/ WithinLimit(r) \/ Expect(r) \/ Find(r)
      BY <1>3, <2>2 DEF Funds, WithinLimit, Expect, Find
    <2>3. CASE Insert(r) \/ Mark(r)
      BY <1>4, <2>3 DEF Insert, Mark
    <2>4. CASE NetOut(r) \/ PostGL(r)
      BY <1>1, <2>4 DEF NetOut, PostGL, sql
    <2>5. CASE Tally(r) \/ When(r) \/ TriggerRead(r)
      BY <2>5 DEF Tally, When, TriggerRead, sql
    <2>6. CASE Hold(r) \/ Floor(r) \/ TriggerWrite(r) \/ Recompute(r) \/ RecomputeCard(r) \/ UseLimit(r)
      BY <1>2, <2>6 DEF Hold, Floor, TriggerWrite, Recompute, RecomputeCard, UseLimit
    <2> QED
      BY <1>8, <2>1, <2>2, <2>3, <2>4, <2>5, <2>6 DEF Execute
  <1> QED
    BY <1>5, <1>6, <1>7, <1>8 DEF Next, Done


\* A statement that is not about the rows in view.
Aside(X, s) == s.op \notin {"when", "sweep"} /\ s.row \notin X

\* What is said of a transaction by its locks alone.
OfLocks(X, G) ==
    /\ G \in SUBSET Standing(X)
    /\ \A l \in G, m \in Standing(X) : SameLocks(l, m) => m \in G

\* A statement that is not about the rows in view leaves them alone.
LEMMA AsideStands ==
    ASSUME NEW X, NEW s, Aside(X, s), NEW l \in Standing(X), NEW m \in Standing(X), Does(X, s, l, m)
    PROVE  SameLocks(l, m)
  <1>1. s.row \notin X /\ s.op # "sweep"
    BY DEF Aside
  <1>2. CASE s.op \in AccountWrites
    BY <1>1, <1>2 DEF Does, AccountWrites, DocWrites
  <1>3. CASE s.op \notin AccountWrites
    BY <1>1, <1>3 DEF Does, DocWrites, SameLocks, SameDocs, SameRows
  <1> QED
    BY <1>2, <1>3

\* So what is said by the locks alone still holds after it,
LEMMA AsideLeads ==
    ASSUME NEW X, NEW s, Aside(X, s), NEW G, OfLocks(X, G)
    PROVE  Leads(X, << s >>, G, G)
  <1>1. \A l \in G, m \in Standing(X) : Does(X, s, l, m) => m \in G
    BY AsideStands DEF OfLocks
  <1> QED
    BY <1>1, LeadsByOne DEF OfLocks, Aside

\* A piece of such statements.
AllAside(X, s) == IsPiece(s) /\ \A i \in 1..Len(s) : Aside(X, s[i])

\* and after a piece of such statements.
LEMMA AllAsideLeads ==
    ASSUME NEW X, NEW s, AllAside(X, s), NEW G, OfLocks(X, G)
    PROVE  Leads(X, s, G, G)
  <1> DEFINE w == [i \in 1..Len(s)+1 |-> G]
  <1>1. Len(s) \in Nat /\ IsPiece(s)
    BY DEF AllAside, IsPiece
  <1>2. w \in [1..Len(s)+1 -> SUBSET Standing(X)]
    BY DEF OfLocks
  <1>3. ASSUME NEW i \in 1..Len(s) PROVE StepsOn(X, s, w, i)
    <2>1. w[i] = G /\ w[i+1] = G
      BY <1>1
    <2>2. Aside(X, s[i])
      BY DEF AllAside
    <2>3. \A l \in G, m \in Standing(X) : Does(X, s[i], l, m) => m \in G
      BY <2>2, AsideStands DEF OfLocks
    <2> HIDE DEF w
    <2> QED
      BY <2>1, <2>2, <2>3 DEF StepsOn, Aside
  <1>4. w[1] = G /\ w[Len(s)+1] = G
    BY <1>1
  <1> HIDE DEF w
  <1> QED
    BY <1>1, <1>2, <1>3, <1>4 DEF Leads, IsWalk

\* A piece of one of them.
LEMMA AsideOne ==
    ASSUME NEW X, NEW s, Aside(X, s)
    PROVE  AllAside(X, << s >>)
  <1> DEFINE u == << s >>
  <1>1. u \in Seq({s}) /\ Len(u) = 1 /\ u[1] = s /\ \A i \in 1..1 : i = 1
    OBVIOUS
  <1> HIDE DEF u
  <1>2. AllAside(X, u)
    BY <1>1 DEF AllAside, IsPiece
  <1> QED
    BY <1>2 DEF u

\* Two pieces of them.
LEMMA AsideOn ==
    ASSUME NEW X, NEW s, NEW t, AllAside(X, s), AllAside(X, t)
    PROVE  AllAside(X, s \o t)
  <1>1. /\ IsPiece(s \o t) /\ Len(s \o t) = Len(s) + Len(t)
        /\ Len(s) \in Nat /\ Len(t) \in Nat
        /\ \A i \in 1..Len(s) : (s \o t)[i] = s[i]
        /\ \A i \in 1..Len(t) : (s \o t)[Len(s) + i] = t[i]
    BY PiecesJoin DEF AllAside
  <1>2. ASSUME NEW i \in 1..Len(s \o t) PROVE Aside(X, (s \o t)[i])
    <2>1. CASE i <= Len(s)
      BY <1>1, <2>1 DEF AllAside
    <2>2. CASE i > Len(s)
      <3>1. i - Len(s) \in 1..Len(t) /\ Len(s) + (i - Len(s)) = i
        BY <1>1, <2>2
      <3> QED
        BY <1>1, <3>1 DEF AllAside
    <2> QED
      BY <1>1, <2>1, <2>2
  <1> QED
    BY <1>1, <1>2 DEF AllAside

\* A task none of whose statements changes a row of X.
KeepsOff(X, t) ==
    \A i \in 1..Len(Script[t]) :
        Script[t][i].op # "sweep" /\ (Script[t][i].op # "when" => Script[t][i].row \notin X)

Spared(X) == {l \in Standing(X) : l.own = {}}

\* A request that has begun has spared every row.
LEMMA FreshSpared == ASSUME NEW X PROVE {Fresh(X)} \cap Standing(X) \subseteq Spared(X)
  BY DEF Spared, Fresh

\* What is said of a transaction that no statement of a script can make untrue
\* is said of it to the end, whichever way its branches go.
LEMMA AlwaysEnds ==
    ASSUME NEW X \in SUBSET Rows, NEW t \in Tasks, NEW G \in SUBSET Standing(X),
           {Fresh(X)} \subseteq G,
           \A i \in 1..Len(Script[t]) : Script[t][i].op # "when" =>
               \A l \in G, m \in Standing(X) : Does(X, Script[t][i], l, m) => m \in G
    PROVE  EndsIn(X, t, G)
  <1> DEFINE s == Script[t]  w == [i \in 1..Len(s)+1 |-> G]
  <1>1. /\ s \in Seq(Statement) /\ Len(s) \in Nat /\ IsPiece(s)
        /\ \A i \in 1..Len(s) : s[i].op = "when" => i + s[i].over < Len(s) /\ s[i].over \in Nat
    <2>1. s \in Seq(Statement)
      BY ScriptAssumption
    <2>2. \A i \in 1..Len(s) : s[i].op = "when" => i + s[i].over < Len(s)
      BY ScriptAssumption
    <2>3. \A x \in Statement : x.op = "when" => x.over \in Nat
      BY DEF Statement, AccountOps, AccountWrites, DocOps, DocWrites
    <2> QED
      BY <2>1, <2>2, <2>3 DEF IsPiece
  <1>3. \A i \in 1..Len(s) : s[i].op # "when" =>
           \A l \in G, m \in Standing(X) : Does(X, s[i], l, m) => m \in G
    OBVIOUS
  <1> HIDE DEF s
  <1>2. w \in [1..Len(s)+1 -> SUBSET Standing(X)] /\ \A i \in 1..Len(s)+1 : w[i] = G
    OBVIOUS
  <1> HIDE DEF w
  <1>4. ASSUME NEW i \in 1..Len(s) PROVE StepsOn(X, s, w, i)
    <2>1. i \in 1..Len(s)+1 /\ i + 1 \in 1..Len(s)+1
      BY <1>1
    <2>2. CASE s[i].op = "when"
      <3>1. s[i].over \in Nat /\ i + s[i].over < Len(s)
        BY <1>1, <2>2
      <3>2. i + 1 + s[i].over \in 1..Len(s)+1 /\ i + s[i].over <= Len(s)
        BY <1>1, <3>1
      <3> QED
        BY <1>2, <2>1, <2>2, <3>1, <3>2 DEF StepsOn
    <2>3. CASE s[i].op # "when"
      BY <1>2, <1>3, <2>1, <2>3 DEF StepsOn
    <2> QED
      BY <2>2, <2>3
  <1>6. 1 \in 1..Len(s)+1 /\ Len(s)+1 \in 1..Len(s)+1
    BY <1>1
  <1>7. Leads(X, s, {Fresh(X)}, G)
    BY <1>1, <1>2, <1>4, <1>6 DEF Leads, IsWalk
  <1> QED
    BY <1>7 DEF EndsIn, s

\* A script that keeps off the rows in view commits nothing to them.
LEMMA SparedEnds ==
    ASSUME NEW X \in SUBSET Rows, NEW t \in Tasks, KeepsOff(X, t), Fresh(X) \in Standing(X)
    PROVE  EndsIn(X, t, Spared(X))
  <1>1. {Fresh(X)} \subseteq Spared(X) /\ Spared(X) \in SUBSET Standing(X)
    BY FreshSpared DEF Spared
  <1>2. ASSUME NEW i \in 1..Len(Script[t]), Script[t][i].op # "when",
               NEW l \in Spared(X), NEW m \in Standing(X), Does(X, Script[t][i], l, m)
        PROVE  m \in Spared(X)
    <2>1. SameLocks(l, m)
      BY <1>2, AsideStands DEF KeepsOff, Aside, Spared
    <2> QED
      BY <2>1 DEF Spared, SameLocks
  <1> QED
    BY <1>1, <1>2, AlwaysEnds
-----------------------------------------------------------------------------
\* A statement that is not about the rows in view, and tells the core nothing.
Beside(X, s) == Aside(X, s) /\ s.op # "gl"

\* What is said of a transaction by its locks and by what it has told the core.
OfLocksAndTold(X, G) ==
    /\ G \in SUBSET Standing(X)
    /\ \A l \in G, m \in Standing(X) : SameLocks(l, m) /\ m.told = l.told => m \in G

\* It leaves the rows in view, and what the core has been told.
LEMMA BesideStands ==
    ASSUME NEW X, NEW s, Beside(X, s), NEW l \in Standing(X), NEW m \in Standing(X), Does(X, s, l, m)
    PROVE  SameLocks(l, m) /\ m.told = l.told
  <1>1. SameLocks(l, m)
    BY AsideStands DEF Beside
  <1>2. l.told \in Int
    BY DEF Standing
  <1>3. m.told = l.told
    BY <1>2 DEF Beside, Aside, Does, SameSums, SameLocks, ChangesDoc
  <1> QED
    BY <1>1, <1>3

AllBeside(X, s) == IsPiece(s) /\ \A i \in 1..Len(s) : Beside(X, s[i])

\* So does a piece of such statements.
LEMMA AllBesideLeads ==
    ASSUME NEW X, NEW s, AllBeside(X, s), NEW G, OfLocksAndTold(X, G)
    PROVE  Leads(X, s, G, G)
  <1> DEFINE w == [i \in 1..Len(s)+1 |-> G]
  <1>1. Len(s) \in Nat /\ IsPiece(s)
    BY DEF AllBeside, IsPiece
  <1>2. w \in [1..Len(s)+1 -> SUBSET Standing(X)]
    BY DEF OfLocksAndTold
  <1>3. ASSUME NEW i \in 1..Len(s) PROVE StepsOn(X, s, w, i)
    <2>1. w[i] = G /\ w[i+1] = G
      BY <1>1
    <2>2. Beside(X, s[i])
      BY DEF AllBeside
    <2>3. \A l \in G, m \in Standing(X) : Does(X, s[i], l, m) => m \in G
      BY <2>2, BesideStands DEF OfLocksAndTold
    <2> HIDE DEF w
    <2> QED
      BY <2>1, <2>2, <2>3 DEF StepsOn, Beside, Aside
  <1>4. w[1] = G /\ w[Len(s)+1] = G
    BY <1>1
  <1> HIDE DEF w
  <1> QED
    BY <1>1, <1>2, <1>3, <1>4 DEF Leads, IsWalk

\* A piece of one of them.
LEMMA BesideOne ==
    ASSUME NEW X, NEW s, Beside(X, s)
    PROVE  AllBeside(X, << s >>)
  <1> DEFINE u == << s >>
  <1>1. u \in Seq({s}) /\ Len(u) = 1 /\ u[1] = s /\ \A i \in 1..1 : i = 1
    OBVIOUS
  <1> HIDE DEF u
  <1>2. AllBeside(X, u)
    BY <1>1 DEF AllBeside, IsPiece
  <1> QED
    BY <1>2 DEF u

\* Two pieces of them.
LEMMA BesideOn ==
    ASSUME NEW X, NEW s, NEW t, AllBeside(X, s), AllBeside(X, t)
    PROVE  AllBeside(X, s \o t)
  <1>1. /\ IsPiece(s \o t) /\ Len(s \o t) = Len(s) + Len(t)
        /\ Len(s) \in Nat /\ Len(t) \in Nat
        /\ \A i \in 1..Len(s) : (s \o t)[i] = s[i]
        /\ \A i \in 1..Len(t) : (s \o t)[Len(s) + i] = t[i]
    BY PiecesJoin DEF AllBeside
  <1>2. ASSUME NEW i \in 1..Len(s \o t) PROVE Beside(X, (s \o t)[i])
    <2>1. CASE i <= Len(s)
      BY <1>1, <2>1 DEF AllBeside
    <2>2. CASE i > Len(s)
      <3>1. i - Len(s) \in 1..Len(t) /\ Len(s) + (i - Len(s)) = i
        BY <1>1, <2>2
      <3> QED
        BY <1>1, <3>1 DEF AllBeside
    <2> QED
      BY <1>1, <2>1, <2>2
  <1> QED
    BY <1>1, <1>2 DEF AllBeside

\* A sequence of two.
LEMMA BesideTwo ==
    ASSUME NEW X, NEW s, NEW t, Beside(X, s), Beside(X, t)
    PROVE  AllBeside(X, << s, t >>)
  BY BesideOne, BesideOn, TwoOnes

\* A sequence of three.
LEMMA BesideThree ==
    ASSUME NEW X, NEW s, NEW t, NEW u, Beside(X, s), Beside(X, t), Beside(X, u)
    PROVE  AllBeside(X, << s, t, u >>)
  BY BesideOne, BesideOn, ThreeOnes

-----------------------------------------------------------------------------
(* Single statements. *)

\* A statement changes a row in view that is locked.
LEMMA ChangeOwned ==
    ASSUME NEW X, NEW s, NEW c \in X \cap Accounts, s.row = c, s.op \in AccountWrites,
           NEW l \in Standing(X), c \in l.own, NEW m \in Standing(X), Does(X, s, l, m)
    PROVE  /\ m.own = l.own /\ SameDocs(l, m) /\ SameSums(l, m)
           /\ m.row[c] = l.row[c] /\ m.draft[c] = RowAfter(s, l, l.draft[c])
           /\ m.seen = SeenAfter(s, l)
  <1>1. ChangesRow(s, l, m) /\ m.seen = SeenAfter(s, l)
    BY DEF Does, AccountWrites, DocWrites
  <1>2. l.row \in [X \cap Accounts -> AccountRow] /\ l.draft \in [X \cap Accounts -> AccountRow]
    BY DEF Standing
  <1> QED
    BY <1>1, <1>2 DEF ChangesRow, TakesRow

\* A lock of a row in view that is not.
LEMMA LockLeads ==
    ASSUME NEW X, NEW s, NEW c \in X \cap Accounts, s.row = c, s.op = "lock",
           NEW l \in Standing(X), c \notin l.own, NEW m \in Standing(X), Does(X, s, l, m)
    PROVE  /\ m.own = l.own \cup {c} /\ SameDocs(l, m) /\ SameSums(l, m)
           /\ m.row[c] \in AccountRow /\ m.draft[c] = m.row[c]
  <1>1. ChangesRow(s, l, m)
    BY DEF Does, AccountWrites, DocWrites
  <1>2. PICK v \in AccountRow : TakesRow(l, m, c, v, RowAfter(s, l, v)) /\ SameDocs(l, m) /\ SameSums(l, m)
    BY <1>1 DEF ChangesRow
  <1>3. RowAfter(s, l, v) = v
    BY DEF RowAfter
  <1>4. l.row \in [X \cap Accounts -> AccountRow] /\ l.draft \in [X \cap Accounts -> AccountRow]
    BY DEF Standing
  <1> QED
    BY <1>2, <1>3, <1>4 DEF TakesRow

\* An insert or a guarded transition of a row in view.
LEMMA MarkOne ==
    ASSUME NEW X, NEW s, NEW d \in X \cap Docs, s.row = d, s.op \in {"insert", "mark"},
           NEW l \in Standing(X), d \notin l.own, NEW m \in Standing(X), Does(X, s, l, m)
    PROVE  /\ m.own = l.own \cup {d} /\ SameRows(l, m) /\ SameSums(l, m) /\ m.seen = l.seen
           /\ m.was[d] = s.was /\ m.now[d] = s.tag
           /\ \A e \in (X \cap Docs) \ {d} : m.was[e] = l.was[e] /\ m.now[e] = l.now[e]
  <1>1. ChangesDoc(s, l, m)
    BY DEF Does, AccountWrites, DocWrites
  <1>2. PICK v \in STRING : /\ v = s.was /\ TakesDoc(l, m, d, v, StatusAfter(s, v))
                            /\ SameRows(l, m) /\ SameSums(l, m) /\ m.seen = l.seen
    BY <1>1 DEF ChangesDoc
  <1>3. StatusAfter(s, v) = s.tag
    BY DEF StatusAfter
  <1>4. l.was \in [X \cap Docs -> STRING] /\ l.now \in [X \cap Docs -> STRING]
    BY DEF Standing
  <1> QED
    BY <1>2, <1>3, <1>4 DEF TakesDoc
\* One statement is a piece.
LEMMA OnePiece == ASSUME NEW x PROVE IsPiece(<< x >>)
  <1>1. << x >> \in Seq({x})
    OBVIOUS
  <1> QED
    BY <1>1 DEF IsPiece

\* A sequence of five.
LEMMA FiveOnes ==
    ASSUME NEW a, NEW b, NEW c, NEW d, NEW e
    PROVE  << a, b, c, d, e >> = << a >> \o (<< b >> \o (<< c >> \o (<< d >> \o << e >>)))
  <1>1. << a, b, c, d, e >> = << a, b >> \o << c, d, e >>
    OBVIOUS
  <1>2. << a, b >> = << a >> \o << b >> /\ << c, d, e >> = << c >> \o (<< d >> \o << e >>)
    BY TwoOnes, ThreeOnes
  <1>3. IsPiece(<< a >>) /\ IsPiece(<< b >>) /\ IsPiece(<< c >> \o (<< d >> \o << e >>))
    <2>1. IsPiece(<< a >>) /\ IsPiece(<< b >>) /\ IsPiece(<< c >>) /\ IsPiece(<< d >>) /\ IsPiece(<< e >>)
      BY OnePiece
    <2> QED
      BY <2>1, PiecesJoin
  <1> DEFINE r == << c >> \o (<< d >> \o << e >>)  p == << a >>  q == << b >>
  <1> HIDE DEF r, p, q
  <1>4. IsPiece(p) /\ IsPiece(q) /\ IsPiece(r) /\ << a, b, c, d, e >> = (p \o q) \o r
    BY <1>1, <1>2, <1>3 DEF p, q, r
  <1>5. (p \o q) \o r = p \o (q \o r)
    <2>1. PICK S : p \in Seq(S)
      BY <1>4 DEF IsPiece
    <2>2. PICK T : q \in Seq(T)
      BY <1>4 DEF IsPiece
    <2>3. PICK U : r \in Seq(U)
      BY <1>4 DEF IsPiece
    <2> DEFINE V == S \cup T \cup U
    <2>4. p \in Seq(V) /\ q \in Seq(V) /\ r \in Seq(V)
      BY <2>1, <2>2, <2>3
    <2> HIDE DEF V
    <2> QED
      BY <2>4
  <1> QED
    BY <1>4, <1>5 DEF p, q, r

\* The first of a sequence of four stays first when a fifth is appended.
LEMMA HeadOfFive ==
    ASSUME NEW x, NEW f, NEW g, NEW h, NEW i, NEW j, x = << f, g, h, i >> \o << j >>
    PROVE  x[1] = f
  <1> DEFINE s == << f, g, h, i >>  u == << j >>  S == {f, g, h, i, j}
  <1>1. s \in Seq(S) /\ u \in Seq(S)
    <2>1. f \in S /\ g \in S /\ h \in S /\ i \in S /\ j \in S
      OBVIOUS
    <2> HIDE DEF S
    <2> QED
      BY <2>1
  <1>2. Len(s) = 4
    OBVIOUS
  <1>3. s[1] = f
    OBVIOUS
  <1> HIDE DEF s, u, S
  <1>4. 1 \in 1..Len(s)
    BY <1>2
  <1>5. (s \o u)[1] = s[1]
    BY <1>1, <1>4
  <1> QED
    BY <1>3, <1>5 DEF s, u

\* An unguarded change of a row in view that is not locked yet.
LEMMA OverwriteLeads ==
    ASSUME NEW X \in SUBSET Docs, NEW k \in Docket(X), NEW p, NEW g, NEW x \in X \ k.own, NEW w
    PROVE  Leads(X, << OnDoc("set", x, Blank, w) >>, Stood(X, k, p, g),
                 UNION {Stood(X, Marked(k, x, v, w), p, g) : v \in STRING})
  <1> DEFINE s == OnDoc("set", x, Blank, w)
             H == UNION {Stood(X, Marked(k, x, v, w), p, g) : v \in STRING}
  <1>1. s.op = "set" /\ s.row = x /\ s.tag = w
    BY DEF OnDoc, Stmt
  <1> HIDE DEF s
  <1>3. ASSUME NEW l \in Stood(X, k, p, g), NEW m \in Standing(X), Does(X, s, l, m)
        PROVE  m \in H
    <2>1. ChangesDoc(s, l, m)
      BY <1>1, <1>3 DEF Does, AccountWrites
    <2>2. PICK v \in STRING : TakesDoc(l, m, x, v, w) /\ SameSums(l, m) /\ m.posts = l.posts
      BY <1>1, <2>1 DEF ChangesDoc, StatusAfter
    <2>3. l.own = k.own /\ l.was = k.was /\ l.now = k.now /\ l.posts = p /\ l.told = g
      BY DEF Stood
    <2>4. m.own = k.own \cup {x} /\ m.was = [k.was EXCEPT ![x] = v]
          /\ m.now = [k.now EXCEPT ![x] = w] /\ m.posts = p /\ m.told = g
      BY <2>2, <2>3 DEF TakesDoc, SameSums
    <2>5. m \in Stood(X, Marked(k, x, v, w), p, g)
      BY <2>4 DEF Stood, Marked
    <2> QED
      BY <2>5
  <1>4. s.op # "when"
    BY <1>1
  <1>5. Leads(X, << s >>, Stood(X, k, p, g), H)
    BY <1>3, <1>4, StoodType, LeadsByOne
  <1> QED
    BY <1>5 DEF s

\* What is marked, and what is not.
LEMMA MarkedAt ==
    ASSUME NEW X, NEW k \in Docket(X), NEW x \in X, NEW v \in STRING, NEW w \in STRING
    PROVE  LET m == Marked(k, x, v, w) IN
           /\ m \in Docket(X) /\ m.own = k.own \cup {x}
           /\ m.was[x] = (IF x \in k.own THEN k.was[x] ELSE v) /\ m.now[x] = w
           /\ \A d \in X \ {x} : m.was[d] = k.was[d] /\ m.now[d] = k.now[d]
  <1>1. Marked(k, x, v, w) \in Docket(X)
    BY MarkedType
  <1>2. k.was \in [X -> STRING] /\ k.now \in [X -> STRING]
    BY DEF Docket
  <1> QED
    BY <1>1, <1>2 DEF Marked

\* A row that is locked already.
LEMMA MarkedAgain ==
    ASSUME NEW X, NEW k \in Docket(X), NEW x \in k.own, NEW w \in STRING
    PROVE  LET m == Marked(k, x, Blank, w) IN
           m \in Docket(X) /\ m.own = k.own /\ m.was = k.was /\ m.now[x] = w
  <1>1. k.own \in SUBSET X /\ k.was \in [X -> STRING] /\ k.now \in [X -> STRING] /\ x \in X
    BY DEF Docket
  <1>2. [k.now EXCEPT ![x] = w] \in [X -> STRING] /\ [k.now EXCEPT ![x] = w][x] = w
    BY <1>1
  <1>3. k.own \cup {x} = k.own
    OBVIOUS
  <1> QED
    BY <1>1, <1>2, <1>3 DEF Marked, Docket
-----------------------------------------------------------------------------
\* What was posted stays posted, of the same task, with what the core was told.
PostedStay ==
    /\ \A q \in Requests : outcome'[q] = "posted" <=> outcome[q] = "posted"
    /\ \A q \in Requests : outcome[q] = "posted" => task'[q] = task[q] /\ gl'[q] = gl[q]

\* A request is posted when it commits,
LEMMA OnlyCommitsPost ==
    ASSUME TypeOK, Unlocked, [Next]_vars
    PROVE  (\E r \in Requests : Commit(r)) \/ PostedStay
  <1>1. CASE UNCHANGED vars
    BY <1>1 DEF PostedStay, vars
  <1>2. ASSUME NEW r \in Requests, NEW t \in Tasks, Begin(r, t) PROVE PostedStay
    BY <1>2 DEF Begin, PostedStay, TypeOK
  <1>3. ASSUME NEW r \in Requests, NEW how \in {"refused", "replayed", "failed", "tripped"},
               outcome[r] = "open", Rollback(r, how), \A q \in Requests \ {r} : gl'[q] = gl[q]
        PROVE  PostedStay
    BY <1>3 DEF Rollback, Finish, PostedStay, TypeOK
  <1>4. ASSUME NEW r \in Requests, Execute(r), ~Commit(r) PROVE PostedStay
    <2>1. {} \in SUBSET Rows
      OBVIOUS
    <2>2. /\ r \in Open /\ StepOf(r) /\ (Ran({}, r) \/ GaveUp(r) \/ Chose({}, r))
      BY <1>4, <2>1, ExecuteStands
    <2>3. outcome[r] = "open"
      BY <2>2 DEF Open
    <2>4. CASE GaveUp(r)
      BY <1>3, <2>3, <2>4 DEF GaveUp
    <2>5. CASE Ran({}, r) \/ Chose({}, r)
      <3>1. outcome' = outcome /\ task' = task
        BY <2>5 DEF Ran, Advance, Chose
      <3>2. \A q \in Requests \ {r} : gl'[q] = gl[q]
        BY <2>2 DEF StepOf
      <3> QED
        BY <2>3, <3>1, <3>2 DEF PostedStay
    <2> QED
      BY <2>2, <2>4, <2>5
  <1>5. ASSUME NEW r \in Requests, Abort(r) PROVE PostedStay
    BY <1>3, <1>5 DEF Abort
  <1> QED
    BY <1>1, <1>2, <1>4, <1>5 DEF Next, Done

\* and it alone.
LEMMA CommitIsPosted ==
    ASSUME TypeOK, NEW r \in Requests, Commit(r)
    PROVE  /\ outcome[r] = "open" /\ task' = task /\ gl' = gl
           /\ \A q \in Requests : outcome'[q] = IF q = r THEN "posted" ELSE outcome[q]
  BY DEF Commit, At, Finish, TypeOK
=============================================================================
