----------------------------- MODULE Subledger -----------------------------
(***************************************************************************)
(* The subledger: the PostgreSQL tables `accounts`, `account_limits`,      *)
(* `transactions` and `transaction_entries`, and the database transactions *)
(* (READ COMMITTED, row locks held to the end) in which the API's handlers *)
(* change them while they call the accounting core over HTTP.              *)
(*                                                                         *)
(* A handler is a script, the sequence of the statements it issues between *)
(* BEGIN and COMMIT (a pooled read before BEGIN is a leading statement of  *)
(* the script).  Each statement is one step, so the requests interleave at *)
(* every point where the code awaits the database or the core.  What a     *)
(* particular handler's script is, is said by the modules that extend this *)
(* one; this module says what each kind of statement does.                 *)
(*                                                                         *)
(* Balances follow the trigger's convention: a credit raises `balance`, a  *)
(* debit lowers it.  Amounts are whole units (cents).                      *)
(***************************************************************************)
EXTENDS Integers, Sequences, FiniteSets

CONSTANTS
    Requests,    \* concurrent API requests, each served by one handler call
    Accounts,    \* rows of `accounts` (with the `account_limits` row of each)
    Docs,        \* other rows a handler guards by status (`transactions`, ...)
    Meters,      \* counters of `account_limits` ("withdrawal", "transfer")
    Tasks,       \* what a request may ask for
    Script,      \* Script[t]: the statements the handler of task t issues
    Singles,     \* tasks that make a new row with no key, one request each
    OpeningRow,  \* OpeningRow[a]: the account row before the first request
    OpeningDoc,  \* OpeningDoc[d]: its status then, Absent if it has no row
    Overdraft,   \* accounts.overdraft_limit
    Limit,       \* Limit[a][m]: the limit of meter m
    NoTask, NoOne, Absent

(***************************************************************************)
(* Statements.  A statement has an operation, the row it is about, an      *)
(* amount, the status it expects the row to have (was) and the status it   *)
(* gives it or the meter it is about (tag); unused fields are blank.       *)
(***************************************************************************)
Rows == Accounts \cup Docs
Blank == "blank"
ByNet == "net"   \* tag of an amount that multiplies the batch's net amount

\* Statements that leave the row locked by their transaction.
AccountWrites == {"lock", "floor", "write", "recompute", "recard", "hold", "use"}
DocWrites == {"insert", "mark", "set", "ensure"}
Locking == AccountWrites \cup DocWrites
AccountOps == AccountWrites \cup {"funds", "limit", "read", "net"}
DocOps == DocWrites \cup {"find", "expect"}

Stmt(op, x, n, was, tag) == [op |-> op, row |-> x, amt |-> n, was |-> was, tag |-> tag]
Do(op, a, n) == Stmt(op, a, n, Blank, Blank)
OnMeter(op, a, n, m) == Stmt(op, a, n, Blank, m)
OnDoc(op, d, was, tag) == Stmt(op, d, 0, was, tag)

\* A branch of a handler: body is skipped unless the row is in the state given
\* (for an account, one of the conditions of Holds); or skipped in any case.
Test(x, state, n, how, over) ==
    [op |-> "when", row |-> x, amt |-> n, was |-> state, tag |-> how, over |-> over]
If(x, state, n, body) == << Test(x, state, n, "if", Len(body)) >> \o body
IfElse(x, state, n, body, other) ==
    If(x, state, n, body \o << Test(x, state, n, "skip", Len(other)) >>) \o other

Statement ==
         [op : AccountOps, row : Accounts, amt : Int, was : {Blank},
          tag : Meters \cup {Blank, ByNet}]
    \cup [op : DocOps, row : Docs, amt : {0}, was : STRING, tag : STRING]
    \cup [op : {"sweep"}, row : {NoOne}, amt : {0}, was : STRING, tag : STRING]
    \cup [op : {"gl", "tally", "commit"}, row : {NoOne}, amt : Int, was : {Blank},
          tag : {Blank, ByNet}]
    \cup [op : {"when"}, row : Rows, amt : Int, was : STRING,
          tag : {"if", "skip"}, over : Nat]

AccountRow == [bal : Int, avail : Int, held : Int, used : [Meters -> Int]]

\* The CHECK constraints that a change of a row can trip:
\* chk_available_balance_logical and chk_used_within_limits.
RowChecks(a, x) ==
    /\ x.avail <= x.bal + Overdraft[a]
    /\ \A m \in Meters : x.used[m] \in 0..Limit[a][m]

ASSUME NamesAssumption ==
    /\ Accounts \cap Docs = {}
    /\ NoOne \notin Requests \cup Rows
    /\ NoTask \notin Tasks
    /\ Singles \subseteq Tasks

ASSUME RowsAssumption ==
    /\ OpeningRow \in [Accounts -> AccountRow]
    /\ OpeningDoc \in [Docs -> STRING]
    /\ Overdraft \in [Accounts -> Nat]
    /\ Limit \in [Accounts -> [Meters -> Nat]]
    /\ Absent \in STRING
    /\ \A a \in Accounts : RowChecks(a, OpeningRow[a])

\* A script ends by committing, and commits nowhere else; a branch skips to a
\* statement of the script.
ASSUME ScriptAssumption ==
    /\ Script \in [Tasks -> Seq(Statement)]
    /\ \A t \in Tasks :
         /\ Script[t] # << >>
         /\ \A i \in 1..Len(Script[t]) :
              /\ Script[t][i].op = "commit" <=> i = Len(Script[t])
              /\ Script[t][i].op = "when" => i + Script[t][i].over < Len(Script[t])
-----------------------------------------------------------------------------
VARIABLES
    outcome,   \* how each request stands
    task,      \* the task it was given
    pc,        \* the statement of the script it issues next
    owner,     \* the request whose transaction holds the lock on each row
    row,       \* the committed account rows
    draft,     \* the account rows as their lock's owner sees them
    doc,       \* the committed status rows
    docDraft,  \* the status rows as their lock's owner sees them
    seen,      \* the balance the trigger of a posting request has read
    net,       \* the net amount a batch has computed
    pend,      \* pend[r][a]: net of the entries r inserted, uncommitted
    journal,   \* net of the committed `transaction_entries` of each account
    gl         \* gl[r]: what the core has recorded for r (its documents
               \* cannot be withdrawn: the core is another system)

sql == <<owner, row, draft, doc, docDraft, pend, journal>>
vars == <<outcome, task, pc, sql, seen, net, gl>>

Open == {r \in Requests : outcome[r] = "open"}
Upcoming(r) == Script[task[r]][pc[r]]
At(r, op) == outcome[r] = "open" /\ Upcoming(r).op = op
Amount(r) == Upcoming(r).amt * (IF Upcoming(r).tag = ByNet THEN net[r] ELSE 1)

\* What a statement of r reads of a row: its own writes, else the committed row.
View(r, a) == IF owner[a] = r THEN draft[a] ELSE row[a]
DocView(r, d) == IF owner[d] = r THEN docDraft[d] ELSE doc[d]
\* A statement that needs the row's lock waits while another transaction has it.
Free(r, x) == owner[x] \in {NoOne, r}

NoEntries == [a \in Accounts |-> 0]

Init ==
    /\ outcome = [r \in Requests |-> "idle"]
    /\ task = [r \in Requests |-> NoTask]
    /\ pc = [r \in Requests |-> 0]
    /\ owner = [x \in Rows |-> NoOne]
    /\ row = OpeningRow /\ draft = OpeningRow
    /\ doc = OpeningDoc /\ docDraft = OpeningDoc
    /\ seen = [r \in Requests |-> 0] /\ net = [r \in Requests |-> 0]
    /\ pend = [r \in Requests |-> NoEntries]
    /\ journal = NoEntries
    /\ gl = [r \in Requests |-> 0]

Begin(r, t) ==
    /\ outcome[r] = "idle"
    /\ t \in Singles => \A s \in Requests : task[s] # t
    /\ outcome' = [outcome EXCEPT ![r] = "open"]
    /\ task' = [task EXCEPT ![r] = t]
    /\ pc' = [pc EXCEPT ![r] = 1]
    /\ UNCHANGED <<sql, seen, net, gl>>

Advance(r) ==
    /\ pc' = [pc EXCEPT ![r] = @ + 1]
    /\ UNCHANGED <<outcome, task>>

\* Mutant: the request that ends is not marked as answered.
FinishUnanswered(r, how) ==
    /\ pc' = [pc EXCEPT ![r] = 0]
    /\ owner' = [x \in Rows |-> IF owner[x] = r THEN NoOne ELSE owner[x]]
    /\ pend' = [pend EXCEPT ![r] = NoEntries]
    /\ UNCHANGED <<outcome, task, seen, net>>

\* The transaction ends and releases its locks.
Finish(r, how) ==
    /\ outcome' = [outcome EXCEPT ![r] = how]
    /\ pc' = [pc EXCEPT ![r] = 0]
    /\ seen' = [seen EXCEPT ![r] = 0] /\ net' = [net EXCEPT ![r] = 0]
    /\ owner' = [x \in Rows |-> IF owner[x] = r THEN NoOne ELSE owner[x]]
    /\ pend' = [pend EXCEPT ![r] = NoEntries]
    /\ UNCHANGED task

Rollback(r, how) ==
    /\ Finish(r, how)
    /\ draft' = [a \in Accounts |-> IF owner[a] = r THEN row[a] ELSE draft[a]]
    /\ docDraft' = [d \in Docs |-> IF owner[d] = r THEN doc[d] ELSE docDraft[d]]
    /\ UNCHANGED <<row, doc, journal>>

\* An UPDATE of an account row, with the net n of the entries it goes with: it
\* waits for the lock, takes it, and fails the transaction when the new row
\* breaks a CHECK.
Update(r, a, x, n) ==
    /\ Free(r, a)
    /\ IF RowChecks(a, x)
       THEN /\ owner' = [owner EXCEPT ![a] = r]
            /\ draft' = [draft EXCEPT ![a] = x]
            /\ pend' = [pend EXCEPT ![r][a] = @ + n]
            /\ seen' = [seen EXCEPT ![r] = 0]
            /\ Advance(r)
            /\ UNCHANGED <<row, doc, docDraft, journal, net>>
       ELSE Rollback(r, "tripped")
    /\ UNCHANGED gl
-----------------------------------------------------------------------------
\* SELECT ... FOR UPDATE.
Lock(r) ==
    /\ At(r, "lock")
    /\ LET a == Upcoming(r).row IN
         /\ Free(r, a)
         /\ owner' = [owner EXCEPT ![a] = r]
    /\ Advance(r)
    /\ UNCHANGED <<row, draft, doc, docDraft, pend, journal, seen, net, gl>>

\* A check that the request passes or is turned away by.
Require(r, ok, otherwise) ==
    /\ IF ok
       THEN Advance(r) /\ UNCHANGED <<sql, seen, net>>
       ELSE Rollback(r, otherwise)
    /\ UNCHANGED gl

Funds(r) ==
    /\ At(r, "funds")
    /\ Require(r, View(r, Upcoming(r).row).avail >= Amount(r), "refused")

WithinLimit(r) ==
    /\ At(r, "limit")
    /\ LET s == Upcoming(r) IN
         Require(r, View(r, s.row).used[s.tag] + s.amt <= Limit[s.row][s.tag],
                 "refused")

\* A guard on a status row, read through the pool outside any transaction.
Expect(r) ==
    /\ At(r, "expect")
    /\ Require(r, doc[Upcoming(r).row] = Upcoming(r).was, "refused")

\* The idempotent replay: a row already there answers the request.
Find(r) ==
    /\ At(r, "find")
    /\ Require(r, doc[Upcoming(r).row] = Absent, "replayed")

\* Mutant: the UPDATE has lost its guard on the status.
ChangeDocUnguarded(r, otherwise) ==
    /\ LET s == Upcoming(r) IN
         /\ Free(r, s.row)
         /\ owner' = [owner EXCEPT ![s.row] = r]
         /\ docDraft' = [docDraft EXCEPT ![s.row] = s.tag]
    /\ Advance(r)
    /\ UNCHANGED <<row, draft, doc, pend, journal, seen, net, gl>>

\* A change of a status row that waits for its lock, then takes effect only if
\* the row has the status it must have.
ChangeDoc(r, otherwise) ==
    /\ LET s == Upcoming(r) IN
         /\ Free(r, s.row)
         /\ IF DocView(r, s.row) = s.was
            THEN /\ owner' = [owner EXCEPT ![s.row] = r]
                 /\ docDraft' = [docDraft EXCEPT ![s.row] = s.tag]
                 /\ Advance(r)
                 /\ UNCHANGED <<row, draft, doc, pend, journal, seen, net>>
            ELSE Rollback(r, otherwise)
    /\ UNCHANGED gl

\* INSERT under a unique index: behind a transaction that has inserted the same
\* key, it takes the key or loses to the winner, whose result is returned.
Insert(r) == At(r, "insert") /\ ChangeDoc(r, "replayed")

\* A guarded status transition: UPDATE ... SET status WHERE status, or SELECT
\* ... WHERE ... FOR UPDATE with the UPDATE that follows it.
Mark(r) == At(r, "mark") /\ ChangeDoc(r, "refused")

\* UPDATE ... SET status WHERE id: it asks nothing of the status it replaces.
Set(r) ==
    /\ At(r, "set")
    /\ LET s == Upcoming(r) IN
         /\ Free(r, s.row)
         /\ owner' = [owner EXCEPT ![s.row] = r]
         /\ docDraft' = [docDraft EXCEPT ![s.row] = s.tag]
    /\ Advance(r)
    /\ UNCHANGED <<row, draft, doc, pend, journal, seen, net, gl>>

\* SELECT ... WHERE status FOR UPDATE, or INSERT ... ON CONFLICT DO NOTHING before
\* it: it waits for the lock, and goes on whatever it finds.
Ensure(r) ==
    /\ At(r, "ensure")
    /\ LET s == Upcoming(r) IN
         /\ Free(r, s.row)
         /\ owner' = [owner EXCEPT ![s.row] = r]
         /\ docDraft' = [docDraft EXCEPT ![s.row] =
                            IF DocView(r, s.row) = s.was THEN s.tag ELSE @]
    /\ Advance(r)
    /\ UNCHANGED <<row, draft, doc, pend, journal, seen, net, gl>>

\* What a branch of a handler turns on: the status it has read, the balance
\* that bears a debit within the overdraft, the available balance that falls
\* short of it, the debt that exceeds an amount.
Holds(r, s) ==
    IF s.row \in Docs THEN DocView(r, s.row) = s.was
    ELSE LET x == View(r, s.row) IN
         CASE s.was = "bears" -> x.bal - s.amt >= -Overdraft[s.row]
           [] s.was = "short" -> x.avail < s.amt
           [] s.was = "owes"  -> -x.bal > s.amt

When(r) ==
    /\ At(r, "when")
    /\ LET s == Upcoming(r)
           skipped == IF s.tag = "if" /\ Holds(r, s) THEN 0 ELSE s.over
       IN  pc' = [pc EXCEPT ![r] = @ + 1 + skipped]
    /\ UNCHANGED <<outcome, task, sql, seen, net, gl>>

\* One UPDATE over every row that has a status: it sees the committed ones.
Sweep(r) ==
    /\ At(r, "sweep")
    /\ LET swept == {d \in Docs : doc[d] = Upcoming(r).was} IN
         /\ \A d \in swept : Free(r, d)
         /\ owner' = [x \in Rows |-> IF x \in swept THEN r ELSE owner[x]]
         /\ docDraft' = [d \in Docs |-> IF d \in swept THEN Upcoming(r).tag
                                       ELSE docDraft[d]]
    /\ Advance(r)
    /\ UNCHANGED <<row, draft, doc, pend, journal, seen, net, gl>>

\* set_available_zero, ahead of a debit.
Floor(r) ==
    /\ At(r, "floor")
    /\ LET a == Upcoming(r).row IN
         Update(r, a, [View(r, a) EXCEPT !.avail = 0], 0)

\* update_account_balance() first SELECTs the balance, without a lock ...
TriggerRead(r) ==
    /\ At(r, "read")
    /\ seen' = [seen EXCEPT ![r] = View(r, Upcoming(r).row).bal]
    /\ Advance(r)
    /\ UNCHANGED <<sql, net, gl>>

\* ... then UPDATEs it to the sum it has computed; the entry goes in.
TriggerWrite(r) ==
    /\ At(r, "write")
    /\ LET a == Upcoming(r).row  n == Amount(r) IN
         Update(r, a, [View(r, a) EXCEPT !.bal = seen[r] + n], n)

\* recompute_available: balance + overdraft_limit - open holds.
Recompute(r) ==
    /\ At(r, "recompute")
    /\ LET a == Upcoming(r).row  x == View(r, a) IN
         Update(r, a, [x EXCEPT !.avail = x.bal + Overdraft[a] - x.held], 0)

\* recompute_card_available: a card's balance is what is owed on it, and its
\* overdraft_limit the credit limit.
RecomputeCard(r) ==
    /\ At(r, "recard")
    /\ LET a == Upcoming(r).row  x == View(r, a) IN
         Update(r, a, [x EXCEPT !.avail = Overdraft[a] - x.bal - x.held], 0)

\* The open rows of account_holds of a card, as their total; the code changes
\* them under the card's lock only.
Hold(r) ==
    /\ At(r, "hold")
    /\ LET a == Upcoming(r).row  x == View(r, a) IN
         Update(r, a, [x EXCEPT !.held = @ + Amount(r)], 0)

\* The amount of a settlement batch: what the clearing account is below zero.
\* There is nothing to settle when it is not.
NetOut(r) ==
    /\ At(r, "net")
    /\ LET n == -View(r, Upcoming(r).row).bal IN
         IF n > 0
         THEN /\ net' = [net EXCEPT ![r] = n]
              /\ Advance(r)
              /\ UNCHANGED <<sql, seen>>
         ELSE Rollback(r, "refused")
    /\ UNCHANGED gl

\* A batch adds up what it will post as one document.
Tally(r) ==
    /\ At(r, "tally")
    /\ net' = [net EXCEPT ![r] = @ + Upcoming(r).amt]
    /\ Advance(r)
    /\ UNCHANGED <<sql, seen, gl>>

\* The counter of account_limits that the movement consumes.
UseLimit(r) ==
    /\ At(r, "use")
    /\ LET s == Upcoming(r)  x == View(r, s.row) IN
         Update(r, s.row, [x EXCEPT !.used[s.tag] = @ + s.amt], 0)

\* The post to the accounting core.  A document, once recorded, stays; when
\* the answer is an error or is lost the handler fails the request.  A batch
\* that has added up nothing posts nothing.
PostGL(r) ==
    /\ At(r, "gl")
    /\ IF Upcoming(r).tag = ByNet /\ net[r] = 0
       THEN Advance(r) /\ UNCHANGED <<sql, seen, net, gl>>
       ELSE \/ /\ gl' = [gl EXCEPT ![r] = @ + Amount(r)]
               /\ \/ Advance(r) /\ UNCHANGED <<sql, seen, net>>
                  \/ Rollback(r, "failed")
            \/ UNCHANGED gl /\ Rollback(r, "failed")

Commit(r) ==
    /\ At(r, "commit")
    /\ Finish(r, "posted")
    /\ row' = [a \in Accounts |-> IF owner[a] = r THEN draft[a] ELSE row[a]]
    /\ doc' = [d \in Docs |-> IF owner[d] = r THEN docDraft[d] ELSE doc[d]]
    /\ journal' = [a \in Accounts |-> journal[a] + pend[r][a]]
    /\ UNCHANGED <<draft, docDraft, gl>>

\* The client disconnects, the process or the connection dies, or the database
\* aborts the transaction: whatever was not committed is gone.
Abort(r) ==
    /\ outcome[r] = "open"
    /\ Rollback(r, "failed")
    /\ UNCHANGED gl

Execute(r) ==
    \/ Lock(r)    \/ Funds(r) \/ WithinLimit(r) \/ Expect(r)  \/ Find(r)
    \/ Insert(r)  \/ Mark(r)  \/ Set(r)  \/ Ensure(r) \/ Sweep(r)
    \/ NetOut(r)  \/ Tally(r) \/ Hold(r)  \/ When(r)
    \/ Floor(r)   \/ TriggerRead(r) \/ TriggerWrite(r)
    \/ Recompute(r) \/ RecomputeCard(r) \/ UseLimit(r)
    \/ PostGL(r)  \/ Commit(r)

\* Every request has been answered.
Done ==
    /\ \A r \in Requests : outcome[r] \notin {"idle", "open"}
    /\ UNCHANGED vars

Next ==
    \/ \E r \in Requests :
         \/ \E t \in Tasks : Begin(r, t)
         \/ Execute(r)
         \/ Abort(r)
    \/ Done

Spec == Init /\ [][Next]_vars

\* The database and the core answer every statement they can answer.
Fairness == \A r \in Requests : WF_vars(Execute(r))
LiveSpec == Spec /\ Fairness
-----------------------------------------------------------------------------
(***************************************************************************)
(* The discipline a script keeps when every posting locks the account it   *)
(* posts to: the trigger's read comes after a statement of the same        *)
(* transaction that has locked the row, and its write right after it, with *)
(* no branch that could skip either.                                       *)
(***************************************************************************)
Disciplined(s) ==
    \A i \in 1..Len(s) :
        /\ s[i].op # "when"
        /\ s[i].op = "read" =>
             \E j \in 1..i-1 : s[j].op \in AccountWrites /\ s[j].row = s[i].row
        /\ s[i].op = "write" =>
             i > 1 /\ s[i-1].op = "read" /\ s[i-1].row = s[i].row
-----------------------------------------------------------------------------
(* Properties of any set of scripts; the extending modules check them. *)

\* Every variable has its type.
TypeOK ==
    /\ outcome \in [Requests -> {"idle", "open", "posted", "refused", "replayed",
                                 "failed", "tripped"}]
    /\ task \in [Requests -> Tasks \cup {NoTask}]
    /\ pc \in [Requests -> Nat]
    /\ \A r \in Open : task[r] \in Tasks /\ pc[r] \in 1..Len(Script[task[r]])
    /\ owner \in [Rows -> Requests \cup {NoOne}]
    /\ row \in [Accounts -> AccountRow] /\ draft \in [Accounts -> AccountRow]
    /\ doc \in [Docs -> STRING] /\ docDraft \in [Docs -> STRING]
    /\ seen \in [Requests -> Int] /\ net \in [Requests -> Int] /\ gl \in [Requests -> Int]
    /\ pend \in [Requests -> [Accounts -> Int]]
    /\ journal \in [Accounts -> Int]

\* No lost update: each account's stored balance, which the trigger rewrites
\* from what it read, is the opening balance plus its committed entries.
BalanceIsJournal ==
    \A a \in Accounts : row[a].bal = OpeningRow[a].bal + journal[a]

\* The lock order is free of deadlocks: there is no set of transactions each
\* waiting for a row that another of the set has locked.
Waiting(r) ==
    r \in Open /\ Upcoming(r).op \in Locking /\ ~Free(r, Upcoming(r).row)
NoWaitCycle ==
    \A S \in SUBSET Open : S # {} =>
        \E r \in S : Waiting(r) => owner[Upcoming(r).row] \notin S

\* The checks a handler makes under its locks leave nothing for the database's
\* CHECK constraints to reject: no request dies of one halfway.
NeverTripsCheck == \A r \in Requests : outcome[r] # "tripped"

\* A request that has begun is answered, whatever the others do, as long as
\* the database and the core answer its statements.
EveryRequestAnswered ==
    \A r \in Requests : outcome[r] = "open" ~> outcome[r] # "open"

\* The subledger and the core do not drift apart: a document in the core
\* belongs to a movement that has committed or is about to.
GLHasMovement ==
    \A r \in Requests : gl[r] # 0 => outcome[r] \in {"open", "posted"}
=============================================================================
