------------------------- MODULE InterestRunsProofs -------------------------
(***************************************************************************)
(* Proofs about InterestRuns: however many batches run at once, a period's *)
(* interest is paid once, and the core's books are the rows not yet paid.  *)
(***************************************************************************)
EXTENDS InterestRuns, SumFacts

-----------------------------------------------------------------------------
(* The inductive invariant. *)

Stages == {"idle", "read", "insert", "sum", "pay", "mark", "fees", "charge",
           "run", "post", "commit"}

Transaction == [side : Sides, due : [Books -> Nat], rows : [Books -> Nat],
                marks : SUBSET Rows, delta : [Books -> Int], charged : SUBSET Deposits,
                total : [Sides -> Int], keyed : BOOLEAN, told : BOOLEAN]

Typed ==
    /\ TypeOK
    /\ pc \in [Workers -> Stages] /\ tx \in [Workers -> Transaction]
    /\ stray \in [Sides -> Int] /\ failures \in Nat

\* The interest a transaction pays in, its fees apart.
Gain(t) == [a \in Books |-> Interest(t, a)]

\* What the open transaction t of a batch j has done when it is at p.
Staged(p, j, t) ==
    /\ p = "idle" => t = NoTx
    /\ p # "idle" => j \in Days \cup Periods
    /\ p \in {"read", "insert"} => j \in Days
    /\ p \in {"sum", "pay", "mark", "fees", "charge"} => j \in Periods
    /\ t.keyed <=> p \in {"post", "commit"}
    /\ t.told <=> p = "commit"
    /\ j \in Days => t.marks = {} /\ \A a \in Books : Gain(t)[a] = 0
    /\ j \notin Days => \A a \in Books : t.rows[a] = 0

\* How far a payment of interest has come: nothing of the side that is summed
\* next is paid yet, no fee is taken before the rows are marked nor twice.
Paying(p, t) ==
    /\ \A a \in Books : Gain(t)[a] >= 0
    /\ p \in {"sum", "pay", "mark"} => t.charged = {} /\ t.marks = {}
    /\ p = "fees" => t.charged = {}
    /\ p = "sum" => \A a \in On(t.side) : t.delta[a] = 0
    /\ p \in {"sum", "pay"} /\ t.side = "deposit" => \A a \in Cards : t.delta[a] = 0
    /\ p = "pay" => \A a \in Books : t.due[a] > 0 => a \in On(t.side)
    /\ p = "charge" => \A a \in Books : t.due[a] > 0 => a \notin t.charged

In(S, a, j)  == {r \in S : r[1] = a /\ r[2] \in MonthRange[j]}
Due(p, t, a) == IF p = "pay" THEN t.due[a] ELSE 0

\* With the runs R, the rows A and those paid C: the totals are those of the rows
\* inserted, or of the interest paid in.  What is paid in, and still due, is covered
\* by the rows of the month; once it has marked, by those that are marked, here or
\* by others before.  A batch of a day that has lost its key is past caring.
Earned(R, A, C, p, j, t) ==
    /\ j \in Periods => \A s \in Sides : t.total[s] = SumOver(On(s), Gain(t))
    /\ j \in Days \ R => \A s \in Sides : t.total[s] = SumOver(On(s), t.rows)
    /\ j \in Periods =>
         /\ \A r \in t.marks : A[r] > 0
         /\ p \in {"sum", "pay", "mark"} =>
              \A a \in Books : Gain(t)[a] + Due(p, t, a) <= SumOver(In(Rows, a, j), A)
         /\ p \notin {"sum", "pay", "mark"} =>
              \A a \in Books : Gain(t)[a] <= SumOver(In(t.marks \cup C, a, j), A)

Fits(p, j, t) ==
    /\ t \in Transaction /\ Staged(p, j, t) /\ Paying(p, t)
    /\ Earned(runs, accrued, capitalised, p, j, t)
Sound(w) == Fits(pc[w], job[w], tx[w])

\* A key that is inserted is nobody else's.
KeysAlone ==
    \A w \in Workers : tx[w].keyed => job[w] \notin runs /\ \A v \in Ours(w) : ~tx[v].keyed

\* A row that is inserted is nobody else's.
RowsAlone ==
    \A w \in Workers, a \in Books :
        tx[w].rows[a] > 0 => /\ accrued[<<a, job[w]>>] = 0
                             /\ \A v \in Ours(w) : tx[v].rows[a] = 0

\* Rows and fees are there only when their run is; only rows that are there are paid.
Booked ==
    /\ \A r \in Rows : accrued[r] > 0 => r[2] \in runs
    /\ \A x \in Books \X Periods : paid[x] > 0 => x[2] \in runs
    /\ \A x \in Deposits \X Periods : fees[x] > 0 => x[2] \in runs
    /\ \A r \in capitalised : accrued[r] > 0

RunsInv ==
    /\ Typed /\ \A w \in Workers : Sound(w)
    /\ KeysAlone /\ RowsAlone /\ Booked /\ PaidOncePerPeriod /\ CoreTiesToRows

-----------------------------------------------------------------------------
(* The sums are over finite sets. *)

LEMMA Sizes ==
    /\ IsFiniteSet(Workers) /\ IsFiniteSet(Books) /\ IsFiniteSet(Rows)
    /\ \A s \in Sides : /\ IsFiniteSet(On(s)) /\ On(s) \subseteq Books
                        /\ IsFiniteSet(On(s) \X Days) /\ On(s) \X Days \subseteq Rows
                        /\ IsFiniteSet(On(s) \X Periods)
                        /\ On(s) \X Periods \subseteq Books \X Periods
  <1>1. /\ IsFiniteSet(Workers) /\ IsFiniteSet(Deposits) /\ IsFiniteSet(Cards)
        /\ IsFiniteSet(Days) /\ IsFiniteSet(Periods)
    BY InterestAssumption
  <1>2. IsFiniteSet(Deposits \cup Cards)
    BY <1>1, FS_Union
  <1>3. \A s \in Sides : IsFiniteSet(On(s)) /\ On(s) \subseteq Books
    BY <1>1 DEF On, Books
  <1>4. \A s \in Sides : IsFiniteSet(On(s) \X Days) /\ IsFiniteSet(On(s) \X Periods)
    BY <1>1, <1>3, FS_Product
  <1>5. IsFiniteSet(Rows)
    BY <1>1, <1>2, FS_Product DEF Rows, Books
  <1> QED
    BY <1>1, <1>2, <1>3, <1>4, <1>5 DEF Books, Rows

\* Sums of rows: they are numbers, and grow with the rows and with their amounts.
LEMMA RowsSum ==
    ASSUME NEW A \in [Rows -> Nat], NEW X, X \subseteq Rows
    PROVE  IsFiniteSet(X) /\ WholeOn(X, A) /\ SumOver(X, A) \in Nat
  <1>1. IsFiniteSet(X) /\ \A r \in X : A[r] \in Nat
    BY Sizes, FS_Subset
  <1> QED
    BY <1>1, SumNat DEF WholeOn

LEMMA RowsGrow ==
    ASSUME NEW A \in [Rows -> Nat], NEW B \in [Rows -> Nat], NEW X, NEW Y,
           X \subseteq Y, Y \subseteq Rows, \A r \in X : A[r] <= B[r]
    PROVE  SumOver(X, A) <= SumOver(Y, B)
  <1>1. IsFiniteSet(X) /\ WholeOn(X, A) /\ SumOver(X, A) \in Nat
    BY RowsSum
  <1>2. WholeOn(X, B) /\ SumOver(X, B) \in Nat /\ IsFiniteSet(Y) /\ SumOver(Y, B) \in Nat
    BY RowsSum
  <1>3. SumOver(X, A) <= SumOver(X, B)
    BY <1>1, <1>2, SumMonotone
  <1>4. SumOver(X, B) <= SumOver(Y, B)
    <2>1. X \in SUBSET Y /\ \A r \in Y : B[r] \in Nat
      OBVIOUS
    <2> QED
      BY <1>2, <2>1, SumGrows
  <1> QED
    BY <1>1, <1>2, <1>3, <1>4

LEMMA WholePart ==
    ASSUME NEW R, NEW f \in [R -> Int], NEW S \in SUBSET R PROVE WholeOn(S, f)
  BY DEF WholeOn

ToldBy(j, t, s) == IF t.told THEN (IF j \in Days THEN 1 ELSE -1) * t.total[s] ELSE 0

LEMMA ToldIs == \A w, s : Told(w, s) = ToldBy(job[w], tx[w], s)
  BY DEF Told, ToldBy, Sign

LEMMA ToldType ==
    ASSUME NEW t \in Transaction, NEW j, NEW s \in Sides PROVE ToldBy(j, t, s) \in Int
  BY DEF ToldBy, Transaction

LEMMA GainType ==
    ASSUME NEW t \in Transaction
    PROVE  Gain(t) \in [Books -> Int]
  BY InterestAssumption DEF Gain, Interest, Transaction

-----------------------------------------------------------------------------
(* A step of one worker that leaves the tables alone. *)

\* Nobody else of the same batch has the key or the rows that t has.
Alone(w, j, t) ==
    /\ t.keyed => j \notin runs
    /\ \A a \in Books : t.rows[a] > 0 => accrued[<<a, j>>] = 0
    /\ \A v \in Workers \ {w} : job[v] = j =>
          /\ ~(t.keyed /\ tx[v].keyed)
          /\ \A a \in Books : t.rows[a] = 0 \/ tx[v].rows[a] = 0

\* The worker goes to p, and what the core knows of it is in the books.
Turns(w, p, j, t) ==
    /\ UNCHANGED << accrued, capitalised, runs, paid, fees >>
    /\ pc' = [pc EXCEPT ![w] = p] /\ job' = [job EXCEPT ![w] = j] /\ tx' = [tx EXCEPT ![w] = t]
    /\ stray' \in [Sides -> Int] /\ failures' \in Nat
    /\ \A s \in Sides :
          /\ core'[s] - stray'[s] = core[s] - stray[s] + ToldBy(j, t, s) - Told(w, s)
          /\ failures' = 0 => stray'[s] = 0

LEMMA WorkerStep ==
    ASSUME RunsInv, TypeOK', NEW w \in Workers, NEW p \in Stages, NEW j, NEW t,
           Turns(w, p, j, t), Fits(p, j, t), Alone(w, j, t)
    PROVE  RunsInv'
  <1>1. /\ Typed /\ t \in Transaction
        /\ pc'[w] = p /\ job'[w] = j /\ tx'[w] = t
        /\ \A v \in Workers \ {w} : pc'[v] = pc[v] /\ job'[v] = job[v] /\ tx'[v] = tx[v]
    BY DEF RunsInv, Typed, TypeOK, Fits, Turns
  <1>2. Typed'
    BY <1>1 DEF Typed, Turns
  <1>3. ASSUME NEW v \in Workers PROVE Sound(v)'
    <2>1. CASE v = w
      BY <1>1, <2>1 DEF Sound, Fits, Turns
    <2>2. CASE v # w
      BY <1>1, <2>2 DEF RunsInv, Sound, Fits, Turns
    <2> QED
      BY <2>1, <2>2
  <1>4. KeysAlone'
    <2> SUFFICES ASSUME NEW v \in Workers, tx'[v].keyed
                 PROVE  /\ job'[v] \notin runs
                        /\ \A u \in Workers \ {v} : job'[u] = job'[v] => ~tx'[u].keyed
      BY DEF KeysAlone, Ours, Turns
    <2>1. CASE v = w
      BY <1>1, <2>1 DEF Alone
    <2>2. CASE v # w
      <3>1. /\ tx[v].keyed /\ job[v] \notin runs
            /\ \A u \in Workers \ {v} : job[u] = job[v] => ~tx[u].keyed
        BY <1>1, <2>2 DEF RunsInv, KeysAlone, Ours
      <3>2. job[v] = j => ~t.keyed
        BY <2>2, <3>1 DEF Alone
      <3> QED
        BY <1>1, <2>2, <3>1, <3>2
    <2> QED
      BY <2>1, <2>2
  <1>5. RowsAlone'
    <2>1. \A v \in Workers, a \in Books : tx[v].rows[a] \in Nat /\ t.rows[a] \in Nat
      BY <1>1 DEF Typed, Transaction
    <2> SUFFICES ASSUME NEW v \in Workers, NEW a \in Books, tx'[v].rows[a] > 0
                 PROVE  /\ accrued[<<a, job'[v]>>] = 0
                        /\ \A u \in Workers \ {v} : job'[u] = job'[v] => tx'[u].rows[a] = 0
      BY DEF RowsAlone, Ours, Turns
    <2>2. CASE v = w
      BY <1>1, <2>1, <2>2 DEF Alone
    <2>3. CASE v # w
      <3>1. /\ tx[v].rows[a] > 0 /\ accrued[<<a, job[v]>>] = 0
            /\ \A u \in Workers \ {v} : job[u] = job[v] => tx[u].rows[a] = 0
        BY <1>1, <2>3 DEF RunsInv, RowsAlone, Ours
      <3>2. job[v] = j => t.rows[a] = 0
        BY <2>1, <2>3, <3>1 DEF Alone
      <3> QED
        BY <1>1, <2>3, <3>1, <3>2
    <2> QED
      BY <2>2, <2>3
  <1>6. Booked' /\ PaidOncePerPeriod'
    BY DEF RunsInv, Booked, PaidOncePerPeriod, PaidRows, Turns
  <1>7. CoreTiesToRows'
    <2> SUFFICES ASSUME NEW s \in Sides,
                        NEW f, f = [v \in Workers |-> Told(v, s)],
                        NEW g, g = [v \in Workers |-> Told(v, s)']
                 PROVE  /\ core'[s] = SumOver(On(s) \X Days, accrued) - SumOver(On(s) \X Periods, paid)
                                       + stray'[s] + SumOver(Workers, g)
                        /\ failures' = 0 => stray'[s] = 0
      BY DEF CoreTiesToRows, Turns
    <2>1. /\ \A v \in Workers : f[v] = ToldBy(job[v], tx[v], s)
          /\ \A v \in Workers : g[v] = ToldBy(job'[v], tx'[v], s)
      BY DEF Told, ToldBy, Sign
    <2>2. WholeOn(Workers, f) /\ WholeOn(Workers, g)
      BY <1>1, <1>2, <2>1, ToldType DEF WholeOn, Typed
    <2>3. SumOver(Workers, g) = SumOver(Workers, f) + (g[w] - f[w])
      BY <1>1, <2>1, <2>2, SumChange, Sizes
    <2>4. core[s] = SumOver(On(s) \X Days, accrued) - SumOver(On(s) \X Periods, paid)
                    + stray[s] + SumOver(Workers, f)
      BY DEF RunsInv, CoreTiesToRows
    <2>5. /\ SumOver(On(s) \X Days, accrued) \in Int /\ SumOver(On(s) \X Periods, paid) \in Int
          /\ SumOver(Workers, f) \in Int /\ f[w] \in Int /\ g[w] \in Int
      <3>1. WholeOn(On(s) \X Days, accrued) /\ WholeOn(On(s) \X Periods, paid)
        <4>1. accrued \in [Rows -> Nat] /\ paid \in [Books \X Periods -> Nat]
          BY <1>1 DEF Typed, TypeOK
        <4>2. On(s) \X Days \subseteq Rows /\ On(s) \X Periods \subseteq Books \X Periods
          BY Sizes
        <4> QED
          BY <4>1, <4>2, WholePart
      <3> QED
        BY <2>2, <3>1, SumType, Sizes DEF WholeOn
    <2>6. core[s] \in Int /\ core'[s] \in Int /\ stray[s] \in Int /\ stray'[s] \in Int
      BY <1>1, <1>2 DEF Typed, TypeOK
    <2>7. core'[s] - stray'[s] = core[s] - stray[s] + g[w] - f[w]
      BY <1>1, <2>1, ToldIs DEF Turns
    <2>8. failures' = 0 => stray'[s] = 0
      BY DEF Turns
    <2> QED
      BY <2>3, <2>4, <2>5, <2>6, <2>7, <2>8
  <1> QED
    BY <1>2, <1>3, <1>4, <1>5, <1>6, <1>7 DEF RunsInv

LEMMA NoStray == ASSUME RunsInv, failures = 0 PROVE \A s \in Sides : stray[s] = 0
  BY DEF RunsInv, CoreTiesToRows

LEMMA RowsOwn ==
    ASSUME RunsInv, NEW w \in Workers, NEW a \in Books
    PROVE  \/ tx[w].rows[a] = 0
           \/ /\ accrued[<<a, job[w]>>] = 0
              /\ \A v \in Workers \ {w} : job[v] = job[w] => tx[v].rows[a] = 0
  <1>1. tx[w].rows[a] \in Nat
    BY DEF RunsInv, Typed, Transaction
  <1>2. tx[w].rows[a] > 0 \/ tx[w].rows[a] = 0
    BY <1>1
  <1> QED
    BY <1>2 DEF RunsInv, RowsAlone, Ours

LEMMA StaysAlone ==
    ASSUME RunsInv, NEW w \in Workers, NEW t, t.rows = tx[w].rows,
           t.keyed => /\ job[w] \notin runs
                      /\ \A v \in Workers \ {w} : job[v] = job[w] => ~tx[v].keyed
    PROVE  Alone(w, job[w], t)
  <1>1. \A a \in Books : t.rows[a] > 0 => accrued[<<a, job[w]>>] = 0
    <2> SUFFICES ASSUME NEW a \in Books, t.rows[a] > 0 PROVE accrued[<<a, job[w]>>] = 0
      OBVIOUS
    <2>1. t.rows[a] # 0
      OBVIOUS
    <2> QED
      BY <2>1, RowsOwn
  <1>2. \A v \in Workers \ {w}, a \in Books :
           job[v] = job[w] => t.rows[a] = 0 \/ tx[v].rows[a] = 0
    BY RowsOwn
  <1> QED
    BY <1>1, <1>2 DEF Alone

LEMMA GainSame ==
    ASSUME NEW t, NEW u, t.delta = u.delta, t.charged = u.charged PROVE Gain(t) = Gain(u)
  BY DEF Gain, Interest

\* A statement within the batch: no key, no document, no row of its own.
LEMMA QuietStep ==
    ASSUME RunsInv, NEW w \in Workers, NEW p \in Stages, NEW t, Go(w, t, p),
           pc[w] # "commit", p \notin {"post", "commit"},
           Fits(p, job[w], t), t.rows = tx[w].rows,
           lock' \in [Books -> Workers \cup {None}],
           UNCHANGED << db, core, job, stray, failures >>
    PROVE  RunsInv'
  <1>1. /\ Typed /\ job' = [job EXCEPT ![w] = job[w]] /\ Sound(w)
    BY DEF RunsInv, Typed, TypeOK
  <1>2. TypeOK'
    BY <1>1 DEF Typed, TypeOK, db
  <1>3. ~t.keyed /\ ~t.told /\ ~tx[w].told
    BY <1>1 DEF Fits, Staged, Sound
  <1>4. Alone(w, job[w], t)
    BY <1>3, StaysAlone
  <1>5. ASSUME NEW s \in Sides
        PROVE  /\ core'[s] - stray'[s] = core[s] - stray[s] + ToldBy(job[w], t, s) - Told(w, s)
               /\ failures' = 0 => stray'[s] = 0
    <2>1. ToldBy(job[w], t, s) = 0 /\ Told(w, s) = 0
      BY <1>3 DEF ToldBy, Told
    <2>2. core[s] \in Int /\ stray[s] \in Int
      BY <1>1 DEF Typed, TypeOK
    <2> QED
      BY <2>1, <2>2, NoStray
  <1>6. Turns(w, p, job[w], t)
    BY <1>1, <1>5 DEF Turns, Typed, Go, db
  <1> QED
    BY <1>2, <1>4, <1>6, WorkerStep

LEMMA IdleFits ==
    /\ NoTx \in Transaction /\ Staged("idle", None, NoTx) /\ Paying("idle", NoTx)
    /\ \A R, A, C : Earned(R, A, C, "idle", None, NoTx)
    /\ ~NoTx.keyed /\ ~NoTx.told /\ \A a \in Books : NoTx.rows[a] = 0
  <1>1. NoTx \in Transaction /\ ~NoTx.keyed /\ ~NoTx.told /\ \A a \in Books : NoTx.rows[a] = 0
    BY DEF NoTx, Transaction, Sides
  <1>2. \A a \in Books : Gain(NoTx)[a] = 0
    BY DEF Gain, Interest, NoTx
  <1>3. None \notin Days /\ None \notin Periods
    BY InterestAssumption
  <1>4. Staged("idle", None, NoTx)
    BY <1>1, <1>3 DEF Staged
  <1>5. Paying("idle", NoTx)
    BY <1>1, <1>2 DEF Paying
  <1> QED
    BY <1>1, <1>3, <1>4, <1>5 DEF Earned

\* The transaction ends without a commit.
LEMMA RollbackStep ==
    ASSUME RunsInv, NEW w \in Workers, Rollback(w), failures' \in Nat,
           failures' = 0 => failures = 0 /\ pc[w] # "commit"
    PROVE  RunsInv'
  <1>1. Typed /\ Sound(w)
    BY DEF RunsInv
  <1>2. Fits("idle", None, NoTx)
    BY IdleFits DEF Fits
  <1>3. Alone(w, None, NoTx)
    BY IdleFits DEF Alone
  <1>4. TypeOK' /\ stray' \in [Sides -> Int]
    <2>1. lock' \in [Books -> Workers \cup {None}]
      BY <1>1 DEF Rollback, Unlocked, Typed, TypeOK
    <2>2. job' \in [Workers -> Days \cup Periods \cup {None}]
      BY <1>1 DEF Rollback, Typed, TypeOK
    <2>3. \A s \in Sides : Told(w, s) \in Int
      BY <1>1, ToldIs, ToldType DEF Typed
    <2> QED
      BY <1>1, <2>1, <2>2, <2>3 DEF Rollback, Typed, TypeOK, db
  <1>5. ASSUME NEW s \in Sides
        PROVE  /\ core'[s] - stray'[s] = core[s] - stray[s] + ToldBy(None, NoTx, s) - Told(w, s)
               /\ failures' = 0 => stray'[s] = 0
    <2>1. ToldBy(None, NoTx, s) = 0 /\ core' = core /\ stray'[s] = stray[s] + Told(w, s)
      BY IdleFits DEF ToldBy, Rollback
    <2>2. core[s] \in Int /\ stray[s] \in Int /\ Told(w, s) \in Int
      BY <1>1, ToldIs, ToldType DEF Typed, TypeOK
    <2>3. pc[w] # "commit" => Told(w, s) = 0
      BY <1>1 DEF Sound, Fits, Staged, Told
    <2>4. failures = 0 => stray[s] = 0
      BY NoStray
    <2> QED
      BY <2>1, <2>2, <2>3, <2>4
  <1>6. Turns(w, "idle", None, NoTx)
    BY <1>4, <1>5 DEF Turns, Rollback, Go, db
  <1> QED
    BY <1>2, <1>3, <1>4, <1>6, WorkerStep DEF Stages

-----------------------------------------------------------------------------
(* Beginning and closing a batch. *)

\* What the rows of an account come to in a month.
LEMMA OwedType ==
    ASSUME Typed, NEW j, NEW a PROVE SumOver(In(Rows, a, j), accrued) \in Nat
  <1> SUFFICES ASSUME NEW X, X = In(Rows, a, j) PROVE SumOver(X, accrued) \in Nat
    OBVIOUS
  <1>1. X \subseteq Rows /\ accrued \in [Rows -> Nat]
    BY DEF In, Typed, TypeOK
  <1> QED
    BY <1>1, RowsSum

LEMMA CallStep ==
    ASSUME RunsInv, NEW w \in Workers, NEW j \in Days \cup Periods, Call(w, j) PROVE RunsInv'
  <1> DEFINE p == IF j \in Days THEN "read" ELSE "sum"
  <1>1. Typed /\ Sound(w) /\ pc[w] = "idle" /\ j \notin runs
    BY DEF RunsInv, Call, At
  <1>2. /\ NoTx \in Transaction /\ ~NoTx.keyed /\ ~NoTx.told
        /\ \A a \in Books : NoTx.rows[a] = 0 /\ NoTx.delta[a] = 0 /\ NoTx.due[a] = 0
        /\ NoTx.marks = {} /\ NoTx.charged = {} /\ \A s \in Sides : NoTx.total[s] = 0
    BY DEF NoTx, Transaction, Sides
  <1>3. \A a \in Books : Gain(NoTx)[a] = 0
    BY DEF Gain, Interest, NoTx
  <1>4. Fits(p, j, NoTx)
    <2>1. j \in Days => j \notin Periods
      BY InterestAssumption
    <2>2. Staged(p, j, NoTx)
      BY <1>2, <1>3, <2>1 DEF Staged
    <2>3. Paying(p, NoTx)
      <3>1. NoTx.side \in Sides /\ On(NoTx.side) \subseteq Books /\ Cards \subseteq Books
        BY <1>2, Sizes DEF Transaction, Books
      <3>2. \A a \in On(NoTx.side) \cup Cards : NoTx.delta[a] = 0
        BY <1>2, <3>1
      <3> QED
        BY <1>2, <1>3, <3>2 DEF Paying
    <2>4. \A s \in Sides : SumOver(On(s), NoTx.rows) = 0 /\ SumOver(On(s), Gain(NoTx)) = 0
      <3> SUFFICES ASSUME NEW s \in Sides, NEW f, f = NoTx.rows, NEW g, g = Gain(NoTx)
                   PROVE  SumOver(On(s), f) = 0 /\ SumOver(On(s), g) = 0
        OBVIOUS
      <3>1. \A x \in On(s) : f[x] = 0 /\ g[x] = 0
        BY <1>2, <1>3, Sizes
      <3> QED
        BY <3>1, SumZero, Sizes
    <2>5. \A a \in Books : SumOver(In(Rows, a, j), accrued) \in Nat
      BY <1>1, OwedType
    <2>6. Earned(runs, accrued, capitalised, p, j, NoTx)
      BY <1>2, <1>3, <2>1, <2>4, <2>5 DEF Earned, Due
    <2> QED
      BY <1>2, <2>2, <2>3, <2>6 DEF Fits
  <1>5. Alone(w, j, NoTx)
    BY <1>2 DEF Alone
  <1>6. TypeOK'
    BY <1>1 DEF Call, Typed, TypeOK, db
  <1>7. ASSUME NEW s \in Sides
        PROVE  /\ core'[s] - stray'[s] = core[s] - stray[s] + ToldBy(j, NoTx, s) - Told(w, s)
               /\ failures' = 0 => stray'[s] = 0
    <2>1. ToldBy(j, NoTx, s) = 0 /\ Told(w, s) = 0 /\ core' = core /\ stray' = stray
      BY <1>1, <1>2 DEF ToldBy, Told, Sound, Fits, Staged, Call
    <2>2. core[s] \in Int /\ stray[s] \in Int
      BY <1>1 DEF Typed, TypeOK
    <2> QED
      BY <2>1, <2>2, NoStray DEF Call
  <1>8. Turns(w, p, j, NoTx) /\ p \in Stages
    BY <1>1, <1>7 DEF Turns, Typed, Call, Go, db, Stages
  <1> QED
    BY <1>4, <1>5, <1>6, <1>8, WorkerStep

LEMMA InsertRunStep ==
    ASSUME RunsInv, NEW w \in Workers, InsertRun(w) PROVE RunsInv'
  <1> DEFINE j == job[w]  t == [tx[w] EXCEPT !.keyed = TRUE]
  <1>1. Typed /\ Sound(w) /\ pc[w] = "run" /\ \A v \in Ours(w) : ~tx[v].keyed
    BY DEF RunsInv, InsertRun, At
  <1>2. CASE Rollback(w) /\ UNCHANGED failures
    BY <1>1, <1>2, RollbackStep DEF Typed
  <1>3. CASE /\ job[w] \notin runs /\ Go(w, t, "post")
             /\ UNCHANGED << db, core, lock, job, stray, moves, failures >>
    <2>1. /\ t \in Transaction /\ t.keyed /\ ~t.told /\ ~tx[w].told
          /\ t.rows = tx[w].rows /\ t.delta = tx[w].delta /\ t.charged = tx[w].charged
          /\ t.marks = tx[w].marks /\ t.total = tx[w].total
      BY <1>1 DEF Sound, Fits, Staged, Transaction
    <2> HIDE DEF t
    <2>2. Gain(t) = Gain(tx[w])
      BY <2>1, GainSame
    <2>3. Fits("post", j, t)
      BY <1>1, <2>1, <2>2 DEF Sound, Fits, Staged, Paying, Earned
    <2>4. Alone(w, j, t)
      BY <1>1, <1>3, <2>1, StaysAlone DEF Ours
    <2>5. \A s \in Sides : ToldBy(j, t, s) = 0 /\ Told(w, s) = 0
      BY <2>1 DEF ToldBy, Told
    <2>6. Turns(w, "post", j, t) /\ TypeOK'
      BY <1>1, <1>3, <2>5, NoStray DEF Turns, Typed, TypeOK, Go, db
    <2> QED
      BY <2>3, <2>4, <2>6, WorkerStep DEF Stages
  <1> QED
    BY <1>2, <1>3 DEF InsertRun, After

LEMMA PostStep ==
    ASSUME RunsInv, NEW w \in Workers, Post(w) PROVE RunsInv'
  <1> DEFINE j == job[w]  t == [tx[w] EXCEPT !.told = TRUE]
  <1>1. /\ Typed /\ Sound(w) /\ pc[w] = "post" /\ Go(w, t, "commit")
        /\ core' = [s \in Sides |-> core[s] + Sign(w) * tx[w].total[s]]
        /\ UNCHANGED << db, lock, job, stray, moves, failures >>
    BY DEF RunsInv, Post, At, After
  <1>2. /\ t \in Transaction /\ t.keyed /\ tx[w].keyed /\ t.told /\ ~tx[w].told
        /\ t.rows = tx[w].rows /\ t.delta = tx[w].delta /\ t.charged = tx[w].charged
        /\ t.marks = tx[w].marks /\ t.total = tx[w].total
    BY <1>1 DEF Sound, Fits, Staged, Transaction
  <1> HIDE DEF t
  <1>3. Gain(t) = Gain(tx[w])
    BY <1>2, GainSame
  <1>4. Fits("commit", j, t)
    BY <1>1, <1>2, <1>3 DEF Sound, Fits, Staged, Paying, Earned
  <1>5. Alone(w, j, t)
    <2>1. j \notin runs /\ \A v \in Workers \ {w} : job[v] = j => ~tx[v].keyed
      BY <1>2 DEF RunsInv, KeysAlone, Ours
    <2> QED
      BY <1>2, <2>1, StaysAlone
  <1>6. \A s \in Sides : /\ ToldBy(j, t, s) = Sign(w) * tx[w].total[s] /\ Told(w, s) = 0
                         /\ ToldBy(j, t, s) \in Int
    BY <1>2, ToldType DEF ToldBy, Told, Sign
  <1>7. TypeOK'
    <2>1. core' \in [Sides -> Int]
      BY <1>1, <1>6 DEF Typed, TypeOK
    <2> QED
      BY <1>1, <2>1 DEF Typed, TypeOK, db
  <1>8. Turns(w, "commit", j, t)
    <2>1. ASSUME NEW s \in Sides
          PROVE  core'[s] - stray'[s] = core[s] - stray[s] + ToldBy(j, t, s) - Told(w, s)
      <3>1. core'[s] = core[s] + ToldBy(j, t, s) /\ stray'[s] = stray[s] /\ Told(w, s) = 0
        BY <1>1, <1>6
      <3>2. core[s] \in Int /\ stray[s] \in Int /\ ToldBy(j, t, s) \in Int
        BY <1>1, <1>6 DEF Typed, TypeOK
      <3> QED
        BY <3>1, <3>2
    <2> QED
      BY <1>1, <2>1, NoStray DEF Turns, Typed, TypeOK, Go, db
  <1> QED
    BY <1>4, <1>5, <1>7, <1>8, WorkerStep DEF Stages

-----------------------------------------------------------------------------
(* accrue *)

LEMMA DailyInterestType == ASSUME NEW b \in Int PROVE DailyInterest(b) \in Nat
  <1>1. InterestStep \in Nat \ {0}
    BY InterestAssumption
  <1>2. CASE b <= 0
    BY <1>2 DEF DailyInterest
  <1>3. CASE ~(b <= 0)
    <2>1. b \in Nat
      BY <1>3
    <2>2. b \div InterestStep \in Nat
      BY <1>1, <2>1
    <2> QED
      BY <1>3, <2>2 DEF DailyInterest
  <1> QED
    BY <1>2, <1>3

LEMMA ReadBalancesStep ==
    ASSUME RunsInv, NEW w \in Workers, ReadBalances(w) PROVE RunsInv'
  <1> DEFINE due == [a \in Books |-> IF a \in On(tx[w].side) THEN DailyInterest(bal[a]) ELSE 0]
             t == [tx[w] EXCEPT !.due = due]
  <1>1. /\ Typed /\ Sound(w) /\ pc[w] = "read" /\ Go(w, t, "insert")
        /\ UNCHANGED << db, core, lock, job, stray, moves, failures >>
    BY DEF RunsInv, ReadBalances, At
  <1>2. due \in [Books -> Nat]
    <2>1. \A a \in Books : bal[a] \in Int
      BY <1>1 DEF Typed, TypeOK
    <2> QED
      BY <2>1, DailyInterestType
  <1>3. /\ t \in Transaction /\ t.rows = tx[w].rows /\ t.delta = tx[w].delta
        /\ t.charged = tx[w].charged /\ t.marks = tx[w].marks /\ t.total = tx[w].total
        /\ t.keyed = tx[w].keyed /\ t.told = tx[w].told
    <2> HIDE DEF due
    <2> QED
      BY <1>1, <1>2 DEF Sound, Fits, Transaction
  <1> HIDE DEF t
  <1>4. Gain(t) = Gain(tx[w])
    BY <1>3, GainSame
  <1>5. job[w] \in Days /\ job[w] \notin Periods
    BY <1>1, InterestAssumption DEF Sound, Fits, Staged
  <1>6. Fits("insert", job[w], t)
    BY <1>1, <1>3, <1>4, <1>5 DEF Sound, Fits, Staged, Paying, Earned
  <1> QED
    BY <1>1, <1>3, <1>6, QuietStep DEF Stages, Typed, TypeOK

LEMMA InsertRowsStep ==
    ASSUME RunsInv, NEW w \in Workers, InsertRows(w) PROVE RunsInv'
  <1> DEFINE u == tx[w]  j == job[w]  side == tx[w].side  S == On(side)
             rows == [a \in Books |-> IF a \in S /\ accrued[<<a, j>>] = 0
                                      THEN u.due[a] ELSE u.rows[a]]
             total == [u.total EXCEPT ![side] = SumOver(S, u.due)]
             t == [u EXCEPT !.rows = rows, !.total = total, !.side = "card"]
             p == IF side = "deposit" THEN "read" ELSE "run"
  <1>1. /\ Typed /\ Sound(w) /\ pc[w] = "insert" /\ u \in Transaction /\ side \in Sides
        /\ \A v \in Ours(w), a \in S : u.due[a] > 0 => tx[v].rows[a] = 0
        /\ UNCHANGED << db, core, lock, job, stray, moves, failures >>
    BY DEF RunsInv, InsertRows, At, Sound, Fits, Transaction
  <1>2. Go(w, t, p)
    BY <1>1 DEF InsertRows, After, Transaction
  <1>3. j \in Days /\ j \notin Periods /\ ~u.keyed /\ ~u.told
    BY <1>1, InterestAssumption DEF Sound, Fits, Staged
  <1>4. S \subseteq Books /\ IsFiniteSet(S)
    BY <1>1, Sizes
  <1>5. u.due \in [Books -> Nat] /\ u.rows \in [Books -> Nat] /\ u.total \in [Sides -> Int]
    BY <1>1 DEF Transaction
  <1>6. rows \in [Books -> Nat] /\ total \in [Sides -> Int]
    <2>1. SumOver(S, u.due) \in Int
      <3>1. WholeOn(S, u.due)
        BY <1>4, <1>5, WholePart
      <3> QED
        BY <1>4, <3>1, SumType
    <2> QED
      BY <1>5, <2>1
  <1>7. /\ t \in Transaction /\ t.rows = rows /\ t.delta = u.delta
        /\ t.charged = u.charged /\ t.marks = u.marks /\ t.total = total
        /\ t.keyed = u.keyed /\ t.told = u.told
    <2> HIDE DEF rows, total
    <2> QED
      BY <1>1, <1>6 DEF Transaction, Sides
  <1> HIDE DEF t
  <1>8. Gain(t) = Gain(u)
    BY <1>7, GainSame
  <1>9. j \notin runs => \A s \in Sides : total[s] = SumOver(On(s), rows)
    <2>0. SUFFICES ASSUME j \notin runs, NEW s \in Sides, NEW f, f = u.rows, NEW d, d = u.due,
                        NEW g, g = rows
                   PROVE  total[s] = SumOver(On(s), g)
      OBVIOUS
    <2>1. \A a \in Books : accrued[<<a, j>>] = 0
      <3> SUFFICES ASSUME NEW a \in Books PROVE accrued[<<a, j>>] = 0
        OBVIOUS
      <3>1. <<a, j>> \in Rows /\ accrued \in [Rows -> Nat]
        BY <1>1, <1>3 DEF Rows, Typed, TypeOK
      <3>2. accrued[<<a, j>>] \in Nat /\ ~(accrued[<<a, j>>] > 0)
        BY <2>0, <3>1 DEF RunsInv, Booked
      <3> QED
        BY <3>2
    <2>2. On(s) \subseteq Books /\ IsFiniteSet(On(s))
      BY Sizes
    <2>3. CASE s = side
      <3>1. \A a \in S : d[a] = g[a]
        BY <1>4, <2>0, <2>1
      <3>2. WholeOn(S, d)
        BY <1>4, <1>5, <2>0, WholePart
      <3>3. SumOver(S, d) = SumOver(S, g)
        BY <1>4, <3>1, <3>2, SumSame
      <3> QED
        BY <1>5, <2>0, <2>3, <3>3
    <2>4. CASE s # side
      <3>1. \A a \in On(s) : a \notin S
        BY <1>1, <2>4, InterestAssumption DEF On, Sides
      <3>2. \A a \in On(s) : f[a] = g[a]
        BY <2>0, <2>2, <3>1
      <3>3. WholeOn(On(s), f)
        BY <1>5, <2>0, <2>2, WholePart
      <3>4. SumOver(On(s), f) = SumOver(On(s), g)
        BY <2>2, <3>2, <3>3, SumSame
      <3>5. u.total[s] = SumOver(On(s), f)
        BY <1>1, <1>3, <2>0 DEF Sound, Fits, Earned
      <3> QED
        BY <1>5, <2>0, <2>4, <3>4, <3>5
    <2> QED
      BY <2>3, <2>4
  <1>10. Fits(p, j, t)
    <2>1. Staged(p, j, t)
      BY <1>1, <1>3, <1>7, <1>8 DEF Sound, Fits, Staged
    <2>2. Paying(p, t)
      BY <1>1, <1>7, <1>8 DEF Sound, Fits, Paying
    <2>3. Earned(runs, accrued, capitalised, p, j, t)
      <3> HIDE DEF rows, total
      <3> QED
        BY <1>3, <1>7, <1>9 DEF Earned
    <2> QED
      BY <1>7, <2>1, <2>2, <2>3 DEF Fits
  <1>11. Alone(w, j, t)
    <2>1. \A a \in Books : rows[a] > 0 => accrued[<<a, j>>] = 0
      <3> SUFFICES ASSUME NEW a \in Books, rows[a] > 0, accrued[<<a, j>>] # 0 PROVE FALSE
        OBVIOUS
      <3>1. rows[a] = u.rows[a] /\ u.rows[a] # 0
        OBVIOUS
      <3> QED
        BY <3>1, RowsOwn
    <2>2. ASSUME NEW v \in Workers \ {w}, job[v] = j, NEW a \in Books
          PROVE  rows[a] = 0 \/ tx[v].rows[a] = 0
      <3>1. CASE a \in S /\ u.due[a] > 0
        BY <1>1, <2>2, <3>1 DEF Ours
      <3>2. CASE rows[a] = u.rows[a]
        BY <2>2, <3>2, RowsOwn
      <3>3. CASE rows[a] = u.due[a] /\ ~(u.due[a] > 0)
        BY <1>5, <3>3
      <3> QED
        BY <3>1, <3>2, <3>3
    <2> HIDE DEF rows
    <2> QED
      BY <1>3, <1>7, <2>1, <2>2 DEF Alone
  <1>12. Turns(w, p, j, t) /\ TypeOK' /\ p \in Stages
    <2>1. \A s \in Sides : ToldBy(j, t, s) = 0 /\ Told(w, s) = 0
      BY <1>3, <1>7 DEF ToldBy, Told
    <2> QED
      BY <1>1, <1>2, <2>1, NoStray DEF Turns, Typed, TypeOK, Go, db, Stages
  <1> QED
    BY <1>10, <1>11, <1>12, WorkerStep

-----------------------------------------------------------------------------
(* capitalise *)

LEMMA PaysStep ==
    ASSUME RunsInv, NEW w \in Workers, NEW t, Pays(w, t), pc[w] # "commit",
           Fits("pay", job[w], t), t.rows = tx[w].rows,
           lock' \in [Books -> Workers \cup {None}],
           UNCHANGED << db, core, job, stray, failures >>
    PROVE  RunsInv'
  <1> DEFINE j == job[w]  u == [t EXCEPT !.side = "card"]
  <1>1. /\ t \in Transaction /\ j \in Periods /\ j \notin Days /\ ~t.keyed /\ ~t.told
        /\ Gain(t) \in [Books -> Int]
    BY GainType, InterestAssumption DEF Fits, Staged
  <1>2. CASE Go(w, t, "pay")
    BY <1>2, QuietStep DEF Stages
  <1>3. ASSUME \A a \in Books : ~(t.due[a] > 0)
        PROVE  \A a \in Books : Gain(t)[a] + 0 <= SumOver(In(Rows, a, j), accrued)
    <2> SUFFICES ASSUME NEW a \in Books
                 PROVE  Gain(t)[a] + 0 <= SumOver(In(Rows, a, j), accrued)
      OBVIOUS
    <2>1. t.due[a] = 0
      <3>1. t.due[a] \in Nat /\ ~(t.due[a] > 0)
        BY <1>1, <1>3 DEF Transaction
      <3> QED
        BY <3>1
    <2> QED
      BY <1>1, <2>1 DEF Fits, Earned, Due
  <1>4. CASE (\A a \in Books : ~(t.due[a] > 0)) /\ t.side = "deposit" /\ Go(w, u, "sum")
    <2>1. /\ u \in Transaction /\ u.rows = t.rows /\ u.delta = t.delta /\ u.side = "card"
          /\ u.charged = t.charged /\ u.marks = t.marks /\ u.total = t.total
          /\ u.keyed = t.keyed /\ u.told = t.told
      BY <1>1 DEF Transaction, Sides
    <2> HIDE DEF u
    <2>2. Gain(u) = Gain(t)
      BY <2>1, GainSame
    <2>3. Staged("sum", j, u)
      BY <1>1, <2>1, <2>2 DEF Fits, Staged
    <2>4. Paying("sum", u)
      BY <1>4, <2>1, <2>2 DEF Fits, Paying, On
    <2>5. Earned(runs, accrued, capitalised, "sum", j, u)
      BY <1>1, <1>3, <1>4, <2>1, <2>2 DEF Fits, Earned, Due
    <2> QED
      BY <1>4, <2>1, <2>3, <2>4, <2>5, QuietStep DEF Fits, Stages
  <1>5. CASE (\A a \in Books : ~(t.due[a] > 0)) /\ Go(w, t, "mark")
    <2>1. Staged("mark", j, t) /\ Paying("mark", t)
      BY <1>1 DEF Fits, Staged, Paying
    <2>2. Earned(runs, accrued, capitalised, "mark", j, t)
      BY <1>1, <1>3, <1>5 DEF Fits, Earned, Due
    <2> QED
      BY <1>5, <2>1, <2>2, QuietStep DEF Fits, Stages
  <1> QED
    BY <1>2, <1>4, <1>5 DEF Pays

LEMMA MonthIs ==
    ASSUME NEW w, job[w] \in Periods
    PROVE  Month(w) = {r \in Rows : r[2] \in MonthRange[job[w]]}
  <1>1. MonthRange[job[w]] \subseteq Days
    BY InterestAssumption
  <1> QED
    BY <1>1 DEF Month, Rows

LEMMA SumDueStep ==
    ASSUME RunsInv, NEW w \in Workers, SumDue(w) PROVE RunsInv'
  <1> DEFINE u == tx[w]  j == job[w]
             due == [a \in Books |-> IF a \in On(u.side)
                        THEN SumOver({r \in Unpaid(w) : r[1] = a}, accrued) ELSE 0]
             t == [u EXCEPT !.due = due]
  <1>1. /\ Typed /\ Sound(w) /\ pc[w] = "sum" /\ u \in Transaction
        /\ UNCHANGED << db, core, lock, job, stray, moves, failures >>
    BY DEF RunsInv, SumDue, At, Sound, Fits
  <1>2. Pays(w, t)
    BY DEF SumDue
  <1>3. ASSUME NEW a \in Books
        PROVE  /\ SumOver({r \in Unpaid(w) : r[1] = a}, accrued) \in Nat
               /\ SumOver({r \in Unpaid(w) : r[1] = a}, accrued) <= SumOver(In(Rows, a, j), accrued)
    <2>0. SUFFICES ASSUME NEW X, X = {r \in Unpaid(w) : r[1] = a}, NEW Y, Y = In(Rows, a, j)
                   PROVE  SumOver(X, accrued) \in Nat /\ SumOver(X, accrued) <= SumOver(Y, accrued)
      OBVIOUS
    <2>1. accrued \in [Rows -> Nat] /\ \A r \in Rows : accrued[r] <= accrued[r]
      BY <1>1 DEF Typed, TypeOK
    <2>2. j \in Periods
      BY <1>1 DEF Sound, Fits, Staged
    <2>3. X \subseteq Y /\ Y \subseteq Rows
      BY <2>0, <2>2, MonthIs DEF Unpaid, In
    <2> QED
      BY <2>1, <2>3, RowsSum, RowsGrow
  <1>4. due \in [Books -> Nat]
    BY <1>3
  <1>5. /\ t \in Transaction /\ t.rows = u.rows /\ t.delta = u.delta /\ t.side = u.side
        /\ t.charged = u.charged /\ t.marks = u.marks /\ t.total = u.total
        /\ t.keyed = u.keyed /\ t.told = u.told /\ t.due = due
    <2> HIDE DEF due
    <2> QED
      BY <1>1, <1>4 DEF Transaction
  <1> HIDE DEF t
  <1>6. Gain(t) = Gain(u) /\ Gain(u) \in [Books -> Int]
    BY <1>1, <1>5, GainSame, GainType
  <1>7. Staged("pay", j, t)
    BY <1>1, <1>5, <1>6 DEF Sound, Fits, Staged
  <1>8. Paying("pay", t)
    <2>1. \A a \in Books : due[a] > 0 => a \in On(u.side)
      OBVIOUS
    <2> HIDE DEF due
    <2> QED
      BY <1>1, <1>5, <1>6, <2>1 DEF Sound, Fits, Paying
  <1>9. Earned(runs, accrued, capitalised, "pay", j, t)
    <2>1. j \in Periods /\ j \notin Days
      BY <1>1, InterestAssumption DEF Sound, Fits, Staged
    <2>2. ASSUME NEW a \in Books
          PROVE  Gain(u)[a] + due[a] <= SumOver(In(Rows, a, j), accrued)
      <3>1. Gain(u)[a] + 0 <= SumOver(In(Rows, a, j), accrued)
        BY <1>1, <2>1, <2>2 DEF Sound, Fits, Earned, Due
      <3>2. CASE a \in On(u.side)
        <4>1. u.delta[a] = 0 /\ u.charged = {}
          BY <1>1, <3>2 DEF Sound, Fits, Paying
        <4>2. Gain(u)[a] = 0
          BY <4>1 DEF Gain, Interest
        <4> QED
          BY <1>3, <3>2, <4>2
      <3>3. CASE a \notin On(u.side)
        BY <3>1, <3>3
      <3> QED
        BY <3>2, <3>3
    <2> HIDE DEF due
    <2> QED
      BY <1>1, <1>5, <1>6, <2>1, <2>2 DEF Sound, Fits, Earned, Due, Paying
  <1> QED
    BY <1>1, <1>2, <1>5, <1>7, <1>8, <1>9, PaysStep DEF Fits, Typed, TypeOK

LEMMA PayStep ==
    ASSUME RunsInv, NEW w \in Workers, Pay(w) PROVE RunsInv'
  <1> DEFINE u == tx[w]  j == job[w]
  <1>1. PICK a \in Books :
          /\ u.due[a] > 0
          /\ lock' = [lock EXCEPT ![a] = w]
          /\ Pays(w, [u EXCEPT !.due[a] = 0, !.delta[a] = @ + u.due[a],
                               !.total[u.side] = @ + u.due[a]])
    BY DEF Pay
  <1> DEFINE n == u.due[a]
             due == [u.due EXCEPT ![a] = 0]
             delta == [u.delta EXCEPT ![a] = @ + n]
             total == [u.total EXCEPT ![u.side] = @ + n]
             t == [u EXCEPT !.due = due, !.delta = delta, !.total = total]
  <1>2. /\ Typed /\ Sound(w) /\ pc[w] = "pay" /\ u \in Transaction
        /\ UNCHANGED << db, core, job, stray, moves, failures >>
    BY DEF RunsInv, Pay, At, Sound, Fits
  <1>3. /\ u.due \in [Books -> Nat] /\ u.delta \in [Books -> Int]
        /\ u.total \in [Sides -> Int] /\ n \in Nat /\ n > 0 /\ u.side \in Sides
    BY <1>1, <1>2 DEF Transaction
  <1>4. Pays(w, t)
    BY <1>1
  <1>5. due \in [Books -> Nat] /\ delta \in [Books -> Int] /\ total \in [Sides -> Int]
    BY <1>3
  <1>6. /\ t \in Transaction /\ t.rows = u.rows /\ t.delta = delta /\ t.side = u.side
        /\ t.charged = u.charged /\ t.marks = u.marks /\ t.total = total
        /\ t.keyed = u.keyed /\ t.told = u.told /\ t.due = due
    <2> HIDE DEF due, delta, total, n
    <2> QED
      BY <1>2, <1>5 DEF Transaction
  <1> HIDE DEF t
  <1>7. /\ j \in Periods /\ j \notin Days /\ u.charged = {} /\ u.marks = {}
        /\ a \in On(u.side)
    BY <1>1, <1>2, InterestAssumption DEF Sound, Fits, Staged, Paying
  <1>8. /\ Gain(t) \in [Books -> Int] /\ Gain(u) \in [Books -> Int]
        /\ Gain(t)[a] = Gain(u)[a] + n
        /\ \A x \in Books \ {a} : Gain(t)[x] = Gain(u)[x]
    <2>1. \A x \in Books : Gain(t)[x] = delta[x] + 0 /\ Gain(u)[x] = u.delta[x] + 0
      BY <1>6, <1>7 DEF Gain, Interest
    <2> QED
      BY <1>2, <1>3, <1>6, <2>1, GainType
  <1>9. Staged("pay", j, t)
    BY <1>2, <1>6, <1>7 DEF Sound, Fits, Staged
  <1>10. Paying("pay", t)
    <2>1. \A x \in Books : Gain(t)[x] >= 0
      <3> SUFFICES ASSUME NEW x \in Books PROVE Gain(t)[x] >= 0
        OBVIOUS
      <3>1. Gain(u)[x] >= 0 /\ Gain(u)[x] \in Int
        BY <1>2, <1>8 DEF Sound, Fits, Paying
      <3> QED
        BY <1>3, <1>8, <3>1
    <2>2. \A x \in Books : due[x] > 0 => x \in On(u.side)
      BY <1>2, <1>3 DEF Sound, Fits, Paying
    <2>3. u.side = "deposit" => \A x \in Cards : delta[x] = 0
      <3> SUFFICES ASSUME u.side = "deposit", NEW x \in Cards PROVE delta[x] = 0
        OBVIOUS
      <3>1. x # a /\ x \in Books
        BY <1>7, InterestAssumption DEF On, Books
      <3>2. u.delta[x] = 0
        BY <1>2 DEF Sound, Fits, Paying
      <3> QED
        BY <1>3, <3>1, <3>2
    <2> HIDE DEF due, delta
    <2> QED
      BY <1>6, <1>7, <2>1, <2>2, <2>3 DEF Paying
  <1>11. ASSUME NEW s \in Sides PROVE total[s] = SumOver(On(s), Gain(t))
    <2>1. /\ u.total[s] = SumOver(On(s), Gain(u)) /\ IsFiniteSet(On(s)) /\ On(s) \subseteq Books
      BY <1>2, <1>7, Sizes DEF Sound, Fits, Earned
    <2>2. WholeOn(On(s), Gain(u)) /\ WholeOn(On(s), Gain(t))
      BY <1>8, <2>1, WholePart
    <2>3. CASE s = u.side
      <3>1. a \in On(s) /\ \A x \in On(s) \ {a} : Gain(u)[x] = Gain(t)[x]
        BY <1>7, <1>8, <2>1, <2>3
      <3>2. SumOver(On(s), Gain(t)) = SumOver(On(s), Gain(u)) + (Gain(t)[a] - Gain(u)[a])
        BY <2>1, <2>2, <3>1, SumChange
      <3>3. Gain(u)[a] \in Int
        BY <1>8
      <3>4. u.total[s] \in Int
        BY <1>3
      <3> HIDE DEF n
      <3>5. total[s] = u.total[s] + n
        BY <1>3, <2>3
      <3> QED
        BY <1>3, <1>8, <2>1, <3>2, <3>3, <3>4, <3>5
    <2>4. CASE s # u.side
      <3>1. a \notin On(s)
        BY <1>3, <1>7, <2>4, InterestAssumption DEF On, Sides
      <3>2. \A x \in On(s) : Gain(u)[x] = Gain(t)[x]
        BY <1>8, <2>1, <3>1
      <3>3. SumOver(On(s), Gain(u)) = SumOver(On(s), Gain(t))
        BY <2>1, <2>2, <3>2, SumSame
      <3> QED
        BY <1>3, <2>1, <2>4, <3>3
    <2> QED
      BY <2>3, <2>4
  <1>12. Earned(runs, accrued, capitalised, "pay", j, t)
    <2>1. ASSUME NEW x \in Books
          PROVE  Gain(t)[x] + due[x] <= SumOver(In(Rows, x, j), accrued)
      <3>1. Gain(u)[x] + u.due[x] <= SumOver(In(Rows, x, j), accrued)
        BY <1>2, <1>7, <2>1 DEF Sound, Fits, Earned, Due
      <3>2. Gain(t)[x] + due[x] = Gain(u)[x] + u.due[x]
        BY <1>3, <1>8
      <3> QED
        BY <3>1, <3>2
    <2> HIDE DEF due, total
    <2> QED
      BY <1>6, <1>7, <1>11, <2>1 DEF Earned, Due
  <1>13. lock' \in [Books -> Workers \cup {None}]
    BY <1>1, <1>2 DEF Typed, TypeOK
  <1> QED
    BY <1>2, <1>4, <1>6, <1>9, <1>10, <1>12, <1>13, PaysStep DEF Fits

LEMMA MarkStep ==
    ASSUME RunsInv, NEW w \in Workers, Mark(w) PROVE RunsInv'
  <1> DEFINE u == tx[w]  j == job[w]  t == [u EXCEPT !.marks = Unpaid(w)]
  <1>1. /\ Typed /\ Sound(w) /\ pc[w] = "mark" /\ u \in Transaction /\ Go(w, t, "fees")
        /\ UNCHANGED << db, core, lock, job, stray, moves, failures >>
    BY DEF RunsInv, Mark, At, Sound, Fits
  <1>2. /\ t \in Transaction /\ t.rows = u.rows /\ t.delta = u.delta
        /\ t.charged = u.charged /\ t.marks = Unpaid(w) /\ t.total = u.total
        /\ t.keyed = u.keyed /\ t.told = u.told
    <2>1. Unpaid(w) \subseteq Rows
      BY <1>1, MonthIs DEF Unpaid, Sound, Fits, Staged
    <2> QED
      BY <1>1, <2>1 DEF Transaction
  <1> HIDE DEF t
  <1>3. Gain(t) = Gain(u) /\ Gain(u) \in [Books -> Int]
    BY <1>1, <1>2, GainSame, GainType
  <1>4. j \in Periods /\ j \notin Days
    BY <1>1, InterestAssumption DEF Sound, Fits, Staged
  <1>5. Staged("fees", j, t) /\ Paying("fees", t)
    BY <1>1, <1>2, <1>3, <1>4 DEF Sound, Fits, Staged, Paying
  <1>6. Earned(runs, accrued, capitalised, "fees", j, t)
    <2>1. \A r \in t.marks : accrued[r] > 0
      BY <1>2 DEF Unpaid
    <2>2. ASSUME NEW a \in Books
          PROVE  SumOver(In(Rows, a, j), accrued)
                    = SumOver(In(t.marks \cup capitalised, a, j), accrued)
      <3>0. SUFFICES ASSUME NEW X, X = In(Rows, a, j),
                            NEW Y, Y = In(t.marks \cup capitalised, a, j)
                     PROVE  SumOver(X, accrued) = SumOver(Y, accrued)
        OBVIOUS
      <3>1. accrued \in [Rows -> Nat] /\ capitalised \subseteq Rows
        BY <1>1 DEF Typed, TypeOK
      <3>2. X \subseteq Rows /\ Y \subseteq X
        BY <1>2, <1>4, <3>0, <3>1, MonthIs DEF In, Unpaid
      <3>3. \A r \in X \ Y : accrued[r] = 0
        <4> SUFFICES ASSUME NEW r \in X \ Y PROVE accrued[r] = 0
          OBVIOUS
        <4>1. r \in Rows /\ r \notin Unpaid(w) /\ r \notin capitalised /\ r \in Month(w)
          BY <1>2, <1>4, <3>0, MonthIs DEF In
        <4>2. accrued[r] \in Nat /\ ~(accrued[r] > 0)
          BY <3>1, <4>1 DEF Unpaid
        <4> QED
          BY <4>2
      <3>4. /\ IsFiniteSet(Y) /\ IsFiniteSet(X \ Y) /\ WholeOn(Y \cup (X \ Y), accrued)
            /\ SumOver(Y, accrued) \in Nat
        <4>1. Y \subseteq Rows /\ X \ Y \subseteq Rows /\ Y \cup (X \ Y) \subseteq Rows
          BY <3>2
        <4> QED
          BY <3>1, <4>1, RowsSum
      <3>5. SumOver(Y \cup (X \ Y), accrued) = SumOver(Y, accrued) + SumOver(X \ Y, accrued)
        <4>1. Y \cap (X \ Y) = {}
          OBVIOUS
        <4> QED
          BY <3>4, <4>1, SumUnion
      <3>6. SumOver(X \ Y, accrued) = 0
        BY <3>3, <3>4, SumZero
      <3>7. Y \cup (X \ Y) = X
        BY <3>2
      <3> QED
        BY <3>4, <3>5, <3>6, <3>7
    <2>3. ASSUME NEW a \in Books
          PROVE  Gain(u)[a] <= SumOver(In(t.marks \cup capitalised, a, j), accrued)
      <3>1. Gain(u)[a] + 0 <= SumOver(In(Rows, a, j), accrued)
        BY <1>1, <1>4 DEF Sound, Fits, Earned, Due
      <3>2. Gain(u)[a] + 0 = Gain(u)[a]
        BY <1>3
      <3> QED
        BY <2>2, <3>1, <3>2
    <2> QED
      BY <1>1, <1>2, <1>3, <1>4, <2>1, <2>3 DEF Sound, Fits, Earned
  <1> QED
    BY <1>1, <1>2, <1>5, <1>6, QuietStep DEF Fits, Typed, TypeOK, Stages

LEMMA ChargesStep ==
    ASSUME RunsInv, NEW w \in Workers, NEW t, Charges(w, t), pc[w] # "commit",
           Fits("charge", job[w], t), t.rows = tx[w].rows,
           lock' \in [Books -> Workers \cup {None}],
           UNCHANGED << db, core, job, stray, failures >>
    PROVE  RunsInv'
  <1>1. CASE Go(w, t, "charge")
    BY <1>1, QuietStep DEF Stages
  <1>2. CASE Go(w, t, "run")
    <2>1. Fits("run", job[w], t)
      BY InterestAssumption DEF Fits, Staged, Paying, Earned
    <2> QED
      BY <1>2, <2>1, QuietStep DEF Stages
  <1> QED
    BY <1>1, <1>2 DEF Charges, After

LEMMA ReadFeesStep ==
    ASSUME RunsInv, NEW w \in Workers, ReadFees(w) PROVE RunsInv'
  <1> DEFINE u == tx[w]  j == job[w]
             due == [a \in Books |-> IF a \in Deposits THEN FeeDue(a, View(w, a)) ELSE 0]
             t == [u EXCEPT !.due = due]
  <1>1. /\ Typed /\ Sound(w) /\ pc[w] = "fees" /\ u \in Transaction /\ Charges(w, t)
        /\ UNCHANGED << db, core, lock, job, stray, moves, failures >>
    BY DEF RunsInv, ReadFees, At, Sound, Fits
  <1>2. due \in [Books -> Nat]
    BY InterestAssumption DEF FeeDue
  <1>3. /\ t \in Transaction /\ t.rows = u.rows /\ t.delta = u.delta
        /\ t.charged = u.charged /\ t.marks = u.marks /\ t.total = u.total
        /\ t.keyed = u.keyed /\ t.told = u.told
    <2> HIDE DEF due
    <2> QED
      BY <1>1, <1>2 DEF Transaction
  <1> HIDE DEF t
  <1>4. Gain(t) = Gain(u)
    BY <1>3, GainSame
  <1>5. Fits("charge", j, t)
    BY <1>1, <1>3, <1>4, InterestAssumption DEF Sound, Fits, Staged, Paying, Earned
  <1> QED
    BY <1>1, <1>3, <1>5, ChargesStep DEF Typed, TypeOK

LEMMA ChargeStep ==
    ASSUME RunsInv, NEW w \in Workers, Charge(w) PROVE RunsInv'
  <1> DEFINE u == tx[w]  j == job[w]
  <1>1. Typed /\ Sound(w) /\ pc[w] = "charge" /\ u \in Transaction /\ UNCHANGED failures
    BY DEF RunsInv, Charge, At, Sound, Fits
  <1>2. CASE Rollback(w)
    BY <1>1, <1>2, RollbackStep DEF Typed
  <1>3. ASSUME NEW a \in Deposits, u.due[a] > 0, lock' = [lock EXCEPT ![a] = w],
               Charges(w, [u EXCEPT !.due[a] = 0, !.delta[a] = @ - Fee,
                                    !.charged = @ \cup {a}]),
               UNCHANGED << db, core, job, stray, moves >>
        PROVE  RunsInv'
    <2> DEFINE due == [u.due EXCEPT ![a] = 0]
               delta == [u.delta EXCEPT ![a] = @ - Fee]
               charged == u.charged \cup {a}
               t == [u EXCEPT !.due = due, !.delta = delta, !.charged = charged]
    <2>1. /\ u.due \in [Books -> Nat] /\ u.delta \in [Books -> Int] /\ Fee \in Nat
          /\ u.charged \subseteq Deposits /\ a \in Books
      BY <1>1, InterestAssumption DEF Transaction, Books
    <2>2. due \in [Books -> Nat] /\ delta \in [Books -> Int] /\ charged \subseteq Deposits
      BY <2>1
    <2>3. Charges(w, t)
      BY <1>3
    <2>4. /\ t \in Transaction /\ t.rows = u.rows /\ t.delta = delta /\ t.due = due
          /\ t.charged = charged /\ t.marks = u.marks /\ t.total = u.total
          /\ t.keyed = u.keyed /\ t.told = u.told
      <3> HIDE DEF due, delta, charged
      <3> QED
        BY <1>1, <2>2 DEF Transaction
    <2> HIDE DEF t
    <2>5. a \notin u.charged
      BY <1>1, <1>3, <2>1 DEF Sound, Fits, Paying
    <2>6. Gain(t) = Gain(u)
      <3>1. \A x \in Books : delta[x] + (IF x \in charged THEN Fee ELSE 0)
                              = u.delta[x] + (IF x \in u.charged THEN Fee ELSE 0)
        BY <2>1, <2>5
      <3> HIDE DEF delta, charged
      <3> QED
        BY <2>4, <3>1 DEF Gain, Interest
    <2>7. Paying("charge", t)
      <3>1. \A x \in Books : due[x] > 0 => x \notin charged
        BY <1>1, <2>1 DEF Sound, Fits, Paying
      <3> HIDE DEF due, delta, charged
      <3> QED
        BY <1>1, <2>4, <2>6, <3>1 DEF Sound, Fits, Paying
    <2>8. Fits("charge", j, t)
      BY <1>1, <2>4, <2>6, <2>7, InterestAssumption DEF Sound, Fits, Staged, Earned
    <2>9. lock' \in [Books -> Workers \cup {None}]
      BY <1>1, <1>3, <2>1 DEF Typed, TypeOK
    <2> QED
      BY <1>1, <1>3, <2>3, <2>4, <2>8, <2>9, ChargesStep
  <1> QED
    BY <1>2, <1>3 DEF Charge

LEMMA VictimStep ==
    ASSUME RunsInv, NEW w \in Workers, Victim(w) PROVE RunsInv'
  <1>1. Rollback(w) /\ UNCHANGED failures /\ pc[w] # "commit"
    BY DEF Victim, WaitsFor, At
  <1> QED
    BY <1>1, RollbackStep DEF RunsInv, Typed

LEMMA FailStep ==
    ASSUME RunsInv, NEW w \in Workers, Fail(w) PROVE RunsInv'
  <1>1. Rollback(w) /\ failures \in Nat /\ failures' = failures + 1
    BY DEF Fail, RunsInv, Typed
  <1>2. failures' \in Nat /\ failures' # 0
    BY <1>1
  <1> QED
    BY <1>1, <1>2, RollbackStep

-----------------------------------------------------------------------------
(* Commit *)

\* What w has inserted comes to the rows that were not there.
Added(w) == [r \in Rows |-> IF r[2] = job[w] THEN tx[w].rows[r[1]] ELSE 0]

\* What w pays in is of its period.
PaidIn(w) == [x \in Books \X Periods |-> IF x[2] = job[w] THEN Gain(tx[w])[x[1]] ELSE 0]

\* The tables after a commit of w, whose key is its own.
Commits(w) ==
    /\ job[w] \in Days \cup Periods /\ job[w] \notin runs /\ runs' = runs \cup {job[w]}
    /\ \A v \in Workers \ {w} : job[v] = job[w] => ~tx[v].keyed
    /\ \A r \in Rows : /\ accrued'[r] = accrued[r] + Added(w)[r] /\ Added(w)[r] \in Nat
                       /\ accrued[r] > 0 => Added(w)[r] = 0
    /\ capitalised' = capitalised \cup tx[w].marks
    /\ tx[w].marks \subseteq Rows
    /\ \A r \in tx[w].marks : accrued[r] > 0
    /\ \A a \in Books : Gain(tx[w])[a] \in Nat
    /\ \A x \in Books \X Periods : paid'[x] = paid[x] + PaidIn(w)[x]
    /\ \A x \in Books \X Periods : x[2] # job[w] => PaidIn(w)[x] = 0
    /\ \A x \in Books \X Periods :
          x[2] = job[w] => paid[x] = 0 /\ PaidIn(w)[x] = Gain(tx[w])[x[1]]
    /\ \A x \in Deposits \X Periods : x[2] # job[w] => fees'[x] = fees[x]
    /\ \A x \in Deposits \X Periods : x[2] = job[w] => fees[x] = 0 /\ fees'[x] \in {0, 1}
    /\ pc' = [pc EXCEPT ![w] = "idle"] /\ job' = [job EXCEPT ![w] = None]
    /\ tx' = [tx EXCEPT ![w] = NoTx]
    /\ UNCHANGED << core, stray, failures >>

LEMMA CommitShape ==
    ASSUME RunsInv, NEW w \in Workers, Commit(w) PROVE Commits(w) /\ Typed'
  <1> DEFINE t == tx[w]  j == job[w]
  <1>1. Typed /\ Sound(w) /\ pc[w] = "commit" /\ t \in Transaction /\ t.keyed /\ t.told
    BY DEF RunsInv, Commit, At, Sound, Fits, Staged
  <1>2. /\ j \in Days \cup Periods /\ j \notin runs
        /\ \A v \in Workers \ {w} : job[v] = j => ~tx[v].keyed
    BY <1>1 DEF RunsInv, KeysAlone, Ours, Sound, Fits, Staged
  <1>3. /\ t.rows \in [Books -> Nat] /\ t.marks \subseteq Rows /\ accrued \in [Rows -> Nat]
        /\ t.delta \in [Books -> Int] /\ paid \in [Books \X Periods -> Nat]
        /\ fees \in [Deposits \X Periods -> Nat] /\ bal \in [Books -> Int]
    BY <1>1 DEF Transaction, Typed, TypeOK
  <1>4. ASSUME NEW r \in Rows
        PROVE  /\ accrued'[r] = accrued[r] + Added(w)[r] /\ Added(w)[r] \in Nat
               /\ accrued[r] > 0 => Added(w)[r] = 0
    <2>1. r = <<r[1], r[2]>> /\ r[1] \in Books /\ t.rows[r[1]] \in Nat /\ accrued[r] \in Nat
      BY <1>3 DEF Rows
    <2>2. accrued'[r] = IF r[2] = j /\ t.rows[r[1]] > 0 THEN t.rows[r[1]] ELSE accrued[r]
      BY DEF Commit
    <2>3. Added(w)[r] = IF r[2] = j THEN t.rows[r[1]] ELSE 0
      BY DEF Added
    <2>4. r[2] = j => t.rows[r[1]] = 0 \/ accrued[r] = 0
      <3> SUFFICES ASSUME r[2] = j PROVE t.rows[r[1]] = 0 \/ accrued[r] = 0
        OBVIOUS
      <3>1. r = <<r[1], job[w]>>
        BY <2>1
      <3>2. t.rows[r[1]] = 0 \/ accrued[<<r[1], job[w]>>] = 0
        BY <2>1, RowsOwn
      <3> QED
        BY <3>1, <3>2
    <2> QED
      BY <2>1, <2>2, <2>3, <2>4
  <1>5. \A r \in t.marks : accrued[r] > 0
    <2>1. CASE j \in Days
      BY <1>1, <2>1 DEF Sound, Fits, Staged
    <2>2. CASE j \in Periods
      BY <1>1, <2>2 DEF Sound, Fits, Earned
    <2> QED
      BY <1>2, <2>1, <2>2
  <1>6. ASSUME NEW a \in Books PROVE Gain(t)[a] \in Nat
    <2>1. Gain(t)[a] \in Int /\ Gain(t)[a] >= 0
      BY <1>1, GainType DEF Sound, Fits, Paying
    <2> QED
      BY <2>1
  <1>16. ASSUME NEW x \in Books \X Periods
         PROVE  /\ paid'[x] = paid[x] + PaidIn(w)[x] /\ PaidIn(w)[x] \in Nat
                /\ x[2] # j => PaidIn(w)[x] = 0
                /\ x[2] = j => paid[x] = 0 /\ PaidIn(w)[x] = Gain(t)[x[1]]
    <2>1. x[1] \in Books /\ Gain(t)[x[1]] = Interest(t, x[1])
      BY DEF Gain
    <2>2. paid'[x] = paid[x] + (IF x[2] = j THEN Interest(t, x[1]) ELSE 0)
      BY DEF Commit
    <2>3. PaidIn(w)[x] = IF x[2] = j THEN Gain(t)[x[1]] ELSE 0
      BY DEF PaidIn
    <2>4. paid[x] \in Nat /\ (x[2] = j => ~(paid[x] > 0))
      BY <1>2, <1>3 DEF RunsInv, Booked
    <2> QED
      BY <1>6, <2>1, <2>2, <2>3, <2>4
  <1>7. ASSUME NEW x \in Deposits \X Periods
        PROVE  /\ x[2] # j => fees'[x] = fees[x]
               /\ x[2] = j => fees[x] = 0 /\ fees'[x] \in {0, 1}
    <2>1. fees'[x] = fees[x] + (IF x[2] = j /\ x[1] \in t.charged THEN 1 ELSE 0)
      BY DEF Commit
    <2>2. fees[x] \in Nat /\ (x[2] = j => ~(fees[x] > 0))
      BY <1>2, <1>3 DEF RunsInv, Booked
    <2> QED
      BY <2>1, <2>2
  <1>8. /\ pc' = [pc EXCEPT ![w] = "idle"] /\ job' = [job EXCEPT ![w] = None]
        /\ tx' = [tx EXCEPT ![w] = NoTx]
        /\ runs' = runs \cup {j} /\ capitalised' = capitalised \cup t.marks
        /\ UNCHANGED << core, stray, failures >>
    BY DEF Commit, Go
  <1>9. Commits(w)
    BY <1>2, <1>3, <1>4, <1>5, <1>6, <1>7, <1>8, <1>16 DEF Commits
  <1>10. bal' \in [Books -> Int] /\ lock' \in [Books -> Workers \cup {None}]
    BY <1>1, <1>3 DEF Commit, View, Unlocked, Typed, TypeOK
  <1>11. accrued' \in [Rows -> Nat]
    <2>1. accrued' = [r \in Rows |-> IF r[2] = j /\ t.rows[r[1]] > 0
                                     THEN t.rows[r[1]] ELSE accrued[r]]
      BY DEF Commit
    <2>2. \A r \in Rows : accrued'[r] \in Nat
      BY <1>3, <1>4
    <2> QED
      BY <2>1, <2>2
  <1>12. paid' \in [Books \X Periods -> Nat]
    <2>1. paid' = [x \in Books \X Periods |-> paid[x] +
                      IF x[2] = j THEN Interest(t, x[1]) ELSE 0]
      BY DEF Commit
    <2>2. \A x \in Books \X Periods : paid'[x] \in Nat
      BY <1>3, <1>16
    <2> QED
      BY <2>1, <2>2
  <1>13. fees' \in [Deposits \X Periods -> Nat]
    <2>1. fees' = [x \in Deposits \X Periods |->
                      fees[x] + IF x[2] = j /\ x[1] \in t.charged THEN 1 ELSE 0]
      BY DEF Commit
    <2>2. \A x \in Deposits \X Periods : fees'[x] \in Nat
      BY <1>3, <1>7
    <2> QED
      BY <2>1, <2>2
  <1>14. TypeOK'
    BY <1>1, <1>2, <1>3, <1>8, <1>10, <1>11, <1>12, <1>13 DEF Typed, TypeOK
  <1>15. NoTx \in Transaction
    BY DEF NoTx, Transaction, Sides
  <1> QED
    BY <1>1, <1>8, <1>9, <1>14, <1>15 DEF Typed, Stages

\* What a transaction has earned it keeps when another batch k commits: rows are
\* added and marked, and none is changed or unmarked.
LEMMA EarnedKept ==
    ASSUME NEW R, NEW A \in [Rows -> Nat], NEW B \in [Rows -> Nat], NEW C, NEW M, NEW k,
           NEW p, NEW j, NEW t \in Transaction, Earned(R, A, C, p, j, t),
           C \cup M \subseteq Rows, \A r \in Rows : A[r] <= B[r]
    PROVE  Earned(R \cup {k}, B, C \cup M, p, j, t)
  <1> SUFFICES ASSUME j \in Periods
               PROVE  /\ \A r \in t.marks : B[r] > 0
                      /\ p \in {"sum", "pay", "mark"} =>
                           \A a \in Books :
                             Gain(t)[a] + Due(p, t, a) <= SumOver(In(Rows, a, j), B)
                      /\ p \notin {"sum", "pay", "mark"} =>
                           \A a \in Books :
                             Gain(t)[a] <= SumOver(In(t.marks \cup (C \cup M), a, j), B)
    BY DEF Earned
  <1>1. t.marks \subseteq Rows /\ Gain(t) \in [Books -> Int]
    BY GainType DEF Transaction
  <1>2. ASSUME NEW r \in t.marks PROVE B[r] > 0
    <2>1. A[r] > 0 /\ A[r] <= B[r] /\ A[r] \in Nat /\ B[r] \in Nat
      BY <1>1 DEF Earned
    <2> QED
      BY <2>1
  <1>3. ASSUME NEW a, NEW S, NEW T, S \subseteq T, T \subseteq Rows
        PROVE  /\ SumOver(In(S, a, j), A) \in Nat /\ SumOver(In(T, a, j), B) \in Nat
               /\ SumOver(In(S, a, j), A) <= SumOver(In(T, a, j), B)
    <2>0. SUFFICES ASSUME NEW X, X = In(S, a, j), NEW Y, Y = In(T, a, j)
                   PROVE  /\ SumOver(X, A) \in Nat /\ SumOver(Y, B) \in Nat
                          /\ SumOver(X, A) <= SumOver(Y, B)
      OBVIOUS
    <2>1. X \subseteq Y /\ Y \subseteq Rows /\ X \subseteq Rows
      BY <1>3, <2>0 DEF In
    <2>2. \A r \in X : A[r] <= B[r]
      BY <2>1
    <2> QED
      BY <2>1, <2>2, RowsSum, RowsGrow
  <1>4. ASSUME NEW a \in Books, p \in {"sum", "pay", "mark"}
        PROVE  Gain(t)[a] + Due(p, t, a) <= SumOver(In(Rows, a, j), B)
    <2>1. Gain(t)[a] + Due(p, t, a) <= SumOver(In(Rows, a, j), A)
      BY <1>4 DEF Earned
    <2>2. Gain(t)[a] \in Int /\ Due(p, t, a) \in Int
      BY <1>1 DEF Due, Transaction
    <2> QED
      BY <1>3, <2>1, <2>2
  <1>5. ASSUME NEW a \in Books, p \notin {"sum", "pay", "mark"}
        PROVE  Gain(t)[a] <= SumOver(In(t.marks \cup (C \cup M), a, j), B)
    <2>1. Gain(t)[a] <= SumOver(In(t.marks \cup C, a, j), A)
      BY <1>5 DEF Earned
    <2>2. /\ t.marks \cup C \subseteq t.marks \cup (C \cup M)
          /\ t.marks \cup (C \cup M) \subseteq Rows
      BY <1>1
    <2>3. SumOver(In(t.marks \cup C, a, j), A) \in Nat
      BY <1>3, <2>2
    <2>4. SumOver(In(t.marks \cup (C \cup M), a, j), B) \in Nat
      BY <1>3, <2>2
    <2>5. SumOver(In(t.marks \cup C, a, j), A) <= SumOver(In(t.marks \cup (C \cup M), a, j), B)
      BY <1>3, <2>2
    <2> QED
      BY <1>1, <2>1, <2>3, <2>4, <2>5
  <1> QED
    BY <1>2, <1>4, <1>5

LEMMA RowsOnlyGrow ==
    ASSUME RunsInv, NEW w \in Workers, Commits(w)
    PROVE  \A r \in Rows : accrued[r] <= accrued'[r]
  <1> SUFFICES ASSUME NEW r \in Rows PROVE accrued[r] <= accrued'[r]
    OBVIOUS
  <1>1. accrued[r] \in Nat /\ accrued'[r] = accrued[r] + Added(w)[r] /\ Added(w)[r] \in Nat
    BY DEF RunsInv, Typed, TypeOK, Commits
  <1> QED
    BY <1>1

\* What w pays in is covered by the rows that are marked by now.
LEMMA CommitPays ==
    ASSUME RunsInv, NEW w \in Workers, Commits(w), Typed', pc[w] = "commit"
    PROVE  PaidOncePerPeriod'
  <1>1. /\ Typed /\ Sound(w) /\ tx[w] \in Transaction /\ accrued \in [Rows -> Nat]
        /\ accrued' \in [Rows -> Nat] /\ capitalised \subseteq Rows
        /\ paid \in [Books \X Periods -> Nat] /\ tx[w].marks \subseteq Rows
    BY DEF RunsInv, Sound, Fits, Typed, TypeOK, Transaction
  <1>2. ASSUME NEW x \in Books \X Periods
        PROVE  paid'[x] <= PaidRows(x[1], MonthRange[x[2]])'
    <2>0. SUFFICES ASSUME NEW X, X = In(capitalised, x[1], x[2]),
                          NEW Y, Y = In(tx[w].marks \cup capitalised, x[1], x[2])
                   PROVE  paid'[x] <= SumOver(Y, accrued')
      <3>1. {r \in capitalised' : r[1] = x[1] /\ r[2] \in MonthRange[x[2]]}
               = In(tx[w].marks \cup capitalised, x[1], x[2])
        BY DEF Commits, In
      <3> QED
        BY <3>1 DEF PaidRows
    <2>1. X \subseteq Y /\ Y \subseteq Rows /\ X \subseteq Rows
      BY <1>1, <2>0 DEF In
    <2>2. \A r \in Y : accrued[r] <= accrued'[r]
      BY <2>1, RowsOnlyGrow
    <2>3. /\ SumOver(X, accrued) \in Nat /\ SumOver(Y, accrued) \in Nat
          /\ SumOver(Y, accrued') \in Nat
      BY <1>1, <2>1, RowsSum
    <2>4. CASE x[2] = job[w]
      <3>1. paid'[x] = 0 + Gain(tx[w])[x[1]] /\ Gain(tx[w])[x[1]] \in Nat
        BY <2>4 DEF Commits
      <3>2. Gain(tx[w])[x[1]] <= SumOver(Y, accrued)
        BY <1>1, <2>0, <2>4 DEF Sound, Fits, Earned
      <3>3. SumOver(Y, accrued) <= SumOver(Y, accrued')
        BY <1>1, <2>1, <2>2, RowsGrow
      <3> QED
        BY <2>3, <3>1, <3>2, <3>3
    <2>5. CASE x[2] # job[w]
      <3>1. paid'[x] = paid[x] + 0 /\ paid[x] \in Nat
        BY <1>1, <2>5 DEF Commits
      <3>2. paid[x] <= SumOver(X, accrued)
        BY <2>0 DEF RunsInv, PaidOncePerPeriod, PaidRows, In
      <3>3. SumOver(X, accrued) <= SumOver(Y, accrued')
        BY <1>1, <2>1, <2>2, RowsGrow
      <3> QED
        BY <2>3, <3>1, <3>2, <3>3
    <2> QED
      BY <2>4, <2>5
  <1>3. \A x \in Deposits \X Periods : fees'[x] <= 1
    BY DEF Commits, RunsInv, PaidOncePerPeriod
  <1> QED
    BY <1>2, <1>3 DEF PaidOncePerPeriod

LEMMA AddedSum ==
    ASSUME NEW S, IsFiniteSet(S), S \subseteq Books, NEW d \in Days, NEW F \in [Books -> Nat],
           NEW h, \A a \in S, e \in Days : h[<<a, e>>] = IF e = d THEN F[a] ELSE 0
    PROVE  SumOver(S \X Days, h) = SumOver(S, F)
  <1>1. IsFiniteSet(Days) /\ WholeOn(S, F)
    BY InterestAssumption, WholePart
  <1>2. /\ \A a \in S : h[<<a, d>>] = F[a]
        /\ \A a \in S, e \in Days \ {d} : h[<<a, e>>] = 0
    OBVIOUS
  <1> QED
    BY <1>1, <1>2, SumColumn

\* What w has told the core of a side is the rows it inserts, less what it pays in.
LEMMA CommitTies ==
    ASSUME RunsInv, NEW w \in Workers, Commits(w), Typed', pc[w] = "commit"
    PROVE  CoreTiesToRows'
  <1>1. /\ Typed /\ Sound(w) /\ tx[w] \in Transaction /\ tx[w].told
        /\ accrued \in [Rows -> Nat] /\ accrued' \in [Rows -> Nat]
        /\ paid \in [Books \X Periods -> Nat] /\ paid' \in [Books \X Periods -> Nat]
    BY DEF RunsInv, Sound, Fits, Staged, Typed, TypeOK
  <1> SUFFICES ASSUME NEW s \in Sides,
                      NEW f, f = [v \in Workers |-> Told(v, s)],
                      NEW g, g = [v \in Workers |-> Told(v, s)']
               PROVE  core'[s] = SumOver(On(s) \X Days, accrued')
                                 - SumOver(On(s) \X Periods, paid')
                                 + stray'[s] + SumOver(Workers, g)
    BY NoStray DEF CoreTiesToRows, Commits
  <1> SUFFICES ASSUME NEW T, T = On(s) \X Days, NEW P, P = On(s) \X Periods,
                      NEW h, h = Added(w), NEW q, q = PaidIn(w), NEW G, G = Gain(tx[w])
               PROVE  core'[s] = SumOver(T, accrued') - SumOver(P, paid')
                                 + stray'[s] + SumOver(Workers, g)
    OBVIOUS
  <1>2. /\ IsFiniteSet(Workers) /\ IsFiniteSet(T) /\ T \subseteq Rows
        /\ IsFiniteSet(On(s)) /\ On(s) \subseteq Books
        /\ IsFiniteSet(P) /\ P \subseteq Books \X Periods
    BY Sizes
  <1>3. SumOver(T, accrued') = SumOver(T, accrued) + SumOver(T, h)
    <2>1. WholeOn(T, accrued) /\ WholeOn(T, h) /\ \A r \in T : accrued'[r] = accrued[r] + h[r]
      BY <1>1, <1>2 DEF Commits, WholeOn
    <2> QED
      BY <1>2, <2>1, SumPlus
  <1>4. SumOver(P, paid') = SumOver(P, paid) + SumOver(P, q)
    <2>1. WholeOn(P, paid) /\ WholeOn(P, q) /\ \A x \in P : paid'[x] = paid[x] + q[x]
      BY <1>1, <1>2 DEF Commits, WholeOn
    <2> QED
      BY <1>2, <2>1, SumPlus
  <1>5. /\ \A v \in Workers \ {w} : f[v] = g[v]
        /\ g[w] = 0 /\ f[w] = ToldBy(job[w], tx[w], s)
        /\ WholeOn(Workers, f) /\ WholeOn(Workers, g)
    <2>1. /\ \A v \in Workers : f[v] = ToldBy(job[v], tx[v], s)
          /\ \A v \in Workers : g[v] = ToldBy(job'[v], tx'[v], s)
      BY DEF Told, ToldBy, Sign
    <2>2. /\ \A v \in Workers : f[v] \in Int
          /\ \A v \in Workers : g[v] \in Int
      BY <1>1, <2>1, ToldType DEF Typed
    <2>3. /\ tx'[w] = NoTx
          /\ \A v \in Workers \ {w} : job'[v] = job[v] /\ tx'[v] = tx[v]
      BY <1>1 DEF Commits, Typed, TypeOK
    <2>4. ToldBy(job'[w], NoTx, s) = 0
      BY IdleFits DEF ToldBy
    <2> QED
      BY <2>1, <2>2, <2>3, <2>4 DEF WholeOn
  <1>6. SumOver(Workers, g) = SumOver(Workers, f) + (g[w] - f[w])
    BY <1>2, <1>5, SumChange
  <1>7. SumOver(T, h) - SumOver(P, q) = f[w]
    <2>1. CASE job[w] \in Days
      <3>1. \A x \in P : q[x] = 0
        <4> SUFFICES ASSUME NEW x \in Books \X Periods PROVE q[x] = 0
          BY <1>2
        <4>1. x[2] \in Periods /\ x[2] # job[w]
          BY <2>1, InterestAssumption
        <4> QED
          BY <4>1 DEF Commits
      <3>2. SumOver(P, q) = 0
        BY <1>2, <3>1, SumZero
      <3>3. tx[w].total[s] = SumOver(On(s), tx[w].rows) /\ tx[w].total[s] \in Int
        BY <1>1, <2>1 DEF Sound, Fits, Earned, Commits, Transaction
      <3>4. SumOver(T, h) = SumOver(On(s), tx[w].rows)
        <4>0. SUFFICES ASSUME NEW d, d = job[w], NEW F, F = tx[w].rows
                       PROVE  SumOver(On(s) \X Days, h) = SumOver(On(s), F)
          OBVIOUS
        <4>1. F \in [Books -> Nat] /\ d \in Days
          BY <1>1, <2>1, <4>0 DEF Transaction
        <4>2. \A a \in On(s), e \in Days : h[<<a, e>>] = IF e = d THEN F[a] ELSE 0
          BY <1>2, <4>0 DEF Added, Rows
        <4> QED
          BY <1>2, <4>1, <4>2, AddedSum
      <3>5. f[w] = tx[w].total[s]
        BY <1>1, <1>5, <2>1, <3>3 DEF ToldBy
      <3> QED
        BY <3>2, <3>3, <3>4, <3>5
    <2>2. CASE job[w] \in Periods
      <3>1. job[w] \notin Days
        BY <2>2, InterestAssumption
      <3>2. \A r \in T : h[r] = 0
        <4> SUFFICES ASSUME NEW r \in Rows PROVE h[r] = 0
          BY <1>2
        <4>1. r[2] \in Days
          BY DEF Rows
        <4> QED
          BY <3>1, <4>1 DEF Added
      <3>3. SumOver(T, h) = 0
        BY <1>2, <3>2, SumZero
      <3>4. tx[w].total[s] = SumOver(On(s), G) /\ tx[w].total[s] \in Int
        BY <1>1, <2>2 DEF Sound, Fits, Earned, Transaction
      <3>5. f[w] = -tx[w].total[s]
        BY <1>1, <1>5, <3>1, <3>4 DEF ToldBy
      <3>6. SumOver(P, q) = SumOver(On(s), G)
        <4>0. SUFFICES ASSUME NEW d, d = job[w]
                       PROVE  SumOver(On(s) \X Periods, q) = SumOver(On(s), G)
          OBVIOUS
        <4>1. G \in [Books -> Int] /\ d \in Periods /\ IsFiniteSet(Periods)
          BY <1>1, <2>2, <4>0, GainType, InterestAssumption
        <4>2. WholeOn(On(s), G)
          BY <1>2, <4>1, WholePart
        <4>3. \A a \in On(s) : q[<<a, d>>] = G[a]
          BY <1>2, <4>0, <4>1 DEF PaidIn
        <4>4. \A a \in On(s), e \in Periods \ {d} : q[<<a, e>>] = 0
          BY <1>2, <4>0 DEF PaidIn
        <4> QED
          <5>1. IsFiniteSet(On(s))
            BY <1>2
          <5> QED
            BY <4>1, <4>2, <4>3, <4>4, <5>1, SumColumn
      <3> QED
        BY <3>3, <3>4, <3>5, <3>6
    <2> QED
      BY <2>1, <2>2 DEF Commits
  <1>8. core[s] = SumOver(T, accrued) - SumOver(P, paid) + stray[s] + SumOver(Workers, f)
    BY DEF RunsInv, CoreTiesToRows
  <1>9. /\ core'[s] = core[s] /\ stray'[s] = stray[s] /\ core[s] \in Int /\ stray[s] \in Int
        /\ SumOver(T, accrued) \in Int /\ SumOver(P, paid) \in Int
        /\ SumOver(T, h) \in Int /\ SumOver(P, q) \in Int
        /\ SumOver(Workers, f) \in Int /\ f[w] \in Int
    <2>1. WholeOn(T, accrued) /\ WholeOn(P, paid) /\ WholeOn(T, h) /\ WholeOn(P, q)
      BY <1>1, <1>2 DEF Commits, WholeOn
    <2>2. core'[s] = core[s] /\ stray'[s] = stray[s] /\ core[s] \in Int /\ stray[s] \in Int
      BY <1>1 DEF Commits, Typed, TypeOK
    <2> QED
      BY <1>2, <1>5, <2>1, <2>2, SumType DEF WholeOn
  <1> QED
    BY <1>3, <1>4, <1>5, <1>6, <1>7, <1>8, <1>9

LEMMA CommitStep ==
    ASSUME RunsInv, NEW w \in Workers, Commits(w), Typed',
           PaidOncePerPeriod', CoreTiesToRows'
    PROVE  RunsInv'
  <1>1. /\ Typed /\ Sound(w) /\ tx[w] \in Transaction
        /\ pc'[w] = "idle" /\ job'[w] = None /\ tx'[w] = NoTx
        /\ \A v \in Workers \ {w} : pc'[v] = pc[v] /\ job'[v] = job[v] /\ tx'[v] = tx[v]
    BY DEF RunsInv, Sound, Fits, Commits, Typed, TypeOK
  <1>2. ASSUME NEW v \in Workers PROVE Sound(v)'
    <2>1. CASE v = w
      BY <1>1, <2>1, IdleFits DEF Sound, Fits
    <2>2. CASE v # w
      <3> SUFFICES ASSUME NEW p, p = pc[v], NEW j, j = job[v], NEW t, t = tx[v],
                          NEW k, k = job[w], NEW M, M = tx[w].marks
                   PROVE  Fits(p, j, t)'
        BY <1>1, <2>2 DEF Sound
      <3>1. /\ t \in Transaction /\ Staged(p, j, t) /\ Paying(p, t)
            /\ Earned(runs, accrued, capitalised, p, j, t)
        BY DEF RunsInv, Sound, Fits
      <3>2. accrued \in [Rows -> Nat] /\ accrued' \in [Rows -> Nat]
        BY <1>1 DEF Typed, TypeOK
      <3>3. \A r \in Rows : accrued[r] <= accrued'[r]
        BY RowsOnlyGrow
      <3>4. capitalised \cup M \subseteq Rows
        BY <1>1 DEF Typed, TypeOK, Transaction
      <3>5. Earned(runs \cup {k}, accrued', capitalised \cup M, p, j, t)
        BY <3>1, <3>2, <3>3, <3>4, EarnedKept
      <3>6. runs' = runs \cup {k} /\ capitalised' = capitalised \cup M
        BY DEF Commits
      <3> QED
        BY <3>1, <3>5, <3>6 DEF Fits
    <2> QED
      BY <2>1, <2>2
  <1>3. KeysAlone'
    <2> SUFFICES ASSUME NEW v \in Workers, tx'[v].keyed
                 PROVE  /\ job'[v] \notin runs'
                        /\ \A u \in Workers \ {v} : job'[u] = job'[v] => ~tx'[u].keyed
      BY DEF KeysAlone, Ours
    <2>1. v # w
      BY <1>1, IdleFits
    <2>2. /\ tx[v].keyed /\ job[v] \notin runs
          /\ \A u \in Workers \ {v} : job[u] = job[v] => ~tx[u].keyed
      BY <1>1, <2>1 DEF RunsInv, KeysAlone, Ours
    <2>3. job[v] # job[w]
      BY <2>1, <2>2 DEF Commits
    <2>4. job'[v] \notin runs'
      BY <1>1, <2>1, <2>2, <2>3 DEF Commits
    <2>5. ~tx'[w].keyed
      BY <1>1, IdleFits
    <2> QED
      BY <1>1, <2>1, <2>2, <2>4, <2>5
  <1>4. RowsAlone'
    <2> SUFFICES ASSUME NEW v \in Workers, NEW a \in Books, tx'[v].rows[a] > 0
                 PROVE  /\ accrued'[<<a, job'[v]>>] = 0
                        /\ \A u \in Workers \ {v} : job'[u] = job'[v] => tx'[u].rows[a] = 0
      BY DEF RowsAlone, Ours
    <2>1. v # w /\ tx'[w].rows[a] = 0
      BY <1>1, IdleFits
    <2>2. /\ tx[v].rows[a] > 0 /\ accrued[<<a, job[v]>>] = 0
          /\ \A u \in Workers \ {v} : job[u] = job[v] => tx[u].rows[a] = 0
      BY <1>1, <2>1 DEF RunsInv, RowsAlone, Ours
    <2>3. <<a, job[v]>> \in Rows
      <3>1. tx[v].rows[a] # 0
        BY <2>2
      <3> QED
        BY <3>1 DEF RunsInv, Sound, Fits, Staged, Rows
    <2>4. Added(w)[<<a, job[v]>>] = 0
      <3>1. Added(w)[<<a, job[v]>>] = IF job[v] = job[w] THEN tx[w].rows[a] ELSE 0
        BY <2>3 DEF Added
      <3> QED
        BY <2>1, <2>2, <3>1
    <2>5. accrued'[<<a, job[v]>>] = accrued[<<a, job[v]>>] + Added(w)[<<a, job[v]>>]
      BY <2>3 DEF Commits
    <2> QED
      BY <1>1, <2>1, <2>2, <2>4, <2>5
  <1>5. Booked'
    <2>1. accrued \in [Rows -> Nat] /\ capitalised \subseteq Rows /\ runs' = runs \cup {job[w]}
      BY <1>1 DEF Typed, TypeOK, Commits
    <2>2. ASSUME NEW r \in Rows, accrued'[r] > 0 PROVE r[2] \in runs'
      <3>1. CASE r[2] = job[w]
        BY <2>1, <3>1
      <3>2. CASE r[2] # job[w]
        <4>1. Added(w)[r] = 0 /\ accrued'[r] = accrued[r] + Added(w)[r] /\ accrued[r] \in Nat
          BY <2>1, <3>2 DEF Added, Commits
        <4>2. accrued[r] > 0
          BY <2>2, <4>1
        <4> QED
          BY <2>1, <4>2 DEF RunsInv, Booked
      <3> QED
        BY <3>1, <3>2
    <2>3. \A x \in Deposits \X Periods : fees'[x] > 0 => x[2] \in runs'
      BY <2>1 DEF RunsInv, Booked, Commits
    <2>5. ASSUME NEW x \in Books \X Periods, paid'[x] > 0 PROVE x[2] \in runs'
      <3>1. CASE x[2] = job[w]
        BY <2>1, <3>1
      <3>2. CASE x[2] # job[w]
        <4>1. paid'[x] = paid[x] + 0 /\ paid[x] \in Nat
          BY <1>1, <3>2 DEF Commits, Typed, TypeOK
        <4>2. paid[x] > 0
          BY <2>5, <4>1
        <4> QED
          BY <2>1, <4>2 DEF RunsInv, Booked
      <3> QED
        BY <3>1, <3>2
    <2>4. ASSUME NEW r \in capitalised' PROVE accrued'[r] > 0
      <3>1. r \in Rows /\ accrued[r] > 0
        BY <2>1 DEF RunsInv, Booked, Commits
      <3>2. accrued'[r] = accrued[r] + Added(w)[r] /\ Added(w)[r] = 0 /\ accrued[r] \in Nat
        BY <2>1, <3>1 DEF Commits
      <3> QED
        BY <3>1, <3>2
    <2> QED
      BY <2>2, <2>3, <2>4, <2>5 DEF Booked
  <1> QED
    BY <1>2, <1>3, <1>4, <1>5 DEF RunsInv

-----------------------------------------------------------------------------
(* The invariant holds. *)

\* Nothing but balances, locks and what the bounds count has changed.
LEMMA AsideStep ==
    ASSUME RunsInv, TypeOK',
           UNCHANGED << accrued, capitalised, runs, paid, fees, core, worker, stray, failures >>
    PROVE  RunsInv'
  <1>1. Typed'
    BY DEF RunsInv, Typed, worker
  <1>2. ASSUME NEW v \in Workers PROVE Sound(v)'
    BY DEF RunsInv, Sound, Fits, worker
  <1>3. KeysAlone' /\ RowsAlone' /\ Booked'
    BY DEF RunsInv, KeysAlone, RowsAlone, Booked, Ours, worker
  <1>4. PaidOncePerPeriod'
    BY DEF RunsInv, PaidOncePerPeriod, PaidRows
  <1>5. CoreTiesToRows'
    BY DEF RunsInv, CoreTiesToRows, Told, Sign, worker
  <1> QED
    BY <1>1, <1>2, <1>3, <1>4, <1>5 DEF RunsInv

LEMMA RunsInvInit == ASSUME Init PROVE RunsInv
  <1>1. /\ AccruedBefore \in [Rows -> Nat] /\ Opening \in [Books -> Int]
        /\ {MaxBalance, MaxMoves, MaxFailures} \subseteq Nat
    BY InterestAssumption DEF Rows, Books
  <1>2. \A s \in Sides : SumOver(On(s) \X Days, AccruedBefore) \in Int
    <2> SUFFICES ASSUME NEW s \in Sides, NEW T, T = On(s) \X Days
                 PROVE  SumOver(T, AccruedBefore) \in Int
      OBVIOUS
    <2>1. IsFiniteSet(T) /\ T \subseteq Rows
      BY Sizes
    <2> QED
      BY <1>1, <2>1, SumType, WholePart
  <1>3. Typed
    <2>1. core \in [Sides -> Int] /\ stray \in [Sides -> Int]
      BY <1>2 DEF Init
    <2>2. runs \subseteq Days \cup Periods
      BY DEF Init
    <2>3. /\ bal \in [Books -> Int] /\ accrued \in [Rows -> Nat] /\ capitalised \subseteq Rows
          /\ lock \in [Books -> Workers \cup {None}]
          /\ job \in [Workers -> Days \cup Periods \cup {None}]
          /\ paid \in [Books \X Periods -> Nat] /\ fees \in [Deposits \X Periods -> Nat]
      BY <1>1 DEF Init
    <2>4. pc \in [Workers -> Stages] /\ tx \in [Workers -> Transaction] /\ failures \in Nat
      BY IdleFits DEF Init, Stages
    <2> QED
      BY <2>1, <2>2, <2>3, <2>4 DEF Typed, TypeOK
  <1>4. \A w \in Workers : Sound(w)
    BY IdleFits DEF Init, Sound, Fits
  <1>5. KeysAlone /\ RowsAlone
    BY IdleFits DEF Init, KeysAlone, RowsAlone
  <1>6. Booked
    <2>1. ASSUME NEW r \in Rows, AccruedBefore[r] > 0 PROVE r[2] \in runs
      <3>1. r = <<r[1], r[2]>> /\ r[1] \in Books /\ r[2] \in Days
        BY DEF Rows
      <3>2. AccruedBefore[<<r[1], r[2]>>] > 0
        BY <2>1, <3>1
      <3> QED
        BY <3>1, <3>2 DEF Init
    <2>2. accrued = AccruedBefore /\ capitalised = {}
      BY DEF Init
    <2>3. /\ \A x \in Deposits \X Periods : ~(fees[x] > 0)
          /\ \A x \in Books \X Periods : ~(paid[x] > 0)
      BY DEF Init
    <2> QED
      BY <2>1, <2>2, <2>3 DEF Booked
  <1>7. PaidOncePerPeriod
    <2>1. ASSUME NEW x \in Books \X Periods PROVE paid[x] <= PaidRows(x[1], MonthRange[x[2]])
      <3>1. /\ {r \in capitalised : r[1] = x[1] /\ r[2] \in MonthRange[x[2]]} = {}
            /\ paid[x] = 0
        BY DEF Init
      <3> QED
        BY <3>1, SumEmpty DEF PaidRows
    <2> QED
      BY <2>1 DEF Init, PaidOncePerPeriod
  <1>8. CoreTiesToRows
    <2> SUFFICES ASSUME NEW s \in Sides, NEW f, f = [w \in Workers |-> Told(w, s)]
                 PROVE  core[s] = SumOver(On(s) \X Days, accrued) - SumOver(On(s) \X Periods, paid)
                                  + stray[s] + SumOver(Workers, f)
      BY DEF Init, CoreTiesToRows
    <2>1. SumOver(Workers, f) = 0
      <3>1. \A w \in Workers : f[w] = 0
        BY IdleFits DEF Init, Told
      <3> QED
        BY <3>1, SumZero, Sizes
    <2>2. SumOver(On(s) \X Periods, paid) = 0
      <3>1. \A x \in On(s) \X Periods : paid[x] = 0
        <4> SUFFICES ASSUME NEW x \in Books \X Periods PROVE paid[x] = 0
          BY Sizes
        <4> QED
          BY DEF Init
      <3> QED
        BY <3>1, SumZero, Sizes
    <2>3. core[s] = SumOver(On(s) \X Days, accrued) /\ core[s] \in Int /\ stray[s] = 0
      BY <1>2 DEF Init
    <2> QED
      BY <2>1, <2>2, <2>3
  <1> QED
    BY <1>3, <1>4, <1>5, <1>6, <1>7, <1>8 DEF RunsInv

LEMMA RunsInvNext == ASSUME RunsInv, [Next]_vars PROVE RunsInv'
  <1>1. TypeOK
    BY DEF RunsInv, Typed
  <1>2. ASSUME NEW w \in Workers, NEW j \in Days \cup Periods, Call(w, j) PROVE RunsInv'
    BY <1>2, CallStep
  <1>3. ASSUME NEW w \in Workers, Accruing(w) PROVE RunsInv'
    BY <1>3, ReadBalancesStep, InsertRowsStep DEF Accruing
  <1>4. ASSUME NEW w \in Workers, Capitalising(w) PROVE RunsInv'
    BY <1>4, SumDueStep, PayStep, MarkStep, ReadFeesStep, ChargeStep, VictimStep DEF Capitalising
  <1>5. ASSUME NEW w \in Workers, InsertRun(w) \/ Post(w) \/ Fail(w) PROVE RunsInv'
    BY <1>5, InsertRunStep, PostStep, FailStep
  <1>6. ASSUME NEW w \in Workers, Commit(w) PROVE RunsInv'
    <2>1. Commits(w) /\ Typed' /\ pc[w] = "commit"
      BY <1>6, CommitShape DEF Commit, At
    <2> QED
      BY <2>1, CommitPays, CommitTies, CommitStep
  <1>7. ASSUME NEW a \in Books, NEW n \in {1, -1}, Move(a, n) PROVE RunsInv'
    <2>1. bal' \in [Books -> Int]
      BY <1>1, <1>7 DEF Move, TypeOK
    <2>2. TypeOK'
      BY <1>1, <1>7, <2>1 DEF Move, TypeOK, worker
    <2> QED
      BY <1>7, <2>2, AsideStep DEF Move
  <1>8. CASE UNCHANGED vars
    <2>1. TypeOK'
      BY <1>1, <1>8 DEF TypeOK, vars, db, worker
    <2> QED
      BY <1>8, <2>1, AsideStep DEF vars, db
  <1> QED
    BY <1>2, <1>3, <1>4, <1>5, <1>6, <1>7, <1>8 DEF Next, Running

LEMMA RunsInvHolds == Spec => []RunsInv
  <1>1. Init => RunsInv
    BY RunsInvInit
  <1>2. RunsInv /\ [Next]_vars => RunsInv'
    BY RunsInvNext
  <1> QED
    BY <1>1, <1>2, PTL DEF Spec

-----------------------------------------------------------------------------
(* Theorems. *)

\* Every variable keeps its type: in particular interest paid in, fees apart, never
\* falls below zero, since each fee is taken from an account once.
THEOREM TypeCorrect == Spec => []TypeOK
  <1>1. RunsInv => TypeOK
    BY DEF RunsInv, Typed
  <1> QED
    BY <1>1, RunsInvHolds, PTL

\* However many batches of a period run at once, fail and are run again, no interest is
\* paid under it that no row of its month stands for, and the fee is taken once: the run
\* table's key decides, and whoever loses it rolls back what it paid (finance.rs:
\* capitalise).  The key is the period as it is written: it says nothing of a month
\* that is capitalised under two spellings (PaidOncePerMonth).
THEOREM InterestIsPaidOncePerPeriod == Spec => []PaidOncePerPeriod
  <1>1. RunsInv => PaidOncePerPeriod
    BY DEF RunsInv
  <1> QED
    BY <1>1, RunsInvHolds, PTL

\* The core's interest accounts are the rows accrued and not yet paid, but for what
\* batches that failed after they told it have left there (finance.rs: post_balanced
\* before the commit).
THEOREM CoreIsTheRows == Spec => []CoreTiesToRows
  <1>1. RunsInv => CoreTiesToRows
    BY DEF RunsInv
  <1> QED
    BY <1>1, RunsInvHolds, PTL
=============================================================================
