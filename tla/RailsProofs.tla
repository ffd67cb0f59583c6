---------------------------- MODULE RailsProofs ----------------------------
(***************************************************************************)
(* The external rails, for any calls, accounts, amounts and requests.      *)
(*                                                                         *)
(* Each part runs the scripts of one rail alone, in the logic of           *)
(* SubledgerProofs, with the rows in view that the property is about; a    *)
(* property then has to be kept by what the scripts may end with.          *)
(***************************************************************************)
EXTENDS Interac, CardRails, Loans, Lynx, SubledgerProofs, SumFacts
-----------------------------------------------------------------------------
(* Interac: the money of a transfer is in one place, Escrow. *)

\* Statements about accounts, none of which is in view.
LEMMA WatchLeads ==
    ASSUME NEW X \in SUBSET Docs, NEW k, NEW p, NEW g, NEW a \in Accounts, NEW n,
           NEW op \in {"lock", "funds", "floor", "recompute", "read"}
    PROVE  Leads(X, << Do(op, a, n) >>, Stood(X, k, p, g), Stood(X, k, p, g))
  <1>1. a \notin X
    BY NamesAssumption
  <1>2. Idle(X, Do(op, a, n))
    BY <1>1 DEF Idle, Do, Stmt, AccountOps, AccountWrites
  <1> QED
    BY <1>2, IdleLeads

\* The checks ahead of a debit.
LEMMA FundedLeads ==
    ASSUME NEW X \in SUBSET Docs, NEW k, NEW p, NEW g, NEW a \in Accounts, NEW n
    PROVE  Leads(X, Funded(a, n), Stood(X, k, p, g), Stood(X, k, p, g))
  <1> DEFINE G == Stood(X, k, p, g)
  <1>1. /\ Leads(X, << Do("lock", a, 0) >>, G, G)
        /\ Leads(X, << Do("funds", a, n) >>, G, G)
        /\ Leads(X, << Do("floor", a, 0) >>, G, G)
    BY WatchLeads
  <1> HIDE DEF G
  <1>2. Leads(X, << Do("funds", a, n) >> \o << Do("floor", a, 0) >>, G, G)
    BY <1>1, LeadsOn
  <1>3. Leads(X, << Do("lock", a, 0) >> \o (<< Do("funds", a, n) >> \o << Do("floor", a, 0) >>), G, G)
    BY <1>1, <1>2, LeadsOn
  <1> QED
    BY <1>3, ThreeOnes DEF Funded, G

\* The available balance after it.
LEMMA RefreshedLeads ==
    ASSUME NEW X \in SUBSET Docs, NEW k, NEW p, NEW g, NEW a \in Accounts
    PROVE  Leads(X, Refreshed(a), Stood(X, k, p, g), Stood(X, k, p, g))
  BY WatchLeads DEF Refreshed

\* The commit.
LEMMA CompletedLeads ==
    ASSUME NEW X \in SUBSET Docs, NEW G \in SUBSET Standing(X)
    PROVE  Leads(X, Completed, G, G)
  <1> DEFINE s == Do("commit", NoOne, 0)
  <1>1. s.op = "commit"
    BY DEF Do, Stmt
  <1> HIDE DEF s
  <1>2. \A l \in G, m \in Standing(X) : Does(X, s, l, m) => m \in G
    BY <1>1 DEF Does, AccountWrites, DocWrites
  <1>3. Leads(X, << s >>, G, G)
    BY <1>1, <1>2, LeadsByOne
  <1> QED
    BY <1>3 DEF Completed, s

\* The two entries of a movement.
LEMMA TwoLegsLeads ==
    ASSUME NEW X \in SUBSET Docs, NEW k, NEW p \in [Accounts -> Int], NEW g,
           NEW debit \in Accounts, NEW credit \in Accounts, NEW n \in Int
    PROVE  Leads(X, TwoLegs(debit, credit, n), Stood(X, k, p, g),
                 Stood(X, k, Shifted(p, debit, credit, n), g))
  <1> DEFINE q == [p EXCEPT ![debit] = @ + (-n)]  z == [q EXCEPT ![credit] = @ + n]
             G == Stood(X, k, p, g)  H == Stood(X, k, q, g)  I == Stood(X, k, z, g)
  <1>1. z = Shifted(p, debit, credit, n)
    <2>1. \A a \in Accounts : z[a] = p[a] + (IF a = credit THEN n ELSE 0)
                                        - (IF a = debit THEN n ELSE 0)
      OBVIOUS
    <2>2. z \in [Accounts -> Int]
      OBVIOUS
    <2> HIDE DEF z
    <2> QED
      BY <2>1, <2>2 DEF Shifted
  <1>2. Leads(X, << Do("read", debit, 0) >>, G, G)
    BY ReadLeads
  <1>3. Leads(X, << Do("write", debit, -n) >>, G, H)
    <2>1. -n \in Int
      OBVIOUS
    <2> QED
      BY <2>1, WriteLeads
  <1>4. Leads(X, << Do("read", credit, 0) >>, H, H)
    BY ReadLeads
  <1>5. Leads(X, << Do("write", credit, n) >>, H, I)
    BY WriteLeads
  <1> DEFINE a == << Do("read", debit, 0) >>  b == << Do("write", debit, -n) >>
             c == << Do("read", credit, 0) >>  d == << Do("write", credit, n) >>
  <1>6. TwoLegs(debit, credit, n) = a \o (b \o (c \o d))
    BY DEF TwoLegs
  <1> HIDE DEF a, b, c, d, G, H, I
  <1>7. Leads(X, c \o d, H, I)
    BY <1>4, <1>5, LeadsOn DEF c, d
  <1>8. Leads(X, b \o (c \o d), G, I)
    BY <1>3, <1>7, LeadsOn DEF b
  <1>9. Leads(X, a \o (b \o (c \o d)), G, I)
    BY <1>2, <1>8, LeadsOn DEF a
  <1> QED
    BY <1>1, <1>6, <1>9 DEF G, I

\* The legs and the document of hold, release, refund and accept_inbound.
LEMMA MovesLeads ==
    ASSUME NEW X \in SUBSET Docs, NEW k, NEW p \in [Accounts -> Int], NEW g \in Int,
           NEW debit \in Accounts, NEW credit \in Accounts, NEW n \in Int, NEW i \in Int
    PROVE  Leads(X, TwoLegs(debit, credit, n) \o Core(i), Stood(X, k, p, g),
                 Stood(X, k, Shifted(p, debit, credit, n), g + i))
  <1> DEFINE q == Shifted(p, debit, credit, n)
  <1>1. Leads(X, TwoLegs(debit, credit, n), Stood(X, k, p, g), Stood(X, k, q, g))
    BY TwoLegsLeads
  <1>2. Leads(X, Core(i), Stood(X, k, q, g), Stood(X, k, q, g + i))
    BY TellLeads DEF Core
  <1> QED
    BY <1>1, <1>2, LeadsOn

\* A statement about a status row that is not in view, or that changes none.
LEMMA BesideLeads ==
    ASSUME NEW X \in SUBSET Docs, NEW k, NEW p, NEW g, NEW op \in DocOps, NEW x, NEW v, NEW w,
           x \notin X \/ op \in {"find", "expect"}
    PROVE  Leads(X, << OnDoc(op, x, v, w) >>, Stood(X, k, p, g), Stood(X, k, p, g))
  <1>1. Idle(X, OnDoc(op, x, v, w))
    BY DEF Idle, OnDoc, Stmt
  <1> QED
    BY <1>1, IdleLeads

-----------------------------------------------------------------------------
Clr == InteracRail.clearing
Stl == InteracRail.settlement
Moving(from, to, n) == Shifted(NoEntries, from, to, n)
\* With the fee or, when it is deferred, without.
Charged(e, p) == {p, Shifted(p, From[e], Cash, EtransferFee)}

\* The types of what the scripts name.
LEMMA Settled ==
    /\ Transfers \in SUBSET Docs /\ Transfers \subseteq Rows
    /\ Clr \in Accounts /\ Stl \in Accounts /\ Cash \in Accounts
    /\ Clr \in SystemAccounts /\ Stl \in SystemAccounts /\ Clr # Stl
    /\ EtransferFee \in Int /\ NoEntries \in [Accounts -> Int]
    /\ \A e \in Transfers : /\ From[e] \in Accounts /\ Amt[e] \in Int
                             /\ HandleOf[e] \in Handles /\ HandleOf[e] \notin Transfers
                             /\ DepositOf[HandleOf[e]] \in Accounts \ {Clr}
                             /\ Question[e] \notin Transfers /\ Strikes[e] \notin Transfers
    /\ Absent \in STRING
  <1>1. Clr \in Accounts /\ Stl \in Accounts
    BY InteracAssumption DEF Rail, Clr, Stl
  <1>2. NoEntries \in [Accounts -> Int]
    BY DEF NoEntries
  <1> QED
    BY <1>1, <1>2, InteracAssumption, EtransferRows, RowsAssumption DEF Clr, Stl, Rows

\* The fee, taken or waived.
LEMMA ChargeFeeLeads ==
    ASSUME NEW k, NEW p \in [Accounts -> Int], NEW e \in Transfers
    PROVE  Leads(Transfers, ChargeFee(From[e]), Stood(Transfers, k, p, 0),
                 UNION {Stood(Transfers, k, q, 0) : q \in Charged(e, p)})
  <1> DEFINE a == From[e]  G == Stood(Transfers, k, p, 0)
             z == Shifted(p, a, Cash, EtransferFee)
             I == Stood(Transfers, k, z, 0)
             H == UNION {Stood(Transfers, k, q, 0) : q \in Charged(e, p)}
  <1>0. /\ Transfers \in SUBSET Docs /\ a \in Accounts /\ Cash \in Accounts
        /\ EtransferFee \in Int
    BY Settled
  <1>1. G \subseteq H /\ I \subseteq H
    BY DEF Charged
  <1>2. G \in SUBSET Standing(Transfers)
    BY StoodType
  <1> DEFINE f == << Do("floor", a, 0) >>  t == TwoLegs(a, Cash, EtransferFee)
             body == f \o t \o Refreshed(a) \o Core(0)
  <1>3. Leads(Transfers, body, G, I)
    <2>1. Leads(Transfers, f, G, G)
      BY <1>0, WatchLeads
    <2>2. Leads(Transfers, t, G, I)
      BY <1>0, TwoLegsLeads
    <2>3. Leads(Transfers, Refreshed(a), I, I)
      BY <1>0, RefreshedLeads
    <2>4. Leads(Transfers, Core(0), I, I)
      <3>1. Leads(Transfers, Core(0), Stood(Transfers, k, z, 0), Stood(Transfers, k, z, 0 + 0))
        <4>1. 0 \in Int
          OBVIOUS
        <4> QED
          BY <1>0, <4>1, TellLeads DEF Core
      <3> QED
        BY <3>1
    <2> HIDE DEF f, t, G, I
    <2> QED
      BY <2>1, <2>2, <2>3, <2>4, LeadsOn
  <1> HIDE DEF f, t, G, I, H, body
  <1>4. Leads(Transfers, body, G, H)
    BY <1>1, <1>3, LeadsAlso
  <1>5. Leads(Transfers, If(a, "bears", EtransferFee, body), G, H)
    BY <1>1, <1>2, <1>4, Branch
  <1>6. Leads(Transfers, << >>, G, H)
    BY <1>1, <1>2, LeadsNowhere
  <1> QED
    BY <1>5, <1>6 DEF ChargeFee, G, H, body, f, t

\* The money of a transfer leaves clearing for an account.
LEMMA DepositIntoLeads ==
    ASSUME NEW k \in Docket(Transfers), NEW p \in [Accounts -> Int],
           NEW e \in k.own, NEW a \in Accounts
    PROVE  Leads(Transfers, DepositInto(e, a), Stood(Transfers, k, p, 0),
                 Stood(Transfers, Marked(k, e, Blank, "deposited"), Shifted(p, Clr, a, Amt[e]), 0))
  <1> DEFINE G == Stood(Transfers, k, p, 0)  z == Shifted(p, Clr, a, Amt[e])
             H == Stood(Transfers, k, z, 0)
             I == Stood(Transfers, Marked(k, e, Blank, "deposited"), z, 0)
  <1>0. e \in Transfers /\ Transfers \in SUBSET Docs
    BY Settled DEF Docket
  <1>1. Amt[e] \in Int /\ Clr \in Accounts /\ 0 \in Int /\ 0 + 0 = 0
    BY <1>0, Settled
  <1>2. Leads(Transfers, ReleaseTo(InteracRail, a, Amt[e], 0), G, H)
    <2>1. Leads(Transfers, TwoLegs(Clr, a, Amt[e]) \o Core(0), Stood(Transfers, k, p, 0),
                Stood(Transfers, k, z, 0 + 0))
      BY <1>0, <1>1, MovesLeads
    <2> QED
      BY <1>1, <2>1 DEF ReleaseTo, Clr
  <1>3. Leads(Transfers, Refreshed(a), H, H)
    BY <1>0, RefreshedLeads
  <1>4. Leads(Transfers, << OnDoc("set", e, Blank, "deposited") >>, H, I)
    BY <1>0, SetLeads
  <1> HIDE DEF G, H, I
  <1> QED
    BY <1>2, <1>3, <1>4, LeadsOn DEF DepositInto, G, I

\* It goes back to the sender.
LEMMA GiveBackLeads ==
    ASSUME NEW k \in Docket(Transfers), NEW p \in [Accounts -> Int],
           NEW e \in k.own, NEW status
    PROVE  Leads(Transfers, GiveBack(e, status), Stood(Transfers, k, p, 0),
                 Stood(Transfers, Marked(k, e, Blank, status), Shifted(p, Clr, From[e], Amt[e]), 0))
  <1> DEFINE G == Stood(Transfers, k, p, 0)  a == From[e]  z == Shifted(p, Clr, a, Amt[e])
             H == Stood(Transfers, k, z, 0)
             I == Stood(Transfers, Marked(k, e, Blank, status), z, 0)
             refresh == IF From[e] \in SystemAccounts THEN << >> ELSE Refreshed(From[e])
  <1>0. e \in Transfers /\ Transfers \in SUBSET Docs
    BY Settled DEF Docket
  <1>1. Amt[e] \in Int /\ Clr \in Accounts /\ a \in Accounts /\ 0 \in Int /\ 0 + 0 = 0
    BY <1>0, Settled
  <1>2. Leads(Transfers, RefundTo(InteracRail, a, Amt[e], 0), G, H)
    <2>1. Leads(Transfers, TwoLegs(Clr, a, Amt[e]) \o Core(0), Stood(Transfers, k, p, 0),
                Stood(Transfers, k, z, 0 + 0))
      BY <1>0, <1>1, MovesLeads
    <2> QED
      BY <1>1, <2>1 DEF RefundTo, Clr
  <1>3. Leads(Transfers, Refreshed(a), H, H)
    BY <1>0, <1>1, RefreshedLeads
  <1>4. Leads(Transfers, << >>, H, H)
    BY StoodType, LeadsNowhere
  <1>5. Leads(Transfers, << OnDoc("set", e, Blank, status) >>, H, I)
    BY <1>0, SetLeads
  <1> HIDE DEF G, H, I
  <1>6. Leads(Transfers, refresh, H, H)
    BY <1>3, <1>4
  <1> HIDE DEF refresh
  <1> QED
    BY <1>2, <1>5, <1>6, LeadsOn DEF GiveBack, G, I, refresh

\* How a finished call may have changed one e-Transfer, and the books with it.
Step(e, v, w, p) ==
    \/ v = w /\ p = NoEntries
    \/ v = Absent /\ w = "available" /\ p \in Charged(e, Moving(From[e], Clr, Amt[e]))
    \/ /\ v = Absent /\ w = "deposited"
       /\ \E a \in Accounts \ {Clr} : p \in Charged(e, Moving(From[e], a, Amt[e]))
    \/ /\ v = "available" /\ w = "deposited"
       /\ \E a \in Accounts \ {Clr} : p = Moving(Clr, a, Amt[e])
    \/ /\ v = "available" /\ w \in {"declined", "cancelled", "expired"}
       /\ p = Moving(Clr, From[e], Amt[e])
    \/ v = "available" /\ w = "failed" /\ p = NoEntries

Carried ==
    {l \in Standing(Transfers) :
        \/ l.own = {} /\ l.posts = NoEntries
        \/ \E e \in Transfers : l.own = {e} /\ Step(e, l.was[e], l.now[e], l.posts)}

Found(e, v, w) == Marked(Clean(Transfers), e, v, w)
Became(e, v, w, u) == Marked(Found(e, v, w), e, Blank, u)
With(k, p) == Stood(Transfers, k, p, 0)

\* The dockets of a call about one transfer.
LEMMA FoundBecame ==
    ASSUME NEW e \in Transfers, NEW v \in STRING, NEW w \in STRING, NEW u \in STRING
    PROVE  /\ Found(e, v, w) \in Docket(Transfers) /\ Became(e, v, w, u) \in Docket(Transfers)
           /\ Found(e, v, w).own = {e} /\ Became(e, v, w, u).own = {e}
           /\ Found(e, v, w).was[e] = v /\ Became(e, v, w, u).was[e] = v
           /\ Found(e, v, w).now[e] = w /\ Became(e, v, w, u).now[e] = u
  <1> DEFINE k == Found(e, v, w)  f == Became(e, v, w, u)
  <1>0. Clean(Transfers) \in Docket(Transfers) /\ Clean(Transfers).own = {}
    BY CleanType DEF Clean
  <1>1. k \in Docket(Transfers)
    BY <1>0, MarkedType DEF Found
  <1>2. k.own = {e} /\ k.was[e] = v /\ k.now[e] = w
    <2>1. /\ k.own = {} \cup {e} /\ k.was = [Clean(Transfers).was EXCEPT ![e] = v]
          /\ k.now = [Clean(Transfers).now EXCEPT ![e] = w]
      BY <1>0 DEF Found, Marked
    <2>2. Clean(Transfers).was \in [Transfers -> STRING] /\ Clean(Transfers).now \in [Transfers -> STRING]
      BY <1>0 DEF Docket
    <2> QED
      BY <2>1, <2>2
  <1> HIDE DEF k
  <1>3. f = Marked(k, e, Blank, u) /\ e \in k.own
    BY <1>2 DEF Became, k
  <1>4. f.own = {e} \cup {e} /\ f.was = k.was /\ f.now = [k.now EXCEPT ![e] = u]
    BY <1>2, <1>3 DEF Marked
  <1>5. k.own \in SUBSET Transfers /\ k.was \in [Transfers -> STRING] /\ k.now \in [Transfers -> STRING]
    BY <1>1 DEF Docket
  <1>6. f = [own |-> {e}, was |-> k.was, now |-> [k.now EXCEPT ![e] = u]]
    BY <1>2, <1>3 DEF Marked
  <1>7. [k.now EXCEPT ![e] = u] \in [Transfers -> STRING]
    BY <1>5
  <1>8. f \in Docket(Transfers)
    BY <1>5, <1>6, <1>7 DEF Docket
  <1>9. f.was[e] = v /\ f.now[e] = u
    BY <1>2, <1>4, <1>5
  <1> QED
    BY <1>1, <1>2, <1>4, <1>8, <1>9 DEF k

\* A standing that carries the transfer from one place to another.
LEMMA StandsCarried ==
    ASSUME NEW e \in Transfers, NEW k, k.own = {e}, NEW p, Step(e, k.was[e], k.now[e], p), NEW g
    PROVE  Stood(Transfers, k, p, g) \subseteq Carried
  BY DEF Stood, Carried

\* Two movements, one after the other, are one.
LEMMA Through ==
    ASSUME NEW p \in [Accounts -> Int], NEW x, NEW y, NEW z, NEW n \in Int
    PROVE  Shifted(Shifted(p, x, y, n), y, z, n) = Shifted(p, x, z, n)
  <1>1. \A a \in Accounts : Shifted(p, x, y, n)[a] \in Int
    BY ShiftedType
  <1>2. \A a \in Accounts :
          Shifted(p, x, y, n)[a] + (IF a = z THEN n ELSE 0) - (IF a = y THEN n ELSE 0)
            = p[a] + (IF a = z THEN n ELSE 0) - (IF a = x THEN n ELSE 0)
    BY DEF Shifted
  <1> QED
    BY <1>2 DEF Shifted

\* The statuses are strings, and none of them is Absent.
LEMMA Statuses ==
    /\ Absent \in STRING /\ "held" \in STRING /\ "available" \in STRING /\ "deposited" \in STRING
    /\ "declined" \in STRING /\ "cancelled" \in STRING /\ "expired" \in STRING /\ "failed" \in STRING
    /\ Absent \notin {"available", "deposited", "declined", "cancelled", "expired", "failed"}
  BY EtransferRows, RowsAssumption DEF EtransferStatuses

\* dispatch, whatever it asks of the engine and wherever it routes to.
LEMMA DispatchLeads ==
    ASSUME NEW e \in Transfers, NEW ask, NEW route, NEW k1, k1 = Found(e, Absent, "held"),
           NEW p1, p1 = Moving(From[e], Clr, Amt[e]),
           NEW k2, NEW p2 \in [Accounts -> Int],
           Leads(Transfers, ask, With(k1, p1), With(k1, p1)),
           Leads(Transfers, route, With(k1, p1), With(k2, p2))
    PROVE  Leads(Transfers, Dispatch(e, ask, route), With(Clean(Transfers), NoEntries),
                 UNION {With(k2, q) : q \in Charged(e, p2)})
  <1> DEFINE a == From[e]  k == Clean(Transfers)
             F == With(k, NoEntries)  G == With(k, p1)  I == With(k1, p1)  J == With(k2, p2)
             H == UNION {With(k2, q) : q \in Charged(e, p2)}
  <1>0. /\ Transfers \in SUBSET Docs /\ a \in Accounts /\ Clr \in Accounts /\ Amt[e] \in Int
        /\ NoEntries \in [Accounts -> Int] /\ 0 \in Int /\ 0 + 0 = 0 /\ k \in Docket(Transfers)
    BY Settled, CleanType
  <1>1. Leads(Transfers, Funded(a, Amt[e]), F, F)
    BY <1>0, FundedLeads DEF With
  <1>2. Leads(Transfers, HoldFor(InteracRail, a, Amt[e], 0), F, G)
    <2>1. Leads(Transfers, TwoLegs(a, Clr, Amt[e]) \o Core(0), Stood(Transfers, k, NoEntries, 0),
                Stood(Transfers, k, Shifted(NoEntries, a, Clr, Amt[e]), 0 + 0))
      BY <1>0, MovesLeads
    <2> QED
      BY <1>0, <2>1 DEF HoldFor, Clr, With, Moving
  <1>3. Leads(Transfers, Refreshed(a), G, G)
    BY <1>0, RefreshedLeads DEF With
  <1>4. Leads(Transfers, << OnDoc("insert", e, Absent, "held") >>, G, I)
    <2>1. e \notin k.own
      BY DEF Clean
    <2> QED
      BY <1>0, <2>1, MarkLeads DEF With, Found
  <1>5. Leads(Transfers, ChargeFee(a), J, H)
    BY ChargeFeeLeads DEF With
  <1>6. Leads(Transfers, ask, I, I) /\ Leads(Transfers, route, I, J)
    OBVIOUS
  <1> HIDE DEF F, G, I, J, H
  <1> DEFINE i == << OnDoc("insert", e, Absent, "held") >>
             s1 == Funded(a, Amt[e]) \o HoldFor(InteracRail, a, Amt[e], 0)
             s2 == s1 \o Refreshed(a)  s3 == s2 \o i  s4 == s3 \o ask  s5 == s4 \o route
  <1>7. Leads(Transfers, s1, F, G)
    BY <1>1, <1>2, LeadsOn
  <1> HIDE DEF s1
  <1>8. Leads(Transfers, s2, F, G)
    BY <1>3, <1>7, LeadsOn
  <1> HIDE DEF s2
  <1>9. Leads(Transfers, s3, F, I)
    BY <1>4, <1>8, LeadsOn
  <1> HIDE DEF s3
  <1>10. Leads(Transfers, s4, F, I)
    BY <1>6, <1>9, LeadsOn
  <1> HIDE DEF s4
  <1>11. Leads(Transfers, s5, F, J)
    BY <1>6, <1>10, LeadsOn
  <1> HIDE DEF s5
  <1>12. Leads(Transfers, s5 \o ChargeFee(a), F, H)
    BY <1>5, <1>11, LeadsOn
  <1> QED
    BY <1>12 DEF Dispatch, s1, s2, s3, s4, s5, i, F, H

\* A send, once the recipient is resolved.
LEMMA SendResolvedLeads ==
    ASSUME NEW e \in Transfers, NEW ask,
           \A k, p : Leads(Transfers, ask, With(k, p), With(k, p))
    PROVE  Leads(Transfers, SendResolved(e, ask), With(Clean(Transfers), NoEntries), Carried)
  <1> DEFINE h == HandleOf[e]  a == DepositOf[h]  c == Clean(Transfers)
             k1 == Found(e, Absent, "held")  p1 == Moving(From[e], Clr, Amt[e])
             kd == Became(e, Absent, "held", "deposited")  pd == Shifted(p1, Clr, a, Amt[e])
             ka == Became(e, Absent, "held", "available")
             F == With(c, NoEntries)
  <1>0. /\ Transfers \in SUBSET Docs /\ From[e] \in Accounts /\ Clr \in Accounts
        /\ a \in Accounts \ {Clr} /\ Amt[e] \in Int
        /\ NoEntries \in [Accounts -> Int] /\ h \notin Transfers
    BY Settled
  <1>1. /\ k1 \in Docket(Transfers) /\ k1.own = {e}
        /\ kd.own = {e} /\ kd.was[e] = Absent /\ kd.now[e] = "deposited"
        /\ ka.own = {e} /\ ka.was[e] = Absent /\ ka.now[e] = "available"
    <2>1. /\ Absent \in STRING /\ "held" \in STRING /\ "deposited" \in STRING
          /\ "available" \in STRING
      BY Statuses
    <2>2. \A u \in STRING : LET k == Became(e, Absent, "held", u) IN
            /\ k1 \in Docket(Transfers) /\ k1.own = {e}
            /\ k.own = {e} /\ k.was[e] = Absent /\ k.now[e] = u
      BY <2>1, FoundBecame
    <2> HIDE DEF k1
    <2> QED
      BY <2>1, <2>2
  <1>2. p1 \in [Accounts -> Int] /\ pd \in [Accounts -> Int]
    BY <1>0, ShiftedType DEF Moving
  <1>3. pd = Moving(From[e], a, Amt[e])
    BY <1>0, Through DEF Moving
  <1>4. Leads(Transfers, DepositInto(e, a), With(k1, p1), With(kd, pd))
    <2>1. e \in k1.own
      BY <1>1
    <2> QED
      BY <1>0, <1>1, <1>2, <2>1, DepositIntoLeads DEF With, Became
  <1>5. Leads(Transfers, SetAvailable(e), With(k1, p1), With(ka, p1))
    <2>1. e \in k1.own
      BY <1>1
    <2> QED
      BY <1>0, <1>1, <2>1, SetLeads DEF SetAvailable, With, Became
  <1>6. UNION {With(kd, q) : q \in Charged(e, pd)} \subseteq Carried
    <2>1. ASSUME NEW q \in Charged(e, pd) PROVE With(kd, q) \subseteq Carried
      <3>1. Step(e, kd.was[e], kd.now[e], q)
        BY <1>0, <1>1, <1>3 DEF Step
      <3> QED
        BY <1>1, <3>1, StandsCarried DEF With
    <2> QED
      BY <2>1
  <1>7. UNION {With(ka, q) : q \in Charged(e, p1)} \subseteq Carried
    <2>1. ASSUME NEW q \in Charged(e, p1) PROVE With(ka, q) \subseteq Carried
      <3>1. Step(e, ka.was[e], ka.now[e], q)
        BY <1>1 DEF Step
      <3> QED
        BY <1>1, <3>1, StandsCarried DEF With
    <2> QED
      BY <2>1
  <1>8. Leads(Transfers, ask, With(k1, p1), With(k1, p1))
    OBVIOUS
  <1> HIDE DEF k1, p1, kd, pd, ka, F
  <1>9. Leads(Transfers, Dispatch(e, ask, DepositInto(e, a)), F, Carried)
    <2>1. Leads(Transfers, Dispatch(e, ask, DepositInto(e, a)), F,
                UNION {With(kd, q) : q \in Charged(e, pd)})
      BY <1>2, <1>4, <1>8, DispatchLeads DEF k1, p1, F
    <2> QED
      BY <1>6, <2>1, LeadsAlso
  <1>10. Leads(Transfers, Dispatch(e, ask, SetAvailable(e)), F, Carried)
    <2>1. Leads(Transfers, Dispatch(e, ask, SetAvailable(e)), F,
                UNION {With(ka, q) : q \in Charged(e, p1)})
      BY <1>2, <1>5, <1>8, DispatchLeads DEF k1, p1, F
    <2> QED
      BY <1>7, <2>1, LeadsAlso
  <1>11. F \in SUBSET Standing(Transfers)
    BY StoodType DEF F, With
  <1> QED
    BY <1>9, <1>10, <1>11, BranchElse DEF SendResolved, F

\* The commit changes nothing of it.
LEMMA EndsCarried ==
    ASSUME NEW s, NEW F, Leads(Transfers, s, F, Carried)
    PROVE  Leads(Transfers, s \o Completed, F, Carried)
  <1>1. Transfers \in SUBSET Docs /\ Carried \in SUBSET Standing(Transfers)
    BY Settled DEF Carried
  <1>2. Leads(Transfers, Completed, Carried, Carried)
    BY <1>1, CompletedLeads
  <1> QED
    BY <1>2, LeadsOn

\* What may be asked before changes nothing.
LEMMA AsksNothing ==
    ASSUME NEW e \in Transfers, NEW k, NEW p
    PROVE  /\ Leads(Transfers, << >>, With(k, p), With(k, p))
           /\ Leads(Transfers, AsksQuestion(e), With(k, p), With(k, p))
  <1>1. Leads(Transfers, << >>, With(k, p), With(k, p))
    BY StoodType, LeadsNowhere DEF With
  <1>2. Leads(Transfers, AsksQuestion(e), With(k, p), With(k, p))
    BY Settled, BesideLeads DEF AsksQuestion, With, DocOps, DocWrites
  <1> QED
    BY <1>1, <1>2

\* send_etransfer.
LEMMA SendLeads ==
    ASSUME NEW c, c.e \in Transfers
    PROVE  Leads(Transfers, Send(c), With(Clean(Transfers), NoEntries), Carried)
  <1> DEFINE e == c.e  F == With(Clean(Transfers), NoEntries)
             f == << OnDoc("find", e, Blank, Blank) >>
             b == IfElse(HandleOf[e], "auto", 0, SendResolved(e, << >>),
                         SendResolved(e, AsksQuestion(e)))
  <1>1. Leads(Transfers, f, F, F)
    BY Settled, BesideLeads DEF With, DocOps
  <1>2. /\ Leads(Transfers, SendResolved(e, << >>), F, Carried)
        /\ Leads(Transfers, SendResolved(e, AsksQuestion(e)), F, Carried)
    BY AsksNothing, SendResolvedLeads
  <1>3. F \in SUBSET Standing(Transfers)
    BY StoodType DEF With
  <1> HIDE DEF F, e
  <1>4. Leads(Transfers, b, F, Carried)
    BY <1>2, <1>3, BranchElse
  <1> HIDE DEF b, f
  <1>5. Leads(Transfers, f \o b, F, Carried)
    BY <1>1, <1>4, LeadsOn
  <1>6. Leads(Transfers, (f \o b) \o Completed, F, Carried)
    BY <1>5, EndsCarried
  <1> QED
    BY <1>6 DEF Send, f, b, e, F

\* network_inbound.
LEMMA InboundLeads ==
    ASSUME NEW c, c.e \in Transfers, From[c.e] = Stl
    PROVE  Leads(Transfers, NetworkInbound(c), With(Clean(Transfers), NoEntries), Carried)
  <1> DEFINE e == c.e  h == HandleOf[e]  a == DepositOf[h]  k == Clean(Transfers)
             F == With(k, NoEntries)
             kd == Found(e, Absent, "deposited")  pd == Moving(Stl, a, Amt[e])
             ka == Found(e, Absent, "available")  pa == Moving(Stl, Clr, Amt[e])
  <1>0. /\ Transfers \in SUBSET Docs /\ Clr \in Accounts /\ Stl \in Accounts
        /\ a \in Accounts \ {Clr} /\ Amt[e] \in Int /\ e \in Transfers
        /\ NoEntries \in [Accounts -> Int] /\ h \notin Transfers /\ 0 \in Int /\ 0 + 0 = 0
        /\ k \in Docket(Transfers) /\ e \notin k.own
    BY Settled, CleanType DEF Clean
  <1>1. /\ kd.own = {e} /\ kd.was[e] = Absent /\ kd.now[e] = "deposited"
        /\ ka.own = {e} /\ ka.was[e] = Absent /\ ka.now[e] = "available"
    <2>1. /\ Absent \in STRING /\ "deposited" \in STRING /\ "available" \in STRING
      BY Statuses
    <2>2. kd.own = {e} /\ kd.was[e] = Absent /\ kd.now[e] = "deposited"
      BY <1>0, <2>1, FoundBecame
    <2>3. ka.own = {e} /\ ka.was[e] = Absent /\ ka.now[e] = "available"
      BY <1>0, <2>1, FoundBecame
    <2> QED
      BY <2>2, <2>3
  <1>2. F \in SUBSET Standing(Transfers)
    BY StoodType DEF With
  <1>3. Leads(Transfers, AcceptInbound(InteracRail, a, Amt[e], Amt[e])
                             \o << OnDoc("insert", e, Absent, "deposited") >> \o Refreshed(a),
              F, Carried)
    <2> DEFINE n == 0 + Amt[e]  G == Stood(Transfers, k, pd, n)  I == Stood(Transfers, kd, pd, n)
    <2>1. Leads(Transfers, AcceptInbound(InteracRail, a, Amt[e], Amt[e]), F, G)
      <3>1. Leads(Transfers, TwoLegs(Stl, a, Amt[e]) \o Core(Amt[e]),
                  Stood(Transfers, k, NoEntries, 0),
                  Stood(Transfers, k, Shifted(NoEntries, Stl, a, Amt[e]), 0 + Amt[e]))
        BY <1>0, MovesLeads
      <3> QED
        BY <3>1 DEF AcceptInbound, Stl, With, Moving
    <2>2. Leads(Transfers, << OnDoc("insert", e, Absent, "deposited") >>, G, I)
      BY <1>0, MarkLeads DEF Found
    <2>3. Leads(Transfers, Refreshed(a), I, I)
      BY <1>0, RefreshedLeads
    <2>4. I \subseteq Carried
      <3>1. pd \in Charged(e, Moving(From[e], a, Amt[e]))
        BY DEF Charged
      <3>2. Step(e, kd.was[e], kd.now[e], pd)
        BY <1>0, <1>1, <3>1 DEF Step
      <3> QED
        BY <1>0, <1>1, <3>2, StandsCarried
    <2> HIDE DEF F, G, I
    <2>5. Leads(Transfers, AcceptInbound(InteracRail, a, Amt[e], Amt[e])
                             \o << OnDoc("insert", e, Absent, "deposited") >> \o Refreshed(a), F, I)
      BY <2>1, <2>2, <2>3, LeadsOn
    <2> QED
      BY <2>4, <2>5, LeadsAlso
  <1>4. Leads(Transfers, << OnDoc("expect", h, "manual", Blank) >>
                   \o HoldFor(InteracRail, InteracRail.settlement, Amt[e], 0)
                   \o << OnDoc("insert", e, Absent, "available") >>
                   \o AsksQuestion(e), F, Carried)
    <2> DEFINE G == With(k, pa)  I == With(ka, pa)
    <2>1. Leads(Transfers, << OnDoc("expect", h, "manual", Blank) >>, F, F)
      BY <1>0, BesideLeads DEF With, DocOps
    <2>2. Leads(Transfers, HoldFor(InteracRail, InteracRail.settlement, Amt[e], 0), F, G)
      <3>1. Leads(Transfers, TwoLegs(Stl, Clr, Amt[e]) \o Core(0),
                  Stood(Transfers, k, NoEntries, 0),
                  Stood(Transfers, k, Shifted(NoEntries, Stl, Clr, Amt[e]), 0 + 0))
        BY <1>0, MovesLeads
      <3> QED
        BY <1>0, <3>1 DEF HoldFor, Stl, Clr, With, Moving
    <2>3. Leads(Transfers, << OnDoc("insert", e, Absent, "available") >>, G, I)
      BY <1>0, MarkLeads DEF With, Found
    <2>4. Leads(Transfers, AsksQuestion(e), I, I)
      BY <1>0, AsksNothing
    <2>5. I \subseteq Carried
      <3>1. pa \in Charged(e, Moving(From[e], Clr, Amt[e]))
        BY DEF Charged
      <3>2. Step(e, ka.was[e], ka.now[e], pa)
        BY <1>0, <1>1, <3>1 DEF Step
      <3> QED
        BY <1>0, <1>1, <3>2, StandsCarried DEF With
    <2> HIDE DEF F, G, I
    <2>6. Leads(Transfers, << OnDoc("expect", h, "manual", Blank) >>
                   \o HoldFor(InteracRail, InteracRail.settlement, Amt[e], 0)
                   \o << OnDoc("insert", e, Absent, "available") >>
                   \o AsksQuestion(e), F, I)
      BY <2>1, <2>2, <2>3, <2>4, LeadsOn
    <2> QED
      BY <2>5, <2>6, LeadsAlso
  <1> HIDE DEF F, k
  <1>5. Leads(Transfers,
              IfElse(h, "auto", 0,
                     AcceptInbound(InteracRail, a, Amt[e], Amt[e])
                       \o << OnDoc("insert", e, Absent, "deposited") >> \o Refreshed(a),
                     << OnDoc("expect", h, "manual", Blank) >>
                       \o HoldFor(InteracRail, InteracRail.settlement, Amt[e], 0)
                       \o << OnDoc("insert", e, Absent, "available") >>
                       \o AsksQuestion(e)), F, Carried)
    BY <1>2, <1>3, <1>4, BranchElse
  <1> QED
    BY <1>5, EndsCarried DEF NetworkInbound, F, k

\* The transfer, locked while it is available.
LEMMA LockAvailableLeads ==
    ASSUME NEW e \in Transfers
    PROVE  Leads(Transfers, LockAvailable(e), With(Clean(Transfers), NoEntries),
                 With(Found(e, "available", "available"), NoEntries))
  <1>1. /\ Transfers \in SUBSET Docs /\ Clean(Transfers) \in Docket(Transfers)
        /\ e \notin Clean(Transfers).own
    BY Settled, CleanType DEF Clean
  <1> QED
    BY <1>1, MarkLeads DEF LockAvailable, With, Found

\* What follows the lock, and the end of the script.
LEMMA ResolveLeads ==
    ASSUME NEW e \in Transfers, NEW s,
           Leads(Transfers, s, With(Found(e, "available", "available"), NoEntries), Carried)
    PROVE  Leads(Transfers, LockAvailable(e) \o s \o Completed,
                 With(Clean(Transfers), NoEntries), Carried)
  <1> DEFINE F == With(Clean(Transfers), NoEntries)
             G == With(Found(e, "available", "available"), NoEntries)
  <1>1. Leads(Transfers, LockAvailable(e), F, G)
    BY LockAvailableLeads
  <1> HIDE DEF F, G
  <1>2. Leads(Transfers, LockAvailable(e) \o s, F, Carried)
    BY <1>1, LeadsOn DEF G
  <1> QED
    BY <1>2, EndsCarried DEF F

\* What is then known of it.
LEMMA FoundAvailable ==
    ASSUME NEW e \in Transfers, NEW k, k = Found(e, "available", "available"),
           NEW u \in STRING
    PROVE  /\ k \in Docket(Transfers) /\ k.own = {e} /\ k.was[e] = "available"
           /\ k.now[e] = "available"
           /\ Marked(k, e, Blank, u).own = {e} /\ Marked(k, e, Blank, u).was[e] = "available"
           /\ Marked(k, e, Blank, u).now[e] = u
  <1>1. "available" \in STRING
    BY Statuses
  <1>2. /\ Became(e, "available", "available", u).own = {e}
        /\ Became(e, "available", "available", u).was[e] = "available"
        /\ Became(e, "available", "available", u).now[e] = u
    BY <1>1, FoundBecame
  <1>3. k \in Docket(Transfers) /\ k.own = {e} /\ k.was[e] = "available" /\ k.now[e] = "available"
    BY <1>1, FoundBecame
  <1> QED
    BY <1>2, <1>3 DEF Became

\* It is paid out.
LEMMA DeliverLeads ==
    ASSUME NEW e \in Transfers, NEW a \in Accounts \ {Clr}
    PROVE  Leads(Transfers, DepositInto(e, a),
                 With(Found(e, "available", "available"), NoEntries), Carried)
  <1> DEFINE k == Found(e, "available", "available")  m == Marked(k, e, Blank, "deposited")
             p == Shifted(NoEntries, Clr, a, Amt[e])
  <1>1. /\ k \in Docket(Transfers) /\ k.own = {e}
        /\ m.own = {e} /\ m.was[e] = "available" /\ m.now[e] = "deposited"
    BY FoundAvailable, Statuses
  <1>2. NoEntries \in [Accounts -> Int] /\ e \in k.own
    BY <1>1, Settled
  <1> HIDE DEF k
  <1>3. Leads(Transfers, DepositInto(e, a), With(k, NoEntries), With(m, p))
    BY <1>1, <1>2, DepositIntoLeads DEF With
  <1>4. Step(e, m.was[e], m.now[e], p)
    BY <1>1 DEF Step, Moving
  <1>5. With(m, p) \subseteq Carried
    BY <1>1, <1>4, StandsCarried DEF With
  <1>6. Leads(Transfers, DepositInto(e, a), With(k, NoEntries), Carried)
    BY <1>3, <1>5, LeadsAlso
  <1> QED
    BY <1>6 DEF k

\* It is given back.
LEMMA ReturnLeads ==
    ASSUME NEW e \in Transfers, NEW status \in {"declined", "cancelled", "expired"}
    PROVE  Leads(Transfers, GiveBack(e, status),
                 With(Found(e, "available", "available"), NoEntries), Carried)
  <1> DEFINE k == Found(e, "available", "available")  m == Marked(k, e, Blank, status)
             p == Shifted(NoEntries, Clr, From[e], Amt[e])
  <1>0. status \in STRING
    BY Statuses
  <1>1. /\ k \in Docket(Transfers) /\ k.own = {e}
        /\ m.own = {e} /\ m.was[e] = "available" /\ m.now[e] = status
    BY <1>0, FoundAvailable
  <1>2. NoEntries \in [Accounts -> Int] /\ e \in k.own
    BY <1>1, Settled
  <1> HIDE DEF k
  <1>3. Leads(Transfers, GiveBack(e, status), With(k, NoEntries), With(m, p))
    BY <1>1, <1>2, GiveBackLeads DEF With
  <1>4. Step(e, m.was[e], m.now[e], p)
    BY <1>1 DEF Step, Moving
  <1>5. With(m, p) \subseteq Carried
    BY <1>1, <1>4, StandsCarried DEF With
  <1>6. Leads(Transfers, GiveBack(e, status), With(k, NoEntries), Carried)
    BY <1>3, <1>5, LeadsAlso
  <1> QED
    BY <1>6 DEF k

\* A wrong answer is counted, and the last one fails the transfer.
LEMMA StrikeLeads ==
    ASSUME NEW e \in Transfers
    PROVE  Leads(Transfers, Strike(e),
                 With(Found(e, "available", "available"), NoEntries), Carried)
  <1> DEFINE k == Found(e, "available", "available")  m == Marked(k, e, Blank, "failed")
             F == With(k, NoEntries)  x == Strikes[e]
             three == << OnDoc("set", x, Blank, "three") >>
             two == << OnDoc("set", x, Blank, "two") >>
             one == << OnDoc("set", x, Blank, "one") >>
             failed == << OnDoc("set", e, Blank, "failed") >>
  <1>1. /\ k \in Docket(Transfers) /\ k.own = {e} /\ k.was[e] = "available"
        /\ k.now[e] = "available"
        /\ m.own = {e} /\ m.was[e] = "available" /\ m.now[e] = "failed"
    BY FoundAvailable, Statuses
  <1>2. Transfers \in SUBSET Docs /\ x \notin Transfers /\ e \in k.own
    BY <1>1, Settled
  <1> HIDE DEF k, x
  <1>3. F \in SUBSET Standing(Transfers)
    BY StoodType DEF With
  <1>4. Leads(Transfers, failed, F, With(m, NoEntries))
    BY <1>1, <1>2, SetLeads DEF With
  <1>5. /\ Leads(Transfers, three, With(m, NoEntries), With(m, NoEntries))
        /\ Leads(Transfers, two, F, F) /\ Leads(Transfers, one, F, F)
    BY <1>2, BesideLeads DEF With, DocOps, DocWrites
  <1>6. F \subseteq Carried /\ With(m, NoEntries) \subseteq Carried
    <2>1. Step(e, k.was[e], k.now[e], NoEntries) /\ Step(e, m.was[e], m.now[e], NoEntries)
      BY <1>1 DEF Step
    <2> QED
      BY <1>1, <2>1, StandsCarried DEF With
  <1> HIDE DEF F, m, one, two, three, failed
  <1>7. Leads(Transfers, two, F, Carried) /\ Leads(Transfers, one, F, Carried)
    BY <1>5, <1>6, LeadsAlso
  <1>8. Leads(Transfers, failed \o three, F, Carried)
    <2>1. Leads(Transfers, failed \o three, F, With(m, NoEntries))
      BY <1>4, <1>5, LeadsOn
    <2> QED
      BY <1>6, <2>1, LeadsAlso
  <1>9. Leads(Transfers, IfElse(x, "one", 0, two, one), F, Carried)
    BY <1>3, <1>7, BranchElse
  <1>10. Leads(Transfers, IfElse(x, "two", 0, failed \o three,
                                 IfElse(x, "one", 0, two, one)), F, Carried)
    BY <1>3, <1>8, <1>9, BranchElse
  <1>11. failed \o three = << OnDoc("set", e, Blank, "failed"), OnDoc("set", x, Blank, "three") >>
    BY TwoOnes DEF failed, three
  <1> QED
    BY <1>10, <1>11 DEF Strike, F, k, x, one, two

\* claim, with the right answer and with a wrong one.
LEMMA ClaimLeads ==
    ASSUME NEW c, c.e \in Transfers, c.to \in Accounts \ {Clr}
    PROVE  /\ Leads(Transfers, Claim(c), With(Clean(Transfers), NoEntries), Carried)
           /\ Leads(Transfers, Guess(c), With(Clean(Transfers), NoEntries), Carried)
  <1> DEFINE e == c.e  F == With(Found(e, "available", "available"), NoEntries)
  <1>1. Leads(Transfers, DepositInto(e, c.to), F, Carried)
    BY DeliverLeads
  <1>2. Leads(Transfers, Strike(e), F, Carried)
    BY StrikeLeads
  <1>3. F \in SUBSET Standing(Transfers)
    BY StoodType DEF With
  <1> HIDE DEF F
  <1>4. Leads(Transfers, IfElse(Question[e], "asked", 0, Strike(e), DepositInto(e, c.to)),
              F, Carried)
    BY <1>1, <1>2, <1>3, BranchElse
  <1> QED
    BY <1>1, <1>4, ResolveLeads DEF Claim, Guess, F

\* network_settle, claimed.
LEMMA SettleLeads ==
    ASSUME NEW c, c.e \in Transfers
    PROVE  Leads(Transfers, SettleClaimed(c), With(Clean(Transfers), NoEntries), Carried)
  <1> DEFINE e == c.e  k == Found(e, "available", "available")
             m == Marked(k, e, Blank, "deposited")  p == Shifted(NoEntries, Clr, Stl, Amt[e])
             F == With(k, NoEntries)  G == With(k, p)  I == With(m, p)
  <1>0. /\ Transfers \in SUBSET Docs /\ Clr \in Accounts /\ Stl \in Accounts \ {Clr}
        /\ Amt[e] \in Int /\ NoEntries \in [Accounts -> Int] /\ 0 \in Int /\ 0 + 0 = 0
    BY Settled
  <1>1. /\ k \in Docket(Transfers) /\ k.own = {e}
        /\ m.own = {e} /\ m.was[e] = "available" /\ m.now[e] = "deposited"
    BY FoundAvailable, Statuses
  <1>2. Leads(Transfers, ReleaseTo(InteracRail, InteracRail.settlement, Amt[e], 0), F, G)
    <2>1. Leads(Transfers, TwoLegs(Clr, Stl, Amt[e]) \o Core(0), Stood(Transfers, k, NoEntries, 0),
                Stood(Transfers, k, p, 0 + 0))
      BY <1>0, MovesLeads
    <2> QED
      BY <1>0, <2>1 DEF ReleaseTo, Clr, Stl, With
  <1>3. Leads(Transfers, << OnDoc("set", e, Blank, "deposited") >>, G, I)
    BY <1>0, <1>1, SetLeads DEF With
  <1>4. I \subseteq Carried
    <2>1. Step(e, m.was[e], m.now[e], p)
      BY <1>0, <1>1 DEF Step, Moving
    <2> QED
      BY <1>1, <2>1, StandsCarried DEF With
  <1> DEFINE s == ReleaseTo(InteracRail, InteracRail.settlement, Amt[e], 0)
             t == << OnDoc("set", e, Blank, "deposited") >>
             q == LockAvailable(e)
  <1>5. Leads(Transfers, q, With(Clean(Transfers), NoEntries), F)
    BY LockAvailableLeads
  <1> HIDE DEF F, G, I, s, t, q
  <1>6. Leads(Transfers, q \o s, With(Clean(Transfers), NoEntries), G)
    BY <1>2, <1>5, LeadsOn DEF s
  <1>7. Leads(Transfers, q \o s \o t, With(Clean(Transfers), NoEntries), I)
    BY <1>3, <1>6, LeadsOn DEF t
  <1>8. Leads(Transfers, q \o s \o t, With(Clean(Transfers), NoEntries), Carried)
    BY <1>4, <1>7, LeadsAlso
  <1>9. Leads(Transfers, q \o s \o t \o Completed, With(Clean(Transfers), NoEntries), Carried)
    BY <1>8, EndsCarried
  <1> QED
    BY <1>9 DEF SettleClaimed, q, s, t

\* decline, cancel, and network_settle, declined.
LEMMA TurnLeads ==
    ASSUME NEW c, c.e \in Transfers
    PROVE  /\ Leads(Transfers, Decline(c), With(Clean(Transfers), NoEntries), Carried)
           /\ Leads(Transfers, Cancel(c), With(Clean(Transfers), NoEntries), Carried)
           /\ Leads(Transfers, SettleDeclined(c), With(Clean(Transfers), NoEntries), Carried)
  BY ReturnLeads, ResolveLeads DEF Decline, Cancel, SettleDeclined

\* The expiry of a transfer.
LEMMA ExpireLeads ==
    ASSUME NEW c, c.e \in Transfers
    PROVE  Leads(Transfers, Expire(c), With(Clean(Transfers), NoEntries), Carried)
  <1> DEFINE e == c.e  F == With(Clean(Transfers), NoEntries)
             G == With(Found(e, "available", "available"), NoEntries)
             x == << OnDoc("expect", e, "available", Blank) >>
  <1>1. Leads(Transfers, x, F, F)
    BY Settled, BesideLeads DEF With, DocOps
  <1>2. Leads(Transfers, LockAvailable(e), F, G)
    BY LockAvailableLeads
  <1>3. Leads(Transfers, GiveBack(e, "expired"), G, Carried)
    BY ReturnLeads
  <1> HIDE DEF F, G, x
  <1>4. Leads(Transfers, x \o LockAvailable(e), F, G)
    BY <1>1, <1>2, LeadsOn
  <1>5. Leads(Transfers, x \o LockAvailable(e) \o GiveBack(e, "expired"), F, Carried)
    BY <1>3, <1>4, LeadsOn
  <1>6. Leads(Transfers, x \o LockAvailable(e) \o GiveBack(e, "expired") \o Completed, F, Carried)
    BY <1>5, EndsCarried
  <1> QED
    BY <1>6 DEF Expire, F, x

\* The handles, which move no transfer.
LEMMA RegisterLeads ==
    ASSUME NEW c, c.e \in Transfers
    PROVE  /\ Leads(Transfers, Register(c), With(Clean(Transfers), NoEntries), Carried)
           /\ Leads(Transfers, Deregister(c), With(Clean(Transfers), NoEntries), Carried)
  <1> DEFINE h == HandleOf[c.e]  F == With(Clean(Transfers), NoEntries)
             i == << OnDoc("insert", h, Absent, "auto") >>
             d == << OnDoc("mark", h, "auto", Absent) >>
  <1>1. Leads(Transfers, i, F, F) /\ Leads(Transfers, d, F, F)
    BY Settled, BesideLeads DEF With, DocOps, DocWrites
  <1>2. F \subseteq Carried
    BY DEF With, Stood, Clean, Carried
  <1> HIDE DEF F, i, d
  <1>3. Leads(Transfers, i, F, Carried) /\ Leads(Transfers, d, F, Carried)
    BY <1>1, <1>2, LeadsAlso
  <1>4. Leads(Transfers, i \o Completed, F, Carried) /\ Leads(Transfers, d \o Completed, F, Carried)
    BY <1>3, EndsCarried
  <1> QED
    BY <1>4 DEF Register, Deregister, F, i, d

\* However a call of the rail runs, what it commits is one step of one e-Transfer.
LEMMA ScriptsCarry ==
    ASSUME InteracCalls = Tasks, NEW t \in Tasks
    PROVE  EndsIn(Transfers, t, Carried)
  <1> DEFINE c == Call[t]  F == With(Clean(Transfers), NoEntries)
  <1>1. /\ c \in EtransferCall /\ Script[t] = InteracScript(c)
        /\ c.to \notin SystemAccounts
        /\ c.kind = "inbound" => From[c.e] = InteracRail.settlement
    BY InteracAssumption, InteracScripts, EtransferRows
  <1>2. c.kind \in CallKinds /\ c.e \in Transfers /\ c.to \in Accounts \ {Clr}
    BY <1>1, Settled DEF EtransferCall
  <1>3. Transfers \in SUBSET Docs
    BY Settled
  <1>4. {Fresh(Transfers)} \subseteq F
    BY <1>3, FreshStood DEF With
  <1> HIDE DEF c
  <1>5. Leads(Transfers, InteracScript(c), F, Carried)
    <2> HIDE DEF F
    <2>1. CASE c.kind = "send"
      BY <1>2, <2>1, SendLeads DEF InteracScript, F
    <2>2. CASE c.kind = "claim"
      BY <1>2, <2>2, ClaimLeads DEF InteracScript, F
    <2>3. CASE c.kind = "guess"
      BY <1>2, <2>3, ClaimLeads DEF InteracScript, F
    <2>4. CASE c.kind = "decline"
      BY <1>2, <2>4, TurnLeads DEF InteracScript, F
    <2>5. CASE c.kind = "cancel"
      BY <1>2, <2>5, TurnLeads DEF InteracScript, F
    <2>6. CASE c.kind = "settled"
      BY <1>2, <2>6, SettleLeads DEF InteracScript, F
    <2>7. CASE c.kind = "turned"
      BY <1>2, <2>7, TurnLeads DEF InteracScript, F
    <2>8. CASE c.kind = "inbound"
      BY <1>1, <1>2, <2>8, InboundLeads DEF InteracScript, F, Stl
    <2>9. CASE c.kind = "expire"
      BY <1>2, <2>9, ExpireLeads DEF InteracScript, F
    <2>10. CASE c.kind = "register"
      BY <1>2, <2>10, RegisterLeads DEF InteracScript, F
    <2>11. CASE c.kind = "deregister"
      BY <1>2, <2>11, RegisterLeads DEF InteracScript, F
    <2> QED
      BY <1>2, <2>1, <2>2, <2>3, <2>4, <2>5, <2>6, <2>7, <2>8, <2>9, <2>10, <2>11 DEF CallKinds
  <1> HIDE DEF F
  <1> QED
    BY <1>1, <1>4, <1>5, LeadsAlso DEF EndsIn

\* Where the money of a transfer is, by its status.
LEMMA PlacesDiffer ==
    /\ PlaceOf(Absent) = "none" /\ PlaceOf("available") = "escrow"
    /\ PlaceOf("deposited") = "delivered" /\ PlaceOf("failed") = "blocked"
    /\ \A s \in {"declined", "cancelled", "expired"} : PlaceOf(s) = "returned"
  BY Statuses DEF PlaceOf

\* The entries of a script are those the promise speaks of.
LEMMA MovingIsMoved ==
    ASSUME NEW x, NEW y, NEW n \in Int
    PROVE  \A a \in Accounts : Moving(x, y, n)[a] = Promised!Moved(x, y, n)[a]
  BY DEF Moving, Shifted, NoEntries, Promised!Moved

\* The entries p are those of e, from x to y, and its fee or none.
IsCharged(e, x, y, p) ==
    \E fees \in {Promised!NoFee, Promised!FeeOf(e)} :
        \A a \in Accounts : p[a] = Promised!Moved(x, y, Amt[e])[a] + fees[a]

\* So is the fee.
LEMMA ChargedIsFee ==
    ASSUME NEW e \in Transfers, NEW x, NEW y, NEW p \in Charged(e, Moving(x, y, Amt[e]))
    PROVE  IsCharged(e, x, y, p)
  <1>1. EtransferFee \in Int /\ Amt[e] \in Int
    BY Settled
  <1>2. CASE p = Moving(x, y, Amt[e])
    <2>1. \A a \in Accounts : p[a] = Promised!Moved(x, y, Amt[e])[a] + Promised!NoFee[a]
      BY <1>1, <1>2 DEF Promised!NoFee, Moving, Shifted, NoEntries, Promised!Moved
    <2> QED
      BY <2>1 DEF IsCharged
  <1>3. CASE p = Shifted(Moving(x, y, Amt[e]), From[e], Cash, EtransferFee)
    <2>1. \A a \in Accounts : p[a] = Promised!Moved(x, y, Amt[e])[a] + Promised!FeeOf(e)[a]
      BY <1>1, <1>3 DEF Promised!FeeOf, Moving, Shifted, NoEntries, Promised!Moved
    <2> QED
      BY <2>1 DEF IsCharged
  <1> QED
    BY <1>2, <1>3 DEF Charged

\* They are whole numbers.
LEMMA BooksType ==
    ASSUME NEW e \in Transfers, NEW x, NEW y, NEW a \in Accounts
    PROVE  /\ Promised!Moved(x, y, Amt[e])[a] \in Int /\ Promised!NoFee[a] \in Int
           /\ Promised!FeeOf(e)[a] \in Int
  BY Settled DEF Promised!Moved, Promised!NoFee, Promised!FeeOf

\* A commit is a step that Escrow allows, or none.
LEMMA CommitPays ==
    ASSUME InteracCalls = Tasks, NEW H, \A t \in Tasks : H[t] = Carried,
           StandsInv(Transfers, H), NEW r \in Requests, Commit(r)
    PROVE  Promised!Next \/ UNCHANGED << [e \in Transfers |-> PlaceOf(doc[e])], journal >>
  <1> DEFINE l == StandingOf(Transfers, r)
             place == [e \in Transfers |-> PlaceOf(doc[e])]
  <1>0. Transfers \cap Docs = Transfers /\ Transfers \in SUBSET Rows
    BY Settled
  <1>1. \A t \in Tasks : EndsIn(Transfers, t, H[t])
    BY ScriptsCarry
  <1>2. /\ l \in Carried /\ l \in Standing(Transfers)
        /\ \A d \in Transfers :
             IF d \in l.own THEN doc[d] = l.was[d] /\ doc'[d] = l.now[d] ELSE doc'[d] = doc[d]
        /\ \A a \in Accounts : journal'[a] = journal[a] + l.posts[a]
    BY <1>0, <1>1, CommitStands
  <1>3. journal \in [Accounts -> Int] /\ journal' \in [Accounts -> Int]
    <2>1. TypeOK /\ pend[r] \in [Accounts -> Int]
      BY DEF StandsInv, TypeOK
    <2>2. journal' = [a \in Accounts |-> journal[a] + pend[r][a]]
      BY DEF Commit
    <2> QED
      BY <2>1, <2>2 DEF TypeOK
  <1> HIDE DEF l
  <1>4. CASE l.own = {} /\ l.posts = NoEntries
    <2>1. place' = place
      BY <1>2, <1>4
    <2>2. journal' = journal
      BY <1>2, <1>3, <1>4 DEF NoEntries
    <2> QED
      BY <2>1, <2>2
  <1>5. ASSUME NEW e \in Transfers, l.own = {e}, Step(e, l.was[e], l.now[e], l.posts)
        PROVE  Promised!Next \/ UNCHANGED << place, journal >>
    <2> DEFINE v == l.was[e]  w == l.now[e]
    <2>1. doc[e] = v /\ doc'[e] = w /\ \A d \in Transfers \ {e} : doc'[d] = doc[d]
      BY <1>2, <1>5
    <2>2. place[e] = PlaceOf(v) /\ place' = [place EXCEPT ![e] = PlaceOf(w)]
      BY <2>1
    <2>3. journal' = [a \in Accounts |-> journal[a] + l.posts[a]]
      BY <1>2, <1>3
    <2>4. Amt[e] \in Int
      BY Settled
    <2> HIDE DEF v, w, place
    <2>5. CASE v = w /\ l.posts = NoEntries
      <3>1. journal' = journal
        BY <1>3, <2>3, <2>5 DEF NoEntries
      <3>2. place' = place
        BY <2>2, <2>5 DEF place
      <3> QED
        BY <3>1, <3>2
    <2>6. ASSUME Promised!Accept(e) \/ Promised!Return(e) \/ Promised!Block(e)
                   \/ \E a \in AnyPayee[e] : Promised!DeliverAtOnce(e, a) \/ Promised!Deliver(e, a),
                 place'[e] # place[e]
          PROVE  Promised!Next
      BY <2>6 DEF Promised!Next, place
    <2>7. ASSUME NEW n, NEW f, \A a \in Accounts : n[a] \in Int /\ f[a] \in Int,
                 \A a \in Accounts : l.posts[a] = n[a] + f[a]
          PROVE  Promised!Book(n, f)
      <3>1. \A a \in Accounts : journal[a] + l.posts[a] = journal[a] + n[a] + f[a]
        BY <1>3, <2>7
      <3> QED
        BY <2>3, <3>1 DEF Promised!Book
    <2>8. ASSUME NEW x, NEW y, l.posts \in Charged(e, Moving(x, y, Amt[e]))
          PROVE  \E f \in {Promised!NoFee, Promised!FeeOf(e)} :
                    Promised!Book(Promised!Moved(x, y, Amt[e]), f)
      <3>1. PICK f \in {Promised!NoFee, Promised!FeeOf(e)} :
              \A a \in Accounts : l.posts[a] = Promised!Moved(x, y, Amt[e])[a] + f[a]
        <4>1. IsCharged(e, x, y, l.posts)
          BY <2>8, ChargedIsFee
        <4> QED
          BY <4>1 DEF IsCharged
      <3>2. \A a \in Accounts : Promised!Moved(x, y, Amt[e])[a] \in Int /\ f[a] \in Int
        BY BooksType
      <3> QED
        BY <2>7, <3>1, <3>2
    <2>9. ASSUME NEW x, NEW y, l.posts = Moving(x, y, Amt[e])
          PROVE  Promised!Book(Promised!Moved(x, y, Amt[e]), Promised!NoFee)
      <3>1. \A a \in Accounts : /\ Promised!Moved(x, y, Amt[e])[a] \in Int
                                /\ Promised!NoFee[a] = 0
        BY BooksType DEF Promised!NoFee
      <3>2. \A a \in Accounts :
              l.posts[a] = Promised!Moved(x, y, Amt[e])[a] + Promised!NoFee[a]
        BY <2>4, <2>9, <3>1, MovingIsMoved
      <3> QED
        BY <2>7, <3>1, <3>2
    <2>10. CASE v = Absent /\ w = "available" /\ l.posts \in Charged(e, Moving(From[e], Clr, Amt[e]))
      <3>1. Promised!Goes(e, "none", "escrow") /\ place'[e] # place[e]
        BY <2>2, <2>10, PlacesDiffer DEF Promised!Goes, place
      <3>2. Promised!Accept(e)
        BY <2>8, <2>10, <3>1 DEF Promised!Accept, Clr
      <3> QED
        BY <2>6, <3>1, <3>2
    <2>11. ASSUME v = Absent, w = "deposited", NEW a \in Accounts \ {Clr},
                  l.posts \in Charged(e, Moving(From[e], a, Amt[e]))
           PROVE  Promised!Next
      <3>1. Promised!Goes(e, "none", "delivered") /\ place'[e] # place[e]
        BY <2>2, <2>11, PlacesDiffer DEF Promised!Goes, place
      <3>2. Promised!DeliverAtOnce(e, a)
        BY <2>8, <2>11, <3>1 DEF Promised!DeliverAtOnce
      <3>3. a \in AnyPayee[e]
        BY <2>11 DEF AnyPayee, Clr
      <3> QED
        BY <2>6, <3>1, <3>2, <3>3
    <2>12. ASSUME v = "available", w = "deposited", NEW a \in Accounts \ {Clr},
                  l.posts = Moving(Clr, a, Amt[e])
           PROVE  Promised!Next
      <3>1. Promised!Goes(e, "escrow", "delivered") /\ place'[e] # place[e]
        BY <2>2, <2>12, PlacesDiffer DEF Promised!Goes, place
      <3>2. Promised!Deliver(e, a)
        BY <2>9, <2>12, <3>1 DEF Promised!Deliver, Clr
      <3>3. a \in AnyPayee[e]
        BY <2>12 DEF AnyPayee, Clr
      <3> QED
        BY <2>6, <3>1, <3>2, <3>3
    <2>13. CASE /\ v = "available" /\ w \in {"declined", "cancelled", "expired"}
                /\ l.posts = Moving(Clr, From[e], Amt[e])
      <3>1. Promised!Goes(e, "escrow", "returned") /\ place'[e] # place[e]
        BY <2>2, <2>13, PlacesDiffer DEF Promised!Goes, place
      <3>2. Promised!Return(e)
        BY <2>9, <2>13, <3>1 DEF Promised!Return, Clr
      <3> QED
        BY <2>6, <3>1, <3>2
    <2>14. CASE v = "available" /\ w = "failed" /\ l.posts = NoEntries
      <3>1. Promised!Goes(e, "escrow", "blocked") /\ place'[e] # place[e]
        BY <2>2, <2>14, PlacesDiffer DEF Promised!Goes, place
      <3>2. journal' = journal
        BY <1>3, <2>3, <2>14 DEF NoEntries
      <3>3. Promised!Block(e)
        BY <3>1, <3>2 DEF Promised!Block
      <3> QED
        BY <2>6, <3>1, <3>3
    <2>15. Step(e, v, w, l.posts)
      BY <1>5 DEF v, w
    <2> QED
      BY <2>5, <2>10, <2>11, <2>12, <2>13, <2>14, <2>15 DEF Step
  <1> QED
    BY <1>2, <1>4, <1>5 DEF Carried

\* The e-Transfer handlers implement Escrow, whatever the calls and the amounts.
THEOREM EtransfersAreEscrowed == InteracCalls = Tasks => (Spec => ImplementsEscrow)
  <1> SUFFICES ASSUME InteracCalls = Tasks PROVE Spec => ImplementsEscrow
    OBVIOUS
  <1> DEFINE H == [t \in Tasks |-> Carried]
             place == [e \in Transfers |-> PlaceOf(doc[e])]
  <1>1. \A t \in Tasks : H[t] = Carried /\ EndsIn(Transfers, t, H[t])
    BY ScriptsCarry
  <1>2. Transfers \in SUBSET Rows
    BY Settled
  <1> HIDE DEF H
  <1>3. /\ Init => StandsInv(Transfers, H)
        /\ StandsInv(Transfers, H) /\ [Next]_vars => StandsInv(Transfers, H)'
    BY <1>1, <1>2, StandsInit, StandsNext
  <1>4. Init => Promised!Init
    BY DEF Init, Promised!Init, NoEntries
  <1>5. StandsInv(Transfers, H) /\ [Next]_vars => [Promised!Next]_<< place, journal >>
    <2> SUFFICES ASSUME StandsInv(Transfers, H), [Next]_vars
                 PROVE  Promised!Next \/ UNCHANGED << place, journal >>
      OBVIOUS
    <2>1. CASE \E r \in Requests : Commit(r)
      BY <1>1, <2>1, CommitPays
    <2>2. CASE UNCHANGED << row, doc, journal >>
      BY <2>2
    <2> QED
      BY <2>1, <2>2, OnlyCommits
  <1> QED
    BY <1>3, <1>4, <1>5, PTL DEF Spec, ImplementsEscrow, Promised!Spec
-----------------------------------------------------------------------------
(* The cards and their authorizations, whatever calls there are. *)
HeldRows == CardAccounts \cup Authorizations

\* The rows in view and the statuses they can have.
LEMMA CardTypes ==
    /\ HeldRows \in SUBSET Rows
    /\ HeldRows \cap Docs = Authorizations /\ HeldRows \cap Accounts = CardAccounts
    /\ NoOne \notin HeldRows /\ Clearing \notin HeldRows /\ Bank \notin HeldRows
    /\ \A d \in Purchases : d \notin HeldRows
    /\ CardAccounts \cap Authorizations = {}
    /\ \A d \in Authorizations : CardOf[d] \in CardAccounts /\ Stake[d] \in Nat
    /\ Absent \in STRING /\ "open" \in STRING /\ "released" \in STRING
    /\ Absent # "open" /\ Absent # "released"
  <1>1. /\ CardAccounts \subseteq Accounts /\ Authorizations \subseteq Docs /\ Purchases \subseteq Docs
        /\ Authorizations \cap Purchases = {} /\ Accounts \cap Docs = {}
        /\ Clearing \in Accounts /\ Bank \in Accounts
    BY CardCallsAssumption, NamesAssumption
  <1>2. HeldRows \in SUBSET Rows /\ NoOne \notin HeldRows
    BY <1>1, NamesAssumption DEF HeldRows, Rows
  <1>3. Clearing \notin HeldRows /\ Bank \notin HeldRows
    BY <1>1, CardRows DEF HeldRows
  <1>4. \A d \in Authorizations : CardOf[d] \in CardAccounts /\ Stake[d] \in Nat
    BY CardCallsAssumption
  <1>5. /\ Absent \in STRING /\ "open" \in STRING /\ "released" \in STRING
        /\ Absent # "open" /\ Absent # "released"
    BY CardRows, RowsAssumption
  <1>6. /\ HeldRows \cap Docs = Authorizations /\ HeldRows \cap Accounts = CardAccounts
        /\ \A d \in Purchases : d \notin HeldRows /\ CardAccounts \cap Authorizations = {}
    BY <1>1 DEF HeldRows
  <1> QED
    BY <1>1, <1>2, <1>3, <1>4, <1>5, <1>6 DEF HeldRows

\* What a call of a card's may commit.
Idles == {l \in Standing(HeldRows) : l.own = {} /\ l.told = 0}

Derives(c, l) == l.draft[c].avail = Overdraft[c] - l.draft[c].bal - l.draft[c].held

Moves(c, l, b, h) ==
    /\ l.draft[c].bal = l.row[c].bal + b
    /\ l.draft[c].held = l.row[c].held + h

AtDoc(d, l, v, w) == l.was[d] = v /\ l.now[d] = w

Authorized(d) ==
    {l \in Standing(HeldRows) :
        /\ l.own = {CardOf[d], d} /\ AtDoc(d, l, Absent, "open") /\ l.told = 0
        /\ l.row[CardOf[d]].avail >= Stake[d]
        /\ Moves(CardOf[d], l, 0, Stake[d]) /\ Derives(CardOf[d], l)}
Charged1(d) ==
    {l \in Standing(HeldRows) :
        /\ l.own = {CardOf[d], d} /\ AtDoc(d, l, "open", "released") /\ l.told = Stake[d]
        /\ Moves(CardOf[d], l, Stake[d], -Stake[d]) /\ Derives(CardOf[d], l)}
Batched ==
    {l \in Standing(HeldRows) :
        /\ l.own \subseteq Authorizations /\ l.told = 0
        /\ \A d \in l.own : AtDoc(d, l, "captured", "settled")}
Repaid(c, n) ==
    {l \in Standing(HeldRows) :
        /\ l.own = {c} /\ l.told = -n /\ Moves(c, l, -n, 0) /\ Derives(c, l)}

CardEnd(t) ==
    IF t \notin CardTasks THEN Spared(HeldRows)
    ELSE LET c == CardCalls[t] IN
         CASE c.kind = "authorize" -> Authorized(c.auth)
           [] c.kind = "capture"   -> Charged1(c.auth)
           [] c.kind = "settle"    -> Batched
           [] c.kind = "payment"   -> Repaid(c.card, c.amt)

\* Where a call starts.
LEMMA FreshIdles == {Fresh(HeldRows)} \subseteq Idles
  <1>1. Fresh(HeldRows) \in Standing(HeldRows)
    <2>1. NoRow \in AccountRow
      BY DEF NoRow, AccountRow
    <2>2. NoEntries \in [Accounts -> Int]
      BY DEF NoEntries
    <2> QED
      BY <2>1, <2>2, CardTypes DEF Fresh, Standing
  <1> QED
    BY <1>1 DEF Fresh, Idles

\* The commit is about no card.
LEMMA CommitBeside == AllBeside(HeldRows, CommitIt)
  <1>1. Beside(HeldRows, Do("commit", NoOne, 0))
    BY CardTypes DEF Beside, Aside, Do, Stmt
  <1> QED
    BY <1>1, BesideOne DEF CommitIt

\* Nor is the leg of another account.
LEMMA LegBeside ==
    ASSUME NEW a, a \notin HeldRows, NEW n, NEW tag
    PROVE  AllBeside(HeldRows, Leg(a, n, tag))
  <1>1. Beside(HeldRows, Do("read", a, 0)) /\ Beside(HeldRows, Stmt("write", a, n, Blank, tag))
    BY DEF Beside, Aside, Do, Stmt
  <1> QED
    BY <1>1, BesideTwo DEF Leg

\* The core is told of n.
LEMMA ReceivableLeads ==
    ASSUME NEW n \in Int, NEW G, NEW H, G \in SUBSET Standing(HeldRows),
           \A l \in G, m \in Standing(HeldRows) :
               SameLocks(l, m) /\ m.told = l.told + n => m \in H
    PROVE  Leads(HeldRows, Receivable(n), G, H)
  <1> DEFINE s == Do("gl", NoOne, n)
  <1>1. s.op = "gl" /\ s.amt = n /\ s.tag # ByNet
    BY DEF Do, Stmt, Blank, ByNet
  <1> HIDE DEF s
  <1>2. ASSUME NEW l \in G, NEW m \in Standing(HeldRows), Does(HeldRows, s, l, m) PROVE m \in H
    <2>1. SameLocks(l, m) /\ m.told = l.told + AmountIn(s, l)
      BY <1>1, <1>2 DEF Does, AccountWrites, DocWrites
    <2>2. AmountIn(s, l) = n
      BY <1>1 DEF AmountIn
    <2> QED
      BY <2>1, <2>2
  <1>3. Leads(HeldRows, << s >>, G, H)
    BY <1>1, <1>2, LeadsByOne
  <1> QED
    BY <1>3 DEF Receivable, s
-----------------------------------------------------------------------------
\* A card and what a standing says of it.
LEMMA CardOfType ==
    ASSUME NEW c \in CardAccounts
    PROVE  /\ c \in HeldRows \cap Accounts /\ c \in Accounts /\ c \notin Docs
           /\ c \notin Authorizations /\ Overdraft[c] \in Int
           /\ \A l \in Standing(HeldRows) :
                /\ l.row[c] \in AccountRow /\ l.draft[c] \in AccountRow
                /\ l.told \in Int /\ l.net \in Int /\ l.seen \in Int
                /\ l.own \in SUBSET HeldRows
  BY CardTypes, RowsAssumption, NamesAssumption DEF Standing, HeldRows

\* authorize: the checks under the card's lock, the row, the hold.
LEMMA AuthorizeLeads ==
    ASSUME NEW k, NEW d \in Authorizations, k.auth = d, k.card = CardOf[d], k.amt = Stake[d]
    PROVE  Leads(HeldRows, Authorize(k), Idles, Authorized(d))
  <1> DEFINE c == CardOf[d]  n == Stake[d]  X == HeldRows
             G1 == {l \in Standing(X) : l.own = {c} /\ l.told = 0 /\ l.draft[c] = l.row[c]}
             G2 == {l \in G1 : l.row[c].avail >= n}
             G3 == {l \in Standing(X) : /\ l.own = {c, d} /\ AtDoc(d, l, Absent, "open") /\ l.told = 0
                                        /\ l.draft[c] = l.row[c] /\ l.row[c].avail >= n}
             G4 == {l \in Standing(X) : /\ l.own = {c, d} /\ AtDoc(d, l, Absent, "open") /\ l.told = 0
                                        /\ Moves(c, l, 0, n) /\ l.row[c].avail >= n}
             s1 == Do("lock", c, 0)  s2 == Do("funds", c, n)  s3 == OnDoc("insert", d, Absent, "open")
             s4 == Do("hold", c, n)  s5 == Do("recard", c, 0)
  <1>0. /\ c \in CardAccounts /\ n \in Nat /\ d \in X \cap Docs
    BY CardTypes
  <1>1. /\ s1.op = "lock" /\ s1.row = c /\ s2.op = "funds" /\ s2.row = c /\ s2.amt = n /\ s2.tag = Blank
        /\ s3.op = "insert" /\ s3.row = d /\ s3.was = Absent /\ s3.tag = "open"
        /\ s4.op = "hold" /\ s4.row = c /\ s4.amt = n /\ s4.tag = Blank
        /\ s5.op = "recard" /\ s5.row = c
    BY DEF Do, OnDoc, Stmt
  <1>2. Authorize(k) = << s1, s2, s3, s4, s5 >> \o CommitIt
    BY DEF Authorize
  <1> HIDE DEF c, n, s1, s2, s3, s4, s5
  <1>3. Leads(X, << s1 >>, Idles, G1)
    <2>1. ASSUME NEW l \in Idles, NEW m \in Standing(X), Does(X, s1, l, m) PROVE m \in G1
      BY <1>0, <1>1, <2>1, LockLeads, CardOfType DEF Idles, SameSums
    <2> QED
      BY <1>1, <2>1, LeadsByOne DEF Idles
  <1>4. Leads(X, << s2 >>, G1, G2)
    <2>1. ASSUME NEW l \in G1, NEW m \in Standing(X), Does(X, s2, l, m) PROVE m \in G2
      <3>1. m = l /\ l.draft[c].avail >= AmountIn(s2, l)
        BY <1>1, <2>1 DEF Does, AccountWrites, DocWrites
      <3>2. AmountIn(s2, l) = n
        BY <1>0, <1>1 DEF AmountIn, Blank, ByNet
      <3> QED
        BY <3>1, <3>2
    <2> QED
      BY <1>1, <2>1, LeadsByOne
  <1>5. Leads(X, << s3 >>, G2, G3)
    <2>1. ASSUME NEW l \in G2, NEW m \in Standing(X), Does(X, s3, l, m) PROVE m \in G3
      <3>1. d \notin l.own
        BY <1>0, CardTypes
      <3>2. /\ m.own = l.own \cup {d} /\ SameRows(l, m) /\ SameSums(l, m)
            /\ m.was[d] = Absent /\ m.now[d] = "open"
        BY <1>0, <1>1, <2>1, <3>1, MarkOne
      <3> QED
        BY <3>2 DEF SameRows, SameSums, AtDoc
    <2> QED
      BY <1>1, <2>1, LeadsByOne
  <1>6. Leads(X, << s4 >>, G3, G4)
    <2>1. ASSUME NEW l \in G3, NEW m \in Standing(X), Does(X, s4, l, m) PROVE m \in G4
      <3>1. /\ m.own = l.own /\ SameDocs(l, m) /\ SameSums(l, m)
            /\ m.row[c] = l.row[c] /\ m.draft[c] = RowAfter(s4, l, l.draft[c])
        BY <1>0, <1>1, <2>1, CardOfType, ChangeOwned DEF AccountWrites
      <3>2. RowAfter(s4, l, l.draft[c]) = [l.draft[c] EXCEPT !.held = @ + n]
        BY <1>0, <1>1 DEF RowAfter, AmountIn, Blank, ByNet
      <3>3. l.draft[c] \in AccountRow /\ l.row[c] \in AccountRow
        BY <1>0, CardOfType
      <3>4. Moves(c, m, 0, n)
        BY <1>0, <3>1, <3>2, <3>3 DEF Moves, AccountRow
      <3> QED
        BY <3>1, <3>4 DEF SameDocs, SameSums, AtDoc
    <2> QED
      BY <1>1, <2>1, LeadsByOne
  <1>7. Leads(X, << s5 >>, G4, Authorized(d))
    <2>1. ASSUME NEW l \in G4, NEW m \in Standing(X), Does(X, s5, l, m) PROVE m \in Authorized(d)
      <3>1. /\ m.own = l.own /\ SameDocs(l, m) /\ SameSums(l, m)
            /\ m.row[c] = l.row[c] /\ m.draft[c] = RowAfter(s5, l, l.draft[c])
        BY <1>0, <1>1, <2>1, CardOfType, ChangeOwned DEF AccountWrites
      <3>2. RowAfter(s5, l, l.draft[c])
              = [l.draft[c] EXCEPT !.avail = Overdraft[c] - l.draft[c].bal - l.draft[c].held]
        BY <1>0, <1>1 DEF RowAfter
      <3>3. l.draft[c] \in AccountRow /\ l.row[c] \in AccountRow
        BY <1>0, CardOfType
      <3>4. Moves(c, m, 0, n) /\ Derives(c, m)
        BY <1>0, <3>1, <3>2, <3>3 DEF Moves, AccountRow, Derives
      <3> QED
        BY <3>1, <3>4 DEF SameDocs, SameSums, AtDoc, Authorized, c, n
    <2> QED
      BY <1>1, <2>1, LeadsByOne
  <1>8. Leads(X, CommitIt, Authorized(d), Authorized(d))
    <2>1. OfLocksAndTold(X, Authorized(d))
      <3>1. ASSUME NEW l \in Authorized(d), NEW m \in Standing(X), SameLocks(l, m), m.told = l.told
            PROVE  m \in Authorized(d)
        BY <3>1 DEF Authorized, SameLocks, SameDocs, SameRows, AtDoc, Moves, Derives
      <3> QED
        BY <3>1 DEF OfLocksAndTold, Authorized
    <2> QED
      BY <2>1, CommitBeside, AllBesideLeads
  <1> DEFINE F == Idles  H == Authorized(d)
  <1> HIDE DEF X, F, G1, G2, G3, G4, H
  <1>9. Leads(X, << s1 >> \o (<< s2 >> \o (<< s3 >> \o (<< s4 >> \o << s5 >>))), F, H)
    BY <1>3, <1>4, <1>5, <1>6, <1>7, LeadsOn DEF F, H
  <1>10. Leads(X, << s1, s2, s3, s4, s5 >>, F, H)
    <2> DEFINE u == << s1, s2, s3, s4, s5 >>
               v == << s1 >> \o (<< s2 >> \o (<< s3 >> \o (<< s4 >> \o << s5 >>)))
    <2>1. u = v
      BY FiveOnes
    <2>2. Leads(X, v, F, H)
      BY <1>9
    <2> HIDE DEF u, v
    <2>3. Leads(X, u, F, H)
      BY <2>1, <2>2
    <2> QED
      BY <2>3 DEF u
  <1>11. Leads(X, CommitIt, H, H)
    BY <1>8 DEF H
  <1>12. Leads(X, Authorize(k), F, H)
    BY <1>2, <1>10, <1>11, LeadsOn
  <1> QED
    BY <1>12 DEF F, H, X
-----------------------------------------------------------------------------
\* A statement that changes the draft of card c, locked, to y.
Redrafts(c, l, m, y) ==
    /\ m.own = l.own /\ SameDocs(l, m) /\ m.told = l.told
    /\ m.row[c] = l.row[c] /\ m.draft[c] = y

\* A leg of a locked card: the trigger adds to the balance it has read.
LEMMA CardLegLeads ==
    ASSUME NEW c \in CardAccounts, NEW n \in Int, NEW G \in SUBSET Standing(HeldRows),
           \A l \in G : c \in l.own, NEW H,
           \A l \in G, m \in Standing(HeldRows) :
               Redrafts(c, l, m, [l.draft[c] EXCEPT !.bal = @ + n]) => m \in H
    PROVE  Leads(HeldRows, Leg(c, n, Blank), G, H)
  <1> DEFINE X == HeldRows  s == Do("read", c, 0)  t == Stmt("write", c, n, Blank, Blank)
             M == {m \in Standing(X) :
                     \E l \in G : SameLocks(l, m) /\ m.told = l.told /\ m.seen = l.draft[c].bal}
  <1>1. s.op = "read" /\ s.row = c /\ t.op = "write" /\ t.row = c /\ t.amt = n /\ t.tag = Blank
    BY DEF Do, Stmt
  <1>2. Leg(c, n, Blank) = << s >> \o << t >>
    BY TwoOnes DEF Leg
  <1> HIDE DEF s, t
  <1>3. Leads(X, << s >>, G, M)
    <2>1. ASSUME NEW l \in G, NEW m \in Standing(X), Does(X, s, l, m) PROVE m \in M
      BY <1>1, <2>1 DEF Does, AccountWrites, DocWrites, SameSums
    <2> HIDE DEF M
    <2> QED
      BY <1>1, <2>1, LeadsByOne
  <1>4. Leads(X, << t >>, M, H)
    <2>1. ASSUME NEW k \in M, NEW m \in Standing(X), Does(X, t, k, m) PROVE m \in H
      <3>1. PICK l \in G : SameLocks(l, k) /\ k.told = l.told /\ k.seen = l.draft[c].bal
        OBVIOUS
      <3>2. k \in Standing(X) /\ c \in k.own /\ l \in Standing(X)
        BY <3>1 DEF SameLocks
      <3>3. /\ m.own = k.own /\ SameDocs(k, m) /\ SameSums(k, m)
            /\ m.row[c] = k.row[c] /\ m.draft[c] = RowAfter(t, k, k.draft[c])
        BY <1>1, <2>1, <3>2, CardOfType, ChangeOwned DEF AccountWrites
      <3>4. RowAfter(t, k, k.draft[c]) = [k.draft[c] EXCEPT !.bal = k.seen + n]
        BY <1>1 DEF RowAfter, AmountIn, Blank, ByNet
      <3>5. k.draft = l.draft /\ k.row = l.row /\ k.own = l.own /\ SameDocs(l, k)
        BY <3>1 DEF SameLocks, SameRows
      <3>6. m.draft[c] = [l.draft[c] EXCEPT !.bal = l.draft[c].bal + n]
        BY <3>1, <3>3, <3>4, <3>5
      <3>7. Redrafts(c, l, m, [l.draft[c] EXCEPT !.bal = @ + n])
        BY <3>1, <3>3, <3>5, <3>6 DEF Redrafts, SameDocs, SameSums
      <3> QED
        BY <3>7
    <2>2. M \in SUBSET Standing(X)
      OBVIOUS
    <2> HIDE DEF M
    <2> QED
      BY <1>1, <2>1, <2>2, LeadsByOne
  <1> HIDE DEF M
  <1>5. Leads(X, << s >> \o << t >>, G, H)
    BY <1>3, <1>4, LeadsOn
  <1> QED
    BY <1>2, <1>5

\* A hold, or its release.
LEMMA HoldLeads ==
    ASSUME NEW c \in CardAccounts, NEW n \in Int, NEW G \in SUBSET Standing(HeldRows),
           \A l \in G : c \in l.own, NEW H,
           \A l \in G, m \in Standing(HeldRows) :
               Redrafts(c, l, m, [l.draft[c] EXCEPT !.held = @ + n]) => m \in H
    PROVE  Leads(HeldRows, << Do("hold", c, n) >>, G, H)
  <1> DEFINE X == HeldRows  t == Do("hold", c, n)
  <1>1. t.op = "hold" /\ t.row = c /\ t.amt = n /\ t.tag = Blank
    BY DEF Do, Stmt
  <1> HIDE DEF t
  <1>2. ASSUME NEW l \in G, NEW m \in Standing(X), Does(X, t, l, m) PROVE m \in H
    <2>1. /\ m.own = l.own /\ SameDocs(l, m) /\ SameSums(l, m)
          /\ m.row[c] = l.row[c] /\ m.draft[c] = RowAfter(t, l, l.draft[c])
      BY <1>1, <1>2, CardOfType, ChangeOwned DEF AccountWrites
    <2>2. RowAfter(t, l, l.draft[c]) = [l.draft[c] EXCEPT !.held = @ + n]
      BY <1>1 DEF RowAfter, AmountIn, Blank, ByNet
    <2>3. Redrafts(c, l, m, [l.draft[c] EXCEPT !.held = @ + n])
      BY <2>1, <2>2 DEF Redrafts, SameSums
    <2> QED
      BY <2>3
  <1> QED
    BY <1>1, <1>2, LeadsByOne DEF t

\* The available credit is derived again.
LEMMA RecardLeads ==
    ASSUME NEW c \in CardAccounts, NEW G \in SUBSET Standing(HeldRows),
           \A l \in G : c \in l.own, NEW H,
           \A l \in G, m \in Standing(HeldRows) :
               Redrafts(c, l, m, [l.draft[c] EXCEPT !.avail =
                                    Overdraft[c] - l.draft[c].bal - l.draft[c].held]) => m \in H
    PROVE  Leads(HeldRows, << Do("recard", c, 0) >>, G, H)
  <1> DEFINE X == HeldRows  t == Do("recard", c, 0)
  <1>1. t.op = "recard" /\ t.row = c
    BY DEF Do, Stmt
  <1> HIDE DEF t
  <1>2. ASSUME NEW l \in G, NEW m \in Standing(X), Does(X, t, l, m) PROVE m \in H
    <2>1. /\ m.own = l.own /\ SameDocs(l, m) /\ SameSums(l, m)
          /\ m.row[c] = l.row[c] /\ m.draft[c] = RowAfter(t, l, l.draft[c])
      BY <1>1, <1>2, CardOfType, ChangeOwned DEF AccountWrites
    <2>2. RowAfter(t, l, l.draft[c])
              = [l.draft[c] EXCEPT !.avail = Overdraft[c] - l.draft[c].bal - l.draft[c].held]
      BY <1>1 DEF RowAfter
    <2>3. Redrafts(c, l, m, [l.draft[c] EXCEPT !.avail =
                                    Overdraft[c] - l.draft[c].bal - l.draft[c].held])
      BY <2>1, <2>2 DEF Redrafts, SameSums
    <2> QED
      BY <2>3
  <1> QED
    BY <1>1, <1>2, LeadsByOne DEF t

\* The lock of a card.
LEMMA CardLockLeads ==
    ASSUME NEW c \in CardAccounts, NEW G \in SUBSET Standing(HeldRows),
           \A l \in G : c \notin l.own, NEW H,
           \A l \in G, m \in Standing(HeldRows) :
               m.own = l.own \cup {c} /\ SameDocs(l, m) /\ m.told = l.told
                 /\ m.row[c] \in AccountRow /\ m.draft[c] = m.row[c] => m \in H
    PROVE  Leads(HeldRows, << Do("lock", c, 0) >>, G, H)
  <1> DEFINE X == HeldRows  t == Do("lock", c, 0)
  <1>1. t.op = "lock" /\ t.row = c
    BY DEF Do, Stmt
  <1> HIDE DEF t
  <1>2. ASSUME NEW l \in G, NEW m \in Standing(X), Does(X, t, l, m) PROVE m \in H
    <2>1. /\ m.own = l.own \cup {c} /\ SameDocs(l, m) /\ SameSums(l, m)
          /\ m.row[c] \in AccountRow /\ m.draft[c] = m.row[c]
      BY <1>1, <1>2, CardOfType, LockLeads
    <2> QED
      BY <2>1 DEF SameSums
  <1> QED
    BY <1>1, <1>2, LeadsByOne DEF t
-----------------------------------------------------------------------------
\* capture: the authorization is released, the charge posts, the hold goes.
LEMMA CaptureLeads ==
    ASSUME NEW k, NEW d \in Authorizations, k.auth = d, k.card = CardOf[d], k.amt = Stake[d],
           k.purchase \in Purchases
    PROVE  Leads(HeldRows, Capture(k), Idles, Charged1(d))
  <1> DEFINE c == CardOf[d]  n == Stake[d]  X == HeldRows
             G1 == {l \in Standing(X) : l.own = {d} /\ AtDoc(d, l, "open", "released") /\ l.told = 0}
             On(b, h) == {l \in Standing(X) :
                 /\ l.own = {c, d} /\ AtDoc(d, l, "open", "released") /\ l.told = 0 /\ Moves(c, l, b, h)}
             G2 == On(0, 0)  G3 == On(n, 0)  G4 == On(n, -n)
             G5 == {l \in G4 : Derives(c, l)}
             s1 == OnDoc("mark", d, "open", "released")
             s2 == Do("lock", c, 0)  s3 == Do("lock", Clearing, 0)
             s4 == OnDoc("insert", k.purchase, Absent, "captured")
             s5 == Do("hold", c, -n)  s6 == Do("recard", c, 0)
  <1>0. /\ c \in CardAccounts /\ n \in Nat /\ -n \in Int /\ n \in Int /\ 0 \in Int
        /\ d \in X \cap Docs /\ c # d
    BY CardTypes
  <1>1. /\ s1.op = "mark" /\ s1.row = d /\ s1.was = "open" /\ s1.tag = "released"
        /\ Beside(X, s3) /\ Beside(X, s4)
    BY CardTypes DEF Do, OnDoc, Stmt, Beside, Aside
  <1>2. /\ CaptureLocks(k) = << s2 >> \o << s3 >>
        /\ ReleaseHold(k) = << s5 >> \o << s6 >>
        /\ BookPurchase(k) = Receivable(n) \o Receivable(0)
    BY TwoOnes DEF CaptureLocks, ReleaseHold, BookPurchase
  <1>3. \A b, h : OfLocksAndTold(X, On(b, h))
    <2> SUFFICES ASSUME NEW b, NEW h PROVE OfLocksAndTold(X, On(b, h))
      OBVIOUS
    <2>1. ASSUME NEW l \in On(b, h), NEW m \in Standing(X), SameLocks(l, m), m.told = l.told
          PROVE  m \in On(b, h)
      BY <2>1 DEF SameLocks, SameDocs, SameRows, AtDoc, Moves
    <2> QED
      BY <2>1 DEF OfLocksAndTold
  <1>4. \A b, h : On(b, h) \in SUBSET Standing(X) /\ \A l \in On(b, h) : c \in l.own
    OBVIOUS
  <1> HIDE DEF c, n, s1, s3, s4
  <1>5. Leads(X, << s1 >>, Idles, G1)
    <2>1. ASSUME NEW l \in Idles, NEW m \in Standing(X), Does(X, s1, l, m) PROVE m \in G1
      <3>1. /\ m.own = l.own \cup {d} /\ SameSums(l, m)
            /\ m.was[d] = "open" /\ m.now[d] = "released"
        BY <1>0, <1>1, <2>1, MarkOne DEF Idles
      <3> QED
        BY <3>1 DEF SameSums, AtDoc, Idles
    <2> QED
      BY <1>1, <2>1, LeadsByOne DEF Idles
  <1>6. Leads(X, << s2 >>, G1, G2)
    <2>1. ASSUME NEW l \in G1, NEW m \in Standing(X),
                 m.own = l.own \cup {c}, SameDocs(l, m), m.told = l.told,
                 m.row[c] \in AccountRow, m.draft[c] = m.row[c]
          PROVE  m \in G2
      <3>1. Moves(c, m, 0, 0)
        BY <2>1 DEF Moves, AccountRow
      <3> QED
        BY <2>1, <3>1 DEF SameDocs, AtDoc
    <2>2. G1 \in SUBSET Standing(X) /\ \A l \in G1 : c \notin l.own
      BY <1>0
    <2> HIDE DEF G1, G2
    <2> QED
      BY <1>0, <2>1, <2>2, CardLockLeads
  <1>7. Leads(X, << s3 >>, G2, G2) /\ Leads(X, << s4 >>, G2, G2)
    BY <1>1, <1>3, BesideOne, AllBesideLeads
  <1>8. Leads(X, Leg(c, n, Blank), G2, G3)
    <2>1. ASSUME NEW l \in G2, NEW m \in Standing(X),
                 Redrafts(c, l, m, [l.draft[c] EXCEPT !.bal = @ + n])
          PROVE  m \in G3
      <3>1. l.draft[c] \in AccountRow /\ l.row[c] \in AccountRow
        BY <1>0, CardOfType
      <3>2. Moves(c, m, n, 0)
        BY <1>0, <2>1, <3>1 DEF Redrafts, Moves, AccountRow
      <3> QED
        BY <2>1, <3>2 DEF Redrafts, SameDocs, AtDoc
    <2> HIDE DEF On
    <2> QED
      BY <1>0, <1>4, <2>1, CardLegLeads
  <1>9. Leads(X, Leg(Clearing, -n, Blank), G3, G3)
    <2> HIDE DEF On
    <2>1. AllBeside(X, Leg(Clearing, -n, Blank))
      BY CardTypes, LegBeside
    <2>2. OfLocksAndTold(X, G3)
      BY <1>3
    <2> QED
      BY <2>1, <2>2, AllBesideLeads
  <1>10. Leads(X, << s5 >>, G3, G4)
    <2>1. ASSUME NEW l \in G3, NEW m \in Standing(X),
                 Redrafts(c, l, m, [l.draft[c] EXCEPT !.held = @ + (-n)])
          PROVE  m \in G4
      <3>1. l.draft[c] \in AccountRow /\ l.row[c] \in AccountRow
        BY <1>0, CardOfType
      <3>2. Moves(c, m, n, -n)
        BY <1>0, <2>1, <3>1 DEF Redrafts, Moves, AccountRow
      <3> QED
        BY <2>1, <3>2 DEF Redrafts, SameDocs, AtDoc
    <2> HIDE DEF On
    <2> QED
      BY <1>0, <1>4, <2>1, HoldLeads
  <1>11. Leads(X, << s6 >>, G4, G5)
    <2>1. ASSUME NEW l \in G4, NEW m \in Standing(X),
                 Redrafts(c, l, m, [l.draft[c] EXCEPT !.avail =
                                      Overdraft[c] - l.draft[c].bal - l.draft[c].held])
          PROVE  m \in G5
      <3>1. l.draft[c] \in AccountRow /\ l.row[c] \in AccountRow
        BY <1>0, CardOfType
      <3>2. Moves(c, m, n, -n) /\ Derives(c, m)
        BY <1>0, <2>1, <3>1 DEF Redrafts, Moves, AccountRow, Derives
      <3> QED
        BY <2>1, <3>2 DEF Redrafts, SameDocs, AtDoc
    <2>2. G4 \in SUBSET Standing(X) /\ \A l \in G4 : c \in l.own
      BY <1>4
    <2> HIDE DEF On, G5, G4
    <2> QED
      BY <1>0, <2>1, <2>2, RecardLeads
  <1> DEFINE H == Charged1(d)
  <1>12. Leads(X, Receivable(n), G5, H)
    <2>1. ASSUME NEW l \in G5, NEW m \in Standing(X), SameLocks(l, m), m.told = l.told + n
          PROVE  m \in H
      BY <1>0, <2>1 DEF SameLocks, SameDocs, SameRows, AtDoc, Moves, Derives, Charged1, c, n
    <2>2. G5 \in SUBSET Standing(X)
      OBVIOUS
    <2> HIDE DEF G5, H
    <2> QED
      BY <1>0, <2>1, <2>2, ReceivableLeads
  <1>13. Leads(X, Receivable(0), H, H)
    <2>1. ASSUME NEW l \in H, NEW m \in Standing(X), SameLocks(l, m), m.told = l.told + 0
          PROVE  m \in H
      <3>1. m.told = l.told
        BY <1>0, <2>1, CardOfType DEF Charged1
      <3> QED
        BY <2>1, <3>1 DEF SameLocks, SameDocs, SameRows, AtDoc, Moves, Derives, Charged1
    <2>2. H \in SUBSET Standing(X)
      BY DEF Charged1
    <2> HIDE DEF H
    <2> QED
      BY <1>0, <2>1, <2>2, ReceivableLeads
  <1>14. Leads(X, CommitIt, H, H)
    <2>1. OfLocksAndTold(X, H)
      <3>1. ASSUME NEW l \in H, NEW m \in Standing(X), SameLocks(l, m), m.told = l.told
            PROVE  m \in H
        BY <3>1 DEF Charged1, SameLocks, SameDocs, SameRows, AtDoc, Moves, Derives
      <3> QED
        BY <3>1 DEF OfLocksAndTold, Charged1
    <2> QED
      BY <2>1, CommitBeside, AllBesideLeads
  <1> DEFINE F == Idles
             p1 == << s1 >>  p2 == CaptureLocks(k)  p3 == << s4 >>  p4 == Leg(c, n, Blank)
             p5 == Leg(Clearing, -n, Blank)  p6 == ReleaseHold(k)  p7 == BookPurchase(k)
             p8 == CommitIt
  <1>15. Capture(k) = p1 \o p2 \o p3 \o p4 \o p5 \o p6 \o p7 \o p8
    BY DEF Capture, c, n, s1, s4
  <1> HIDE DEF X, F, G1, G2, G3, G4, G5, H, On, s2, s6, s5
  <1>16. /\ Leads(X, << s2 >> \o << s3 >>, G1, G2)
         /\ Leads(X, << s5 >> \o << s6 >>, G3, G5)
         /\ Leads(X, Receivable(n) \o Receivable(0), G5, H)
    BY <1>6, <1>7, <1>10, <1>11, <1>12, <1>13, LeadsOn
  <1>17. Leads(X, p2, G1, G2) /\ Leads(X, p6, G3, G5) /\ Leads(X, p7, G5, H)
    BY <1>2, <1>16
  <1>18. Leads(X, p1, F, G1) /\ Leads(X, p3, G2, G2) /\ Leads(X, p4, G2, G3) /\ Leads(X, p5, G3, G3)
         /\ Leads(X, p8, H, H)
    BY <1>5, <1>7, <1>8, <1>9, <1>14 DEF F
  <1> HIDE DEF p1, p2, p3, p4, p5, p6, p7, p8
  <1>19. Leads(X, p1 \o p2 \o p3, F, G2)
    BY <1>17, <1>18, LeadsOn
  <1>20. Leads(X, p1 \o p2 \o p3 \o p4 \o p5, F, G3)
    BY <1>18, <1>19, LeadsOn
  <1>21. Leads(X, p1 \o p2 \o p3 \o p4 \o p5 \o p6, F, G5)
    BY <1>17, <1>20, LeadsOn
  <1>22. Leads(X, p1 \o p2 \o p3 \o p4 \o p5 \o p6 \o p7 \o p8, F, H)
    BY <1>17, <1>18, <1>21, LeadsOn
  <1> QED
    BY <1>15, <1>22 DEF X, F, H
-----------------------------------------------------------------------------
\* Nothing told, and what the core is told of is nothing.
LEMMA ToldNothing ==
    ASSUME NEW G, OfLocksAndTold(HeldRows, G)
    PROVE  Leads(HeldRows, Receivable(0), G, G)
  <1>1. ASSUME NEW l \in G, NEW m \in Standing(HeldRows), SameLocks(l, m), m.told = l.told + 0
        PROVE  m \in G
    <2>1. l \in Standing(HeldRows) /\ l.told \in Int
      BY DEF OfLocksAndTold, Standing
    <2>2. m.told = l.told
      BY <1>1, <2>1
    <2> QED
      BY <1>1, <2>2 DEF OfLocksAndTold
  <1>2. 0 \in Int /\ G \in SUBSET Standing(HeldRows)
    BY DEF OfLocksAndTold
  <1> QED
    BY <1>1, <1>2, ReceivableLeads

\* settle: it tags purchases, which are no authorizations, and no card is in it.
LEMMA SettleCardsLeads ==
    ASSUME NEW k
    PROVE  Leads(HeldRows, Settle(k), Idles, Batched)
  <1> DEFINE X == HeldRows  F == Idles  H == Batched
             s1 == Do("lock", Clearing, 0)  s2 == Do("lock", Bank, 0)  s3 == Do("net", Clearing, 0)
             s4 == Stmt("sweep", NoOne, 0, "captured", "settled")
  <1>1. /\ Beside(X, s1) /\ Beside(X, s2) /\ Beside(X, s3)
        /\ s4.op = "sweep" /\ s4.was = "captured" /\ s4.tag = "settled"
    BY CardTypes DEF Do, Stmt, Beside, Aside
  <1>2. OfLocksAndTold(X, F)
    BY DEF OfLocksAndTold, Idles, SameLocks
  <1>3. OfLocksAndTold(X, H)
    BY DEF OfLocksAndTold, Batched, SameLocks, SameDocs, AtDoc
  <1>4. AllBeside(X, NetClearing(k)) /\ AllBeside(X, CommitIt)
    <2> HIDE DEF s1, s2, s3, X
    <2>1. AllBeside(X, << s1, s2, s3 >>)
      BY <1>1, BesideThree
    <2> QED
      BY <2>1, CommitBeside DEF NetClearing, s1, s2, s3, X
  <1>5. AllBeside(X, Leg(Clearing, 1, ByNet)) /\ AllBeside(X, Leg(Bank, -1, ByNet))
    BY CardTypes, LegBeside
  <1> HIDE DEF s4
  <1>6. Leads(X, << s4 >>, F, H)
    <2>1. ASSUME NEW l \in F, NEW m \in Standing(X), Does(X, s4, l, m) PROVE m \in H
      <3>1. Sweeps(X, s4, l, m)
        BY <1>1, <2>1 DEF Does, AccountWrites, DocWrites
      <3>2. PICK W \in SUBSET (X \cap Docs) :
              /\ m.own = l.own \cup W
              /\ m.was = [d \in X \cap Docs |-> IF d \in W THEN s4.was ELSE l.was[d]]
              /\ m.now = [d \in X \cap Docs |-> IF d \in W THEN s4.tag ELSE l.now[d]]
              /\ SameSums(l, m)
        BY <3>1 DEF Sweeps
      <3>3. W \subseteq Authorizations /\ \A d \in W : AtDoc(d, m, "captured", "settled")
        BY <1>1, <3>2, CardTypes DEF AtDoc
      <3> QED
        BY <3>2, <3>3 DEF Batched, Idles, SameSums
    <2> QED
      BY <1>1, <2>1, LeadsByOne DEF Idles
  <1> DEFINE p1 == NetClearing(k)  p2 == Leg(Clearing, 1, ByNet)  p3 == Leg(Bank, -1, ByNet)
             p4 == << s4 >>  p5 == Receivable(0)  p6 == CommitIt
  <1> HIDE DEF F, H
  <1>7. /\ Leads(X, p1, F, F) /\ Leads(X, p2, F, F) /\ Leads(X, p3, F, F)
        /\ Leads(X, p5, H, H) /\ Leads(X, p6, H, H)
    BY <1>2, <1>3, <1>4, <1>5, AllBesideLeads, ToldNothing
  <1>8. Settle(k) = p1 \o p2 \o p3 \o p4 \o p5 \o p6
    BY DEF Settle, s4
  <1>9. Leads(X, p4, F, H)
    BY <1>6
  <1> HIDE DEF X, p1, p2, p3, p4, p5, p6
  <1>10. Leads(X, p1 \o p2 \o p3 \o p4, F, H)
    BY <1>7, <1>9, LeadsOn
  <1>11. Leads(X, p1 \o p2 \o p3 \o p4 \o p5 \o p6, F, H)
    BY <1>7, <1>10, LeadsOn
  <1> QED
    BY <1>8, <1>11 DEF X, F, H

\* pay_credit_card: the card's balance falls, and the core is told of as much.
LEMMA PayCardLeads ==
    ASSUME NEW k, NEW c \in CardAccounts, k.card = c, NEW n \in Int, k.amt = n,
           k.from \in Accounts \ CardAccounts
    PROVE  Leads(HeldRows, PayCard(k), Idles, Repaid(c, n))
  <1> DEFINE X == HeldRows  a == k.from
             On(b, h) == {l \in Standing(X) : l.own = {c} /\ l.told = 0 /\ Moves(c, l, b, h)}
             G1 == On(0, 0)  G2 == On(-n, 0)  G3 == {l \in G2 : Derives(c, l)}
             F == Idles  H == Repaid(c, n)
             s1 == Do("lock", a, 0)  s2 == Do("lock", c, 0)
             s3 == Do("funds", a, n)  s4 == OnMeter("limit", a, n, "withdrawal")  s5 == Do("floor", a, 0)
             s6 == Do("recompute", a, 0)  s7 == Do("recard", c, 0)
             s8 == OnMeter("use", a, n, "withdrawal")
  <1>0. /\ c \in X \cap Accounts /\ -n \in Int /\ a \notin X
    BY CardTypes, NamesAssumption, CardCallsAssumption DEF HeldRows
  <1>1. /\ Beside(X, s1) /\ Beside(X, s3) /\ Beside(X, s4) /\ Beside(X, s5)
        /\ Beside(X, s6) /\ Beside(X, s8)
    BY <1>0 DEF Do, OnMeter, Stmt, Beside, Aside
  <1>2. \A b, h : OfLocksAndTold(X, On(b, h))
    <2> SUFFICES ASSUME NEW b, NEW h PROVE OfLocksAndTold(X, On(b, h))
      OBVIOUS
    <2>1. ASSUME NEW l \in On(b, h), NEW m \in Standing(X), SameLocks(l, m), m.told = l.told
          PROVE  m \in On(b, h)
      BY <2>1 DEF SameLocks, SameRows, Moves
    <2> QED
      BY <2>1 DEF OfLocksAndTold
  <1>3. \A b, h : On(b, h) \in SUBSET Standing(X) /\ \A l \in On(b, h) : c \in l.own
    OBVIOUS
  <1>4. OfLocksAndTold(X, F)
    BY DEF OfLocksAndTold, Idles, SameLocks
  <1>5. OfLocksAndTold(X, G3)
    <2>1. ASSUME NEW l \in G3, NEW m \in Standing(X), SameLocks(l, m), m.told = l.told
          PROVE  m \in G3
      BY <2>1 DEF SameLocks, SameRows, Moves, Derives
    <2> QED
      BY <2>1 DEF OfLocksAndTold
  <1>6. OfLocksAndTold(X, H)
    <2>1. ASSUME NEW l \in H, NEW m \in Standing(X), SameLocks(l, m), m.told = l.told
          PROVE  m \in H
      BY <2>1 DEF Repaid, SameLocks, SameRows, Moves, Derives
    <2> QED
      BY <2>1 DEF OfLocksAndTold, Repaid
  <1>7. Leads(X, << s2 >>, F, G1)
    <2>1. ASSUME NEW l \in Idles, NEW m \in Standing(X),
                 m.own = l.own \cup {c}, SameDocs(l, m), m.told = l.told,
                 m.row[c] \in AccountRow, m.draft[c] = m.row[c]
          PROVE  m \in G1
      <3>1. Moves(c, m, 0, 0)
        BY <2>1 DEF Moves, AccountRow
      <3> QED
        BY <2>1, <3>1 DEF Idles
    <2>2. F \in SUBSET Standing(X) /\ \A l \in F : c \notin l.own
      BY DEF Idles
    <2> HIDE DEF On
    <2> QED
      BY <2>1, <2>2, CardLockLeads
  <1>8. Leads(X, Leg(c, -n, Blank), G1, G2)
    <2>1. ASSUME NEW l \in G1, NEW m \in Standing(X),
                 Redrafts(c, l, m, [l.draft[c] EXCEPT !.bal = @ + (-n)])
          PROVE  m \in G2
      <3>1. l.draft[c] \in AccountRow /\ l.row[c] \in AccountRow
        BY CardOfType
      <3>2. Moves(c, m, -n, 0)
        BY <1>0, <2>1, <3>1 DEF Redrafts, Moves, AccountRow
      <3> QED
        BY <2>1, <3>2 DEF Redrafts
    <2> HIDE DEF On
    <2> QED
      BY <1>0, <1>3, <2>1, CardLegLeads
  <1>9. Leads(X, << s7 >>, G2, G3)
    <2>1. ASSUME NEW l \in G2, NEW m \in Standing(X),
                 Redrafts(c, l, m, [l.draft[c] EXCEPT !.avail =
                                      Overdraft[c] - l.draft[c].bal - l.draft[c].held])
          PROVE  m \in G3
      <3>1. l.draft[c] \in AccountRow /\ l.row[c] \in AccountRow
        BY CardOfType
      <3>2. Moves(c, m, -n, 0) /\ Derives(c, m)
        BY <1>0, <2>1, <3>1 DEF Redrafts, Moves, AccountRow, Derives
      <3> QED
        BY <2>1, <3>2 DEF Redrafts
    <2>2. G2 \in SUBSET Standing(X) /\ \A l \in G2 : c \in l.own
      BY <1>3
    <2> HIDE DEF On, G2, G3
    <2> QED
      BY <2>1, <2>2, RecardLeads
  <1>10. Leads(X, Receivable(-n), G3, H)
    <2>1. ASSUME NEW l \in G3, NEW m \in Standing(X), SameLocks(l, m), m.told = l.told + (-n)
          PROVE  m \in H
      BY <1>0, <2>1 DEF SameLocks, SameRows, Moves, Derives, Repaid
    <2>2. G3 \in SUBSET Standing(X)
      OBVIOUS
    <2> HIDE DEF G3, H
    <2> QED
      BY <1>0, <2>1, <2>2, ReceivableLeads
  <1>11. Leads(X, CommitIt, H, H)
    BY <1>6, CommitBeside, AllBesideLeads
  <1> DEFINE r1 == << s1 >>  r2 == << s2 >>  r6 == << s6 >>  r7 == << s7 >>  r8 == << s8 >>
             p1 == IF IdOrder[k.from] < IdOrder[k.card] THEN << s1, s2 >> ELSE << s2, s1 >>
             p2 == << s3, s4, s5 >>  p3 == Leg(a, -n, Blank)  p4 == Leg(c, -n, Blank)
             p5 == Leg(Clearing, 2 * n, Blank)  p6 == << s6, s7, s8 >>
             p7 == Receivable(-n)  p8 == CommitIt
  <1>12. PayCard(k) = p1 \o p2 \o p3 \o p4 \o p5 \o p6 \o p7 \o p8
    BY DEF PayCard
  <1>13. << s1, s2 >> = r1 \o r2 /\ << s2, s1 >> = r2 \o r1 /\ p6 = r6 \o (r7 \o r8)
    BY TwoOnes, ThreeOnes, SMTT(30)
  <1>14. AllBeside(X, p2) /\ AllBeside(X, p3) /\ AllBeside(X, p5)
         /\ AllBeside(X, r1) /\ AllBeside(X, r6) /\ AllBeside(X, r8)
    <2>1. AllBeside(X, p3) /\ AllBeside(X, p5)
      BY <1>0, CardTypes, LegBeside
    <2> HIDE DEF s1, s3, s4, s5, s6, s8
    <2> QED
      BY <1>1, <2>1, BesideOne, BesideThree
  <1>15. OfLocksAndTold(X, G1) /\ OfLocksAndTold(X, G2)
    <2> HIDE DEF On
    <2> QED
      BY <1>2
  <1>16. Leads(X, r2, F, G1) /\ Leads(X, r7, G2, G3) /\ Leads(X, p4, G1, G2)
         /\ Leads(X, p7, G3, H) /\ Leads(X, p8, H, H)
    BY <1>7, <1>8, <1>9, <1>10, <1>11
  <1>17. p1 = r1 \o r2 \/ p1 = r2 \o r1
    BY <1>13
  <1> HIDE DEF On, X, F, G1, G2, G3, H, r1, r2, r6, r7, r8, p1, p2, p3, p4, p5, p6, p7, p8
  <1>18. Leads(X, r1, F, F) /\ Leads(X, r1, G1, G1)
    BY <1>4, <1>14, <1>15, AllBesideLeads
  <1>19. Leads(X, r1 \o r2, F, G1) /\ Leads(X, r2 \o r1, F, G1)
    BY <1>16, <1>18, LeadsOn
  <1>20. Leads(X, p1, F, G1)
    BY <1>17, <1>19
  <1>21. Leads(X, p2, G1, G1) /\ Leads(X, p3, G1, G1) /\ Leads(X, p5, G2, G2)
         /\ Leads(X, r6, G2, G2) /\ Leads(X, r8, G3, G3)
    BY <1>5, <1>14, <1>15, AllBesideLeads
  <1>22. Leads(X, r6 \o (r7 \o r8), G2, G3)
    BY <1>16, <1>21, LeadsOn
  <1>23. Leads(X, p6, G2, G3)
    BY <1>13, <1>22
  <1>24. Leads(X, p1 \o p2 \o p3 \o p4, F, G2)
    BY <1>16, <1>20, <1>21, LeadsOn
  <1>25. Leads(X, p1 \o p2 \o p3 \o p4 \o p5 \o p6, F, G3)
    BY <1>21, <1>23, <1>24, LeadsOn
  <1>26. Leads(X, p1 \o p2 \o p3 \o p4 \o p5 \o p6 \o p7 \o p8, F, H)
    BY <1>16, <1>25, LeadsOn
  <1> QED
    BY <1>12, <1>26 DEF X, F, H
-----------------------------------------------------------------------------
\* The calls of other rails leave the cards and their authorizations alone.  The
\* code does not see to that everywhere: repay_loan (loans.rs:384-405) takes a
\* credit card as the account that pays, and then updates its row.
CardsApart == \A t \in Tasks \ CardTasks : KeepsOff(HeldRows, t)

\* The call of a task.
LEMMA CardCallFields ==
    ASSUME NEW t \in CardTasks
    PROVE  LET c == CardCalls[t] IN
           /\ t \in Tasks /\ Script[t] = CardScript(c)
           /\ c.kind \in {"authorize", "capture", "settle", "payment"}
           /\ c.auth \in Authorizations /\ c.purchase \in Purchases /\ c.card \in CardAccounts
           /\ c.amt \in Int /\ c.from \in Accounts
           /\ c.kind \in {"authorize", "capture"} => c.card = CardOf[c.auth] /\ c.amt = Stake[c.auth]
           /\ c.kind = "payment" => c.from \notin CardAccounts
  BY CardCallsAssumption, CardScriptsAssumption DEF CardCall

\* How the script of each task ends.
LEMMA CardsEnd ==
    ASSUME CardsApart, NEW t \in Tasks
    PROVE  EndsIn(HeldRows, t, CardEnd(t))
  <1>1. CASE t \notin CardTasks
    <2>1. KeepsOff(HeldRows, t) /\ HeldRows \in SUBSET Rows
      BY <1>1, CardTypes DEF CardsApart
    <2>2. Fresh(HeldRows) \in Standing(HeldRows)
      BY FreshIdles DEF Idles
    <2> QED
      BY <1>1, <2>1, <2>2, SparedEnds DEF CardEnd
  <1>2. CASE t \in CardTasks
    <2> DEFINE c == CardCalls[t]  X == HeldRows  H == CardEnd(t)
    <2>1. /\ Script[t] = CardScript(c)
          /\ c.kind \in {"authorize", "capture", "settle", "payment"}
          /\ c.auth \in Authorizations /\ c.purchase \in Purchases /\ c.card \in CardAccounts
          /\ c.amt \in Int /\ c.from \in Accounts
          /\ c.kind \in {"authorize", "capture"} => c.card = CardOf[c.auth] /\ c.amt = Stake[c.auth]
          /\ c.kind = "payment" => c.from \notin CardAccounts
      BY <1>2, CardCallFields
    <2>2. H = CASE c.kind = "authorize" -> Authorized(c.auth)
                [] c.kind = "capture"   -> Charged1(c.auth)
                [] c.kind = "settle"    -> Batched
                [] c.kind = "payment"   -> Repaid(c.card, c.amt)
      BY <1>2 DEF CardEnd
    <2> HIDE DEF c, H
    <2>7. Leads(X, CardScript(c), Idles, H)
      <3>3. CASE c.kind = "authorize"
        <4>1. Leads(X, Authorize(c), Idles, Authorized(c.auth))
          BY <2>1, <3>3, AuthorizeLeads
        <4>2. CardScript(c) = Authorize(c) /\ H = Authorized(c.auth)
          BY <2>2, <3>3 DEF CardScript
        <4> QED
          BY <4>1, <4>2
      <3>4. CASE c.kind = "capture"
        <4>1. Leads(X, Capture(c), Idles, Charged1(c.auth))
          BY <2>1, <3>4, CaptureLeads
        <4>2. CardScript(c) = Capture(c) /\ H = Charged1(c.auth)
          BY <2>2, <3>4 DEF CardScript
        <4> QED
          BY <4>1, <4>2
      <3>5. CASE c.kind = "settle"
        <4>1. Leads(X, Settle(c), Idles, Batched)
          BY SettleCardsLeads
        <4>2. CardScript(c) = Settle(c) /\ H = Batched
          BY <2>2, <3>5 DEF CardScript
        <4> QED
          BY <4>1, <4>2
      <3>6. CASE c.kind = "payment"
        <4>1. Leads(X, PayCard(c), Idles, Repaid(c.card, c.amt))
          BY <2>1, <3>6, PayCardLeads
        <4>2. CardScript(c) = PayCard(c) /\ H = Repaid(c.card, c.amt)
          BY <2>2, <3>6 DEF CardScript
        <4> QED
          BY <4>1, <4>2
      <3> QED
        BY <2>1, <3>3, <3>4, <3>5, <3>6
    <2>8. Leads(X, CardScript(c), {Fresh(X)}, H)
      <3> HIDE DEF X
      <3>1. {Fresh(X)} \subseteq Idles
        BY FreshIdles DEF X
      <3> QED
        BY <2>7, <3>1, LeadsAlso
    <2> QED
      BY <2>1, <2>8 DEF EndsIn, H
  <1> QED
    BY <1>1, <1>2

-----------------------------------------------------------------------------
(* What a commit does to the cards. *)

\* The balance and the holds of card c move, and no other card's.
Shifts(c, b, h) ==
    /\ row'[c].bal = row[c].bal + b /\ row'[c].held = row[c].held + h
    /\ row'[c].avail = Overdraft[c] - row'[c].bal - row'[c].held
    /\ \A a \in CardAccounts \ {c} : row'[a] = row[a]
Turns(d, v, w) ==
    /\ doc[d] = v /\ doc'[d] = w
    /\ \A e \in Authorizations \ {d} : doc'[e] = doc[e]

Grants(r) ==
    LET c == CardCalls[task[r]] IN
        /\ task[r] \in CardTasks /\ c.kind = "authorize" /\ c.auth \in Authorizations
        /\ row[CardOf[c.auth]].avail >= Stake[c.auth]
        /\ Turns(c.auth, Absent, "open") /\ Shifts(CardOf[c.auth], 0, Stake[c.auth]) /\ gl[r] = 0
Charges(r) ==
    LET c == CardCalls[task[r]] IN
        /\ task[r] \in CardTasks /\ c.kind = "capture" /\ c.auth \in Authorizations
        /\ Turns(c.auth, "open", "released")
        /\ Shifts(CardOf[c.auth], Stake[c.auth], -Stake[c.auth]) /\ gl[r] = Stake[c.auth]
Tags(r) ==
    /\ task[r] \in CardTasks => CardCalls[task[r]].kind = "settle" /\ gl[r] = 0
    /\ \A d \in Authorizations : doc'[d] # doc[d] => doc[d] = "captured" /\ doc'[d] = "settled"
    /\ \A c \in CardAccounts : row'[c] = row[c]
Pays(r) ==
    LET c == CardCalls[task[r]] IN
        /\ task[r] \in CardTasks /\ c.kind = "payment" /\ c.card \in CardAccounts /\ c.amt \in Nat
        /\ \A d \in Authorizations : doc'[d] = doc[d]
        /\ Shifts(c.card, -c.amt, 0) /\ gl[r] = -c.amt

\* A commit grants, charges, tags or pays.
LEMMA CommitOnCards ==
    ASSUME CardsApart, NEW H, \A t \in Tasks : H[t] = CardEnd(t), StandsInv(HeldRows, H),
           NEW r \in Requests, Commit(r)
    PROVE  Grants(r) \/ Charges(r) \/ Tags(r) \/ Pays(r)
  <1> DEFINE X == HeldRows  l == StandingOf(X, r)  t == task[r]  k == CardCalls[t]
  <1>1. /\ t \in Tasks /\ l \in CardEnd(t)
        /\ \A d \in Authorizations :
             IF d \in l.own THEN doc[d] = l.was[d] /\ doc'[d] = l.now[d] ELSE doc'[d] = doc[d]
        /\ \A a \in CardAccounts :
             IF a \in l.own THEN row[a] = l.row[a] /\ row'[a] = l.draft[a] ELSE row'[a] = row[a]
    <2>1. \A u \in Tasks : EndsIn(X, u, H[u])
      BY CardsEnd
    <2> QED
      BY <2>1, CardTypes, CommitStands, SMTT(30)
  <1>2. l.told = gl[r]
    BY DEF StandingOf
  <1>3. CardAccounts \cap Authorizations = {}
    BY CardTypes
  <1> HIDE DEF l
  <1>4. CASE t \notin CardTasks
    <2>1. l.own = {}
      BY <1>1, <1>4 DEF CardEnd, Spared
    <2> QED
      BY <1>1, <1>4, <2>1 DEF Tags
  <1>5. CASE t \in CardTasks
    <2>1. /\ k.kind \in {"authorize", "capture", "settle", "payment"}
          /\ k.auth \in Authorizations /\ k.card \in CardAccounts /\ k.amt \in Nat
      BY <1>5, CardCallsAssumption DEF CardCall
    <2>2. CardEnd(t) = CASE k.kind = "authorize" -> Authorized(k.auth)
                         [] k.kind = "capture"   -> Charged1(k.auth)
                         [] k.kind = "settle"    -> Batched
                         [] k.kind = "payment"   -> Repaid(k.card, k.amt)
      BY <1>5 DEF CardEnd
    <2>0. \A d \in Authorizations : CardOf[d] \in CardAccounts
      BY CardTypes
    <2>3. CASE k.kind = "authorize"
      <3>1. l \in Authorized(k.auth)
        BY <1>1, <2>2, <2>3
      <3>2. Turns(k.auth, Absent, "open") /\ row[CardOf[k.auth]].avail >= Stake[k.auth]
        BY <1>1, <1>3, <2>0, <2>1, <3>1, SMTT(30) DEF Authorized, Turns, AtDoc
      <3>3. Shifts(CardOf[k.auth], 0, Stake[k.auth])
        BY <1>1, <1>3, <2>0, <2>1, <3>1, ZenonT(40) DEF Authorized, Shifts, Moves, Derives
      <3>4. gl[r] = 0
        BY <1>2, <3>1 DEF Authorized
      <3> QED
        BY <1>5, <2>1, <2>3, <3>2, <3>3, <3>4 DEF Grants
    <2>4. CASE k.kind = "capture"
      <3>1. l \in Charged1(k.auth)
        BY <1>1, <2>2, <2>4
      <3>2. Turns(k.auth, "open", "released")
        BY <1>1, <1>3, <2>0, <2>1, <3>1 DEF Charged1, Turns, AtDoc
      <3>3. Shifts(CardOf[k.auth], Stake[k.auth], -Stake[k.auth])
        BY <1>1, <1>3, <2>0, <2>1, <3>1, ZenonT(40) DEF Charged1, Shifts, Moves, Derives
      <3>4. gl[r] = Stake[k.auth]
        BY <1>2, <3>1 DEF Charged1
      <3> QED
        BY <1>5, <2>1, <2>4, <3>2, <3>3, <3>4 DEF Charges
    <2>5. CASE k.kind = "settle"
      <3>1. l \in Batched
        BY <1>1, <2>2, <2>5
      <3> QED
        BY <1>1, <1>2, <1>3, <1>5, <2>5, <3>1 DEF Batched, Tags, AtDoc
    <2>6. CASE k.kind = "payment"
      <3>1. l \in Repaid(k.card, k.amt)
        BY <1>1, <2>2, <2>6
      <3>2. \A d \in Authorizations : doc'[d] = doc[d]
        BY <1>1, <1>3, <2>1, <3>1 DEF Repaid
      <3>3. Shifts(k.card, -k.amt, 0)
        BY <1>1, <2>1, <3>1 DEF Repaid, Shifts, Moves, Derives
      <3> QED
        BY <1>2, <1>5, <2>1, <2>6, <3>1, <3>2, <3>3 DEF Repaid, Pays
    <2> QED
      BY <2>1, <2>3, <2>4, <2>5, <2>6
  <1> QED
    BY <1>4, <1>5
-----------------------------------------------------------------------------
\* No commit takes a card over its limit.
LEMMA LimitKept ==
    ASSUME TypeOK, CreditWithinLimit, NEW r, Grants(r) \/ Charges(r) \/ Tags(r) \/ Pays(r)
    PROVE  CreditWithinLimit'
  <1>1. \A c \in CardAccounts : row[c] \in AccountRow /\ Overdraft[c] \in Int
    BY CardCallsAssumption, RowsAssumption DEF TypeOK
  <1>2. ASSUME NEW c \in CardAccounts, NEW b \in Int, NEW h \in Int, Shifts(c, b, h),
               row[c].bal + row[c].held + b + h <= Overdraft[c]
        PROVE  CreditWithinLimit'
    BY <1>1, <1>2 DEF Shifts, CreditWithinLimit, AccountRow
  <1>3. \A d \in Authorizations : CardOf[d] \in CardAccounts /\ Stake[d] \in Nat
    BY CardTypes
  <1>4. \A c \in CardAccounts : /\ row[c].bal + row[c].held <= Overdraft[c]
                                 /\ row[c].avail = Overdraft[c] - row[c].bal - row[c].held
                                 /\ row[c].bal \in Int /\ row[c].held \in Int
    BY <1>1 DEF CreditWithinLimit, AccountRow
  <1>5. CASE Grants(r)
    <2>1. PICK d \in Authorizations : row[CardOf[d]].avail >= Stake[d] /\ Shifts(CardOf[d], 0, Stake[d])
      BY <1>5 DEF Grants
    <2>2. row[CardOf[d]].bal + row[CardOf[d]].held + 0 + Stake[d] <= Overdraft[CardOf[d]]
      BY <1>1, <1>3, <1>4, <2>1
    <2> QED
      BY <1>2, <1>3, <2>1, <2>2
  <1>6. CASE Charges(r)
    <2>1. PICK d \in Authorizations : Shifts(CardOf[d], Stake[d], -Stake[d])
      BY <1>6 DEF Charges
    <2>2. row[CardOf[d]].bal + row[CardOf[d]].held + Stake[d] + (-Stake[d]) <= Overdraft[CardOf[d]]
      BY <1>1, <1>3, <1>4
    <2> QED
      BY <1>2, <1>3, <2>1, <2>2
  <1>7. CASE Tags(r)
    BY <1>7 DEF Tags, CreditWithinLimit
  <1>8. CASE Pays(r)
    <2>1. PICK c \in CardAccounts, n \in Nat : Shifts(c, -n, 0)
      BY <1>8 DEF Pays
    <2>2. row[c].bal + row[c].held + (-n) + 0 <= Overdraft[c]
      BY <1>1, <1>4
    <2> QED
      BY <1>2, <2>1, <2>2
  <1> QED
    BY <1>5, <1>6, <1>7, <1>8

\* An authorization that opens released stays so, and one that does not is charged
\* by the one request that releases it.
ChargesOf(d) == {r \in PostedCall("capture") : CardCalls[task[r]].auth = d}
Once ==
    \A d \in Authorizations :
        /\ OpeningDoc[d] = "released" => doc[d] = "released"
        /\ IF doc[d] = "released" /\ OpeningDoc[d] # "released"
           THEN Cardinality(ChargesOf(d)) = 1 ELSE ChargesOf(d) = {}

\* Nor charges an authorization twice.
LEMMA OnceKept ==
    ASSUME TypeOK, Once, NEW r \in Requests, Commit(r),
           Grants(r) \/ Charges(r) \/ Tags(r) \/ Pays(r)
    PROVE  Once'
  <1>0. /\ outcome[r] = "open" /\ task' = task
        /\ \A q \in Requests : outcome'[q] = IF q = r THEN "posted" ELSE outcome[q]
    BY CommitIsPosted
  <1>1. \A d \in Authorizations : ChargesOf(d)' =
           ChargesOf(d) \cup {q \in {r} : /\ task[r] \in CardTasks
                                           /\ CardCalls[task[r]].kind = "capture"
                                           /\ CardCalls[task[r]].auth = d}
    BY <1>0 DEF ChargesOf, PostedCall
  <1>2. Absent # "released" /\ Absent # "open"
    BY CardTypes
  <1>3. ASSUME NEW d \in Authorizations, ChargesOf(d)' = ChargesOf(d),
               doc[d] = "released" <=> doc'[d] = "released"
        PROVE  /\ OpeningDoc[d] = "released" => doc'[d] = "released"
               /\ IF doc'[d] = "released" /\ OpeningDoc[d] # "released"
                  THEN Cardinality(ChargesOf(d)') = 1 ELSE ChargesOf(d)' = {}
    BY <1>3 DEF Once
  <1>4. ASSUME NEW d \in Authorizations
        PROVE  /\ OpeningDoc[d] = "released" => doc'[d] = "released"
               /\ IF doc'[d] = "released" /\ OpeningDoc[d] # "released"
                  THEN Cardinality(ChargesOf(d)') = 1 ELSE ChargesOf(d)' = {}
    <2>1. CASE Charges(r) /\ CardCalls[task[r]].auth = d
      <3>1. doc[d] = "open" /\ doc'[d] = "released"
        BY <2>1 DEF Charges, Turns
      <3>2. ChargesOf(d) = {} /\ OpeningDoc[d] # "released"
        BY <3>1 DEF Once
      <3>3. ChargesOf(d)' = {r}
        BY <1>1, <2>1, <3>2 DEF Charges
      <3>4. Cardinality({r}) = 1
        BY FS_Singleton
      <3> QED
        BY <3>1, <3>2, <3>3, <3>4
    <2>2. CASE ~(Charges(r) /\ CardCalls[task[r]].auth = d)
      <3>1. doc[d] = "released" <=> doc'[d] = "released"
        BY <1>2, <2>2 DEF Grants, Charges, Tags, Pays, Turns
      <3>2. ~(/\ task[r] \in CardTasks /\ CardCalls[task[r]].kind = "capture"
              /\ CardCalls[task[r]].auth = d)
        BY <2>2 DEF Grants, Charges, Tags, Pays
      <3>3. ChargesOf(d)' = ChargesOf(d)
        BY <1>1, <3>2
      <3> QED
        BY <1>3, <3>1, <3>3
    <2> QED
      BY <2>1, <2>2
  <1> QED
    BY <1>4 DEF Once
-----------------------------------------------------------------------------
StakeIn(status, S, statuses) == [d \in S |-> IF status[d] \in statuses THEN Stake[d] ELSE 0]

\* The authorizations of a card.
LEMMA HoldsType ==
    ASSUME NEW c
    PROVE  /\ IsFiniteSet(HoldsOf(c)) /\ HoldsOf(c) \subseteq Authorizations
           /\ \A d \in HoldsOf(c) : Stake[d] \in Int /\ CardOf[d] = c
  <1>1. HoldsOf(c) \subseteq Authorizations /\ IsFiniteSet(Authorizations)
    BY CardRows DEF HoldsOf
  <1> QED
    BY <1>1, FS_Subset, CardTypes DEF HoldsOf

\* What is held is told by which of them are open.
LEMMA HoldsSame ==
    ASSUME NEW c, NEW f, NEW g, \A d \in HoldsOf(c) : f[d] = "open" <=> g[d] = "open"
    PROVE  StakesIn(f, HoldsOf(c), {"open"}) = StakesIn(g, HoldsOf(c), {"open"})
  <1> DEFINE S == HoldsOf(c)  u == StakeIn(f, S, {"open"})  v == StakeIn(g, S, {"open"})
  <1>1. WholeOn(S, u) /\ \A d \in S : u[d] = v[d]
    BY HoldsType DEF WholeOn, StakeIn
  <1>2. IsFiniteSet(S)
    BY HoldsType
  <1> HIDE DEF S, u, v
  <1>3. SumOver(S, u) = SumOver(S, v)
    BY <1>1, <1>2, SumSame
  <1> QED
    BY <1>3 DEF StakesIn, StakeIn, S, u, v

\* What one of them adds to it.
LEMMA HoldsChange ==
    ASSUME NEW c, NEW d \in HoldsOf(c), NEW f, NEW g, \A e \in HoldsOf(c) \ {d} : f[e] = g[e]
    PROVE  StakesIn(g, HoldsOf(c), {"open"})
             = StakesIn(f, HoldsOf(c), {"open"})
                 + ((IF g[d] = "open" THEN Stake[d] ELSE 0) - (IF f[d] = "open" THEN Stake[d] ELSE 0))
  <1> DEFINE S == HoldsOf(c)  u == StakeIn(f, S, {"open"})  v == StakeIn(g, S, {"open"})
  <1>1. /\ WholeOn(S, u) /\ WholeOn(S, v) /\ d \in S /\ \A e \in S \ {d} : u[e] = v[e]
        /\ v[d] = (IF g[d] = "open" THEN Stake[d] ELSE 0)
        /\ u[d] = (IF f[d] = "open" THEN Stake[d] ELSE 0)
    BY HoldsType DEF WholeOn, StakeIn
  <1>2. IsFiniteSet(S)
    BY HoldsType
  <1> HIDE DEF S, u, v
  <1>3. SumOver(S, v) = SumOver(S, u) + (v[d] - u[d])
    BY <1>1, <1>2, SumChange
  <1>4. SumOver(S, v) = SumOver(S, u)
          + ((IF g[d] = "open" THEN Stake[d] ELSE 0) - (IF f[d] = "open" THEN Stake[d] ELSE 0))
    BY <1>1, <1>3
  <1> QED
    BY <1>4 DEF StakesIn, StakeIn, S, u, v

\* What is held follows them.
LEMMA HeldKept ==
    ASSUME TypeOK, HeldIsOpenAuthorizations, NEW r, Grants(r) \/ Charges(r) \/ Tags(r) \/ Pays(r)
    PROVE  HeldIsOpenAuthorizations'
  <1>1. \A c \in CardAccounts : row[c].held = StakesIn(doc, HoldsOf(c), {"open"}) /\ row[c].held \in Int
    BY CardCallsAssumption DEF HeldIsOpenAuthorizations, TypeOK, AccountRow
  <1>2. SUFFICES ASSUME NEW c \in CardAccounts
                 PROVE  row'[c].held = StakesIn(doc', HoldsOf(c), {"open"})
    BY DEF HeldIsOpenAuthorizations, StakesIn, HoldsOf
  <1>3. \A d \in HoldsOf(c) : d \in Authorizations /\ CardOf[d] = c /\ Stake[d] \in Int
    BY HoldsType
  <1>4. Absent # "open"
    BY CardTypes
  \* One authorization is opened, or closed.
  <1>5. ASSUME NEW d \in Authorizations, NEW v, NEW w, Turns(d, v, w),
               NEW b, Shifts(CardOf[d], b, (IF w = "open" THEN Stake[d] ELSE 0)
                                             - (IF v = "open" THEN Stake[d] ELSE 0))
        PROVE  row'[c].held = StakesIn(doc', HoldsOf(c), {"open"})
    <2>1. CASE CardOf[d] = c
      <3>1. d \in HoldsOf(c) /\ \A e \in HoldsOf(c) \ {d} : doc[e] = doc'[e]
        BY <1>3, <1>5, <2>1 DEF HoldsOf, Turns
      <3>2. StakesIn(doc', HoldsOf(c), {"open"}) = StakesIn(doc, HoldsOf(c), {"open"})
              + ((IF doc'[d] = "open" THEN Stake[d] ELSE 0) - (IF doc[d] = "open" THEN Stake[d] ELSE 0))
        BY <3>1, HoldsChange
      <3>3. doc[d] = v /\ doc'[d] = w
        BY <1>5 DEF Turns
      <3>4. row'[c].held = row[c].held + ((IF w = "open" THEN Stake[d] ELSE 0)
                                             - (IF v = "open" THEN Stake[d] ELSE 0))
        BY <1>5, <2>1 DEF Shifts
      <3> QED
        BY <1>1, <3>2, <3>3, <3>4
    <2>2. CASE CardOf[d] # c
      <3>1. \A e \in HoldsOf(c) : doc[e] = "open" <=> doc'[e] = "open"
        BY <1>3, <1>5, <2>2 DEF Turns
      <3>2. row'[c] = row[c]
        BY <1>5, <2>2 DEF Shifts
      <3> QED
        BY <1>1, <3>1, <3>2, HoldsSame
    <2> QED
      BY <2>1, <2>2
  <1>6. CASE Grants(r)
    <2>1. PICK d \in Authorizations : /\ Turns(d, Absent, "open")
                                       /\ Shifts(CardOf[d], 0, Stake[d])
      BY <1>6 DEF Grants
    <2>2. Stake[d] = Stake[d] - 0
      BY CardTypes
    <2>3. Shifts(CardOf[d], 0, (IF "open" = "open" THEN Stake[d] ELSE 0)
                                             - (IF Absent = "open" THEN Stake[d] ELSE 0))
      BY <1>4, <2>1, <2>2
    <2> QED
      BY <1>5, <2>1, <2>3
  <1>7. CASE Charges(r)
    <2>1. PICK d \in Authorizations : /\ Turns(d, "open", "released")
                                       /\ Shifts(CardOf[d], Stake[d], -Stake[d])
      BY <1>7 DEF Charges
    <2>2. -Stake[d] = 0 - Stake[d]
      BY CardTypes
    <2>3. Shifts(CardOf[d], Stake[d], (IF "released" = "open" THEN Stake[d] ELSE 0)
                                             - (IF "open" = "open" THEN Stake[d] ELSE 0))
      BY <2>1, <2>2
    <2> QED
      BY <1>5, <2>1, <2>3
  <1>8. CASE Tags(r)
    <2>1. \A d \in HoldsOf(c) : doc[d] = "open" <=> doc'[d] = "open"
      BY <1>3, <1>8 DEF Tags
    <2>2. row'[c] = row[c]
      BY <1>8 DEF Tags
    <2> QED
      BY <1>1, <2>1, <2>2, HoldsSame
  <1>9. CASE Pays(r)
    <2>1. \A d \in HoldsOf(c) : doc[d] = "open" <=> doc'[d] = "open"
      BY <1>3, <1>9 DEF Pays
    <2>2. row'[c].held = row[c].held
      BY <1>1, <1>9 DEF Pays, Shifts
    <2> QED
      BY <1>1, <2>1, <2>2, HoldsSame
  <1> QED
    BY <1>6, <1>7, <1>8, <1>9
-----------------------------------------------------------------------------
BalGained == [c \in CardAccounts |-> row[c].bal - OpeningRow[c].bal]
ToldPosted == [r \in Requests |->
                 IF outcome[r] = "posted" /\ task[r] \in CardTasks THEN gl[r] ELSE 0]

\* The amounts that are added up.
LEMMA BalGainedType ==
    ASSUME TypeOK
    PROVE  /\ WholeOn(CardAccounts, BalGained) /\ WholeOn(Requests, ToldPosted)
           /\ \A c \in CardAccounts : row[c].bal \in Int /\ OpeningRow[c].bal \in Int
  BY CardCallsAssumption, RowsAssumption DEF TypeOK, AccountRow, WholeOn, BalGained, ToldPosted

\* The cards and the core move together.
LEMMA TieKept ==
    ASSUME TypeOK, TypeOK', CardsTieToGL, NEW r \in Requests, Commit(r),
           Grants(r) \/ Charges(r) \/ Tags(r) \/ Pays(r)
    PROVE  CardsTieToGL'
  <1> DEFINE f == BalGained  g == BalGained'  u == ToldPosted  v == ToldPosted'
             n == IF task[r] \in CardTasks THEN gl[r] ELSE 0
  <1>0. /\ IsFiniteSet(CardAccounts) /\ IsFiniteSet(Requests)
        /\ SumOver(CardAccounts, f) = SumOver(Requests, u)
    BY CardRows DEF CardsTieToGL, BalGained, ToldPosted
  <1>1. /\ WholeOn(CardAccounts, f) /\ WholeOn(Requests, u)
        /\ \A c \in CardAccounts : row[c].bal \in Int /\ OpeningRow[c].bal \in Int
    BY BalGainedType
  <1>2. WholeOn(CardAccounts, g) /\ WholeOn(Requests, v)
    <2>1. \A c \in CardAccounts : row'[c].bal \in Int /\ OpeningRow[c].bal \in Int
      BY CardCallsAssumption, RowsAssumption DEF TypeOK, AccountRow
    <2>2. \A q \in Requests : gl'[q] \in Int
      BY DEF TypeOK
    <2> QED
      BY <2>1, <2>2 DEF WholeOn, BalGained, ToldPosted
  <1>3. /\ outcome[r] = "open" /\ task' = task /\ gl' = gl
        /\ \A q \in Requests : outcome'[q] = IF q = r THEN "posted" ELSE outcome[q]
    BY CommitIsPosted
  <1>4. v[r] = n /\ u[r] = 0 /\ \A q \in Requests \ {r} : u[q] = v[q]
    BY <1>3 DEF ToldPosted
  <1>5. gl[r] \in Int /\ n \in Int
    BY DEF TypeOK
  <1> HIDE DEF u, v
  <1>6. SumOver(Requests, v) = SumOver(Requests, u) + n
    <2>1. SumOver(Requests, v) = SumOver(Requests, u) + (v[r] - u[r])
      BY <1>0, <1>1, <1>2, <1>4, SumChange
    <2> QED
      BY <1>4, <1>5, <2>1
  <1>7. SumOver(CardAccounts, f) \in Int
    BY <1>0, <1>1, SumType
  <1>8. SumOver(CardAccounts, g) = SumOver(CardAccounts, f) + n
    <2>1. ASSUME NEW c \in CardAccounts, NEW h, Shifts(c, n, h)
          PROVE  SumOver(CardAccounts, g) = SumOver(CardAccounts, f) + n
      <3>1. \A a \in CardAccounts \ {c} : f[a] = g[a]
        BY <2>1 DEF Shifts, BalGained
      <3>2. f[c] = row[c].bal - OpeningRow[c].bal /\ g[c] = row'[c].bal - OpeningRow[c].bal
        BY DEF BalGained
      <3>3. g[c] - f[c] = n
        BY <1>1, <1>5, <2>1, <3>2 DEF Shifts
      <3> HIDE DEF f, g
      <3>4. SumOver(CardAccounts, g) = SumOver(CardAccounts, f) + (g[c] - f[c])
        BY <1>0, <1>1, <1>2, <3>1, SumChange
      <3> QED
        BY <3>3, <3>4
    <2>2. \A d \in Authorizations : CardOf[d] \in CardAccounts
      BY CardTypes
    <2> HIDE DEF f, g
    <2>3. CASE Grants(r)
      <3>1. PICK d \in Authorizations : Shifts(CardOf[d], 0, Stake[d]) /\ gl[r] = 0
        BY <2>3 DEF Grants
      <3>2. n = 0
        BY <3>1
      <3> QED
        BY <2>1, <2>2, <3>1, <3>2
    <2>4. CASE Charges(r)
      <3>1. PICK d \in Authorizations : Shifts(CardOf[d], n, -Stake[d])
        BY <2>4 DEF Charges
      <3> QED
        BY <2>1, <2>2, <3>1
    <2>5. CASE Tags(r)
      <3>1. n = 0 /\ \A a \in CardAccounts : g[a] = f[a]
        BY <2>5 DEF Tags, BalGained, f, g
      <3>2. SumOver(CardAccounts, f) = SumOver(CardAccounts, g)
        BY <1>0, <1>1, <3>1, SumSame
      <3> QED
        BY <1>7, <3>1, <3>2
    <2>6. CASE Pays(r)
      <3>1. PICK c \in CardAccounts : Shifts(c, n, 0)
        BY <2>6 DEF Pays
      <3> QED
        BY <2>1, <3>1
    <2> QED
      BY <2>3, <2>4, <2>5, <2>6
  <1>9. SumOver(CardAccounts, g) = SumOver(Requests, v)
    BY <1>0, <1>6, <1>8
  <1> QED
    BY <1>9 DEF CardsTieToGL, BalGained, ToldPosted, v

CardsSound == CreditWithinLimit /\ Once /\ HeldIsOpenAuthorizations /\ CardsTieToGL

\* The properties hold at first.
LEMMA CardsSoundInit == ASSUME Init PROVE CardsSound
  <1>1. row = OpeningRow /\ doc = OpeningDoc /\ \A r \in Requests : outcome[r] = "idle"
    BY DEF Init
  <1>2. CreditWithinLimit /\ HeldIsOpenAuthorizations
    BY <1>1, CardRows DEF CreditWithinLimit, HeldIsOpenAuthorizations
  <1>3. Once
    BY <1>1 DEF Once, ChargesOf, PostedCall
  <1>4. CardsTieToGL
    <2>1. (\A c \in CardAccounts : BalGained[c] = 0) /\ (\A r \in Requests : ToldPosted[r] = 0)
      BY <1>1, CardCallsAssumption, RowsAssumption DEF BalGained, ToldPosted, AccountRow
    <2>2. SumOver(CardAccounts, BalGained) = 0 /\ SumOver(Requests, ToldPosted) = 0
      BY <2>1, CardRows, SumZero
    <2> QED
      BY <2>2 DEF CardsTieToGL, BalGained, ToldPosted
  <1> QED
    BY <1>2, <1>3, <1>4 DEF CardsSound

\* Every step keeps them.
LEMMA CardsSoundNext ==
    ASSUME CardsApart, NEW H, \A t \in Tasks : H[t] = CardEnd(t), StandsInv(HeldRows, H),
           TypeOK', CardsSound, [Next]_vars
    PROVE  CardsSound'
  <1>0. TypeOK /\ Unlocked
    BY DEF StandsInv
  <1>1. ASSUME NEW r \in Requests, Commit(r) PROVE CardsSound'
    <2>1. Grants(r) \/ Charges(r) \/ Tags(r) \/ Pays(r)
      BY <1>1, CommitOnCards
    <2> QED
      BY <1>0, <1>1, <2>1, LimitKept, OnceKept, HeldKept, TieKept DEF CardsSound
  <1>2. CASE UNCHANGED << row, doc, journal >> /\ PostedStay
    <2>1. CreditWithinLimit' /\ HeldIsOpenAuthorizations'
      BY <1>2 DEF CardsSound, CreditWithinLimit, HeldIsOpenAuthorizations
    <2>2. Once'
      <3>1. \A d \in Authorizations : ChargesOf(d)' = ChargesOf(d)
        BY <1>2 DEF PostedStay, ChargesOf, PostedCall
      <3> QED
        BY <1>2, <3>1 DEF CardsSound, Once
    <2>3. CardsTieToGL'
      <3>1. BalGained' = BalGained /\ ToldPosted' = ToldPosted
        BY <1>2 DEF BalGained, ToldPosted, PostedStay
      <3> QED
        BY <3>1 DEF CardsSound, CardsTieToGL, BalGained, ToldPosted
    <2> QED
      BY <2>1, <2>2, <2>3 DEF CardsSound
  <1>3. (\E r \in Requests : Commit(r)) \/ UNCHANGED << row, doc, journal >>
    BY OnlyCommits
  <1>4. (\E r \in Requests : Commit(r)) \/ PostedStay
    BY <1>0, OnlyCommitsPost
  <1> QED
    BY <1>1, <1>2, <1>3, <1>4

\* The four properties of the cards hold for any cards, authorizations and
\* purchases and any number of requests, next to calls of other rails that keep
\* off the cards.
THEOREM CardsAreSound == CardsApart => (Spec => []CardsSound)
  <1> SUFFICES ASSUME CardsApart PROVE Spec => []CardsSound
    OBVIOUS
  <1> DEFINE H == [t \in Tasks |-> CardEnd(t)]
  <1>1. \A t \in Tasks : H[t] = CardEnd(t) /\ EndsIn(HeldRows, t, H[t])
    BY CardsEnd
  <1>2. HeldRows \in SUBSET Rows
    BY CardTypes
  <1> HIDE DEF H
  <1>3. /\ Init => StandsInv(HeldRows, H)
        /\ StandsInv(HeldRows, H) /\ [Next]_vars => StandsInv(HeldRows, H)'
    BY <1>1, <1>2, StandsInit, StandsNext
  <1>4. StandsInv(HeldRows, H)' => TypeOK'
    BY DEF StandsInv
  <1>5. StandsInv(HeldRows, H) /\ CardsSound /\ [Next]_vars => CardsSound'
    BY <1>1, <1>3, <1>4, CardsSoundNext
  <1> QED
    BY <1>3, <1>5, CardsSoundInit, PTL DEF Spec

\* No order of authorizations, captures and payments takes a card over its limit:
\* fetch_account_for_update holds the card from the check to the hold.
THEOREM CreditStaysWithinLimit == CardsApart => (Spec => []CreditWithinLimit)
  <1>1. CardsSound => CreditWithinLimit
    BY DEF CardsSound
  <1> QED
    BY <1>1, CardsAreSound, PTL

\* The holds of a card are those of its open authorizations: each hold comes with
\* the row it is for, each release with the transition that ends it.
THEOREM HeldIsOpenAlways == CardsApart => (Spec => []HeldIsOpenAuthorizations)
  <1>1. CardsSound => HeldIsOpenAuthorizations
    BY DEF CardsSound
  <1> QED
    BY <1>1, CardsAreSound, PTL

\* The guarded transition of capture charges an authorization once, however often
\* the network presents it.
THEOREM CapturedOnceAlways == CardsApart => (Spec => []CapturedOnce)
  <1>1. CardsSound => CapturedOnce
    BY DEF CardsSound, Once, CapturedOnce, ChargesOf
  <1> QED
    BY <1>1, CardsAreSound, PTL

\* What the cards owe and what CardReceivable has been told move together, request
\* by request that commits.
THEOREM CardsTieToGLAlways == CardsApart => (Spec => []CardsTieToGL)
  <1>1. CardsSound => CardsTieToGL
    BY DEF CardsSound
  <1> QED
    BY <1>1, CardsAreSound, PTL
-----------------------------------------------------------------------------
(* The loans, whatever calls there are. *)
OwedRows == LoanSet \cup {AccruedToday[l] : l \in LoanSet} \cup LoanAccounts

\* The rows in view and the statuses they can have.
LEMMA LoanTypes ==
    /\ OwedRows \in SUBSET Rows
    /\ OwedRows \cap Docs = LoanSet \cup {AccruedToday[l] : l \in LoanSet}
    /\ OwedRows \cap Accounts = LoanAccounts
    /\ NoOne \notin OwedRows /\ LoanCash \notin OwedRows
    /\ \A l \in LoanSet :
         /\ l \in OwedRows \cap Docs /\ AccruedToday[l] \in OwedRows \cap Docs
         /\ LoanAccount[l] \in OwedRows \cap Accounts /\ LoanAccount[l] \notin Docs
         /\ Principal[l] \in Nat \ {0} /\ Interest[l] \in Nat \ {0}
         /\ \A m \in LoanSet : AccruedToday[l] # m
    /\ \A l, m \in LoanSet :
         l # m => LoanAccount[l] # LoanAccount[m] /\ AccruedToday[l] # AccruedToday[m]
    /\ {"pending", "active", "closed", "due", "accrued"} \subseteq STRING \ {Absent}
    /\ Absent \in STRING
  <1>1. /\ LoanSet \subseteq Docs /\ \A l \in LoanSet : AccruedToday[l] \in Docs
        /\ \A l \in LoanSet : LoanAccount[l] \in Accounts
        /\ \A l \in LoanSet : Principal[l] \in Nat \ {0} /\ Interest[l] \in Nat \ {0}
        /\ LoanCash \in Accounts /\ Accounts \cap Docs = {}
    BY LoansAssumption, NamesAssumption
  <1>2. OwedRows \in SUBSET Rows /\ NoOne \notin OwedRows
    BY <1>1, NamesAssumption DEF OwedRows, LoanAccounts, Rows
  <1>3. LoanAccounts \subseteq Accounts
    BY <1>1 DEF LoanAccounts
  <1>4. /\ OwedRows \cap Docs = LoanSet \cup {AccruedToday[l] : l \in LoanSet}
        /\ OwedRows \cap Accounts = LoanAccounts
    BY <1>1, <1>3 DEF OwedRows
  <1>5. LoanCash \notin OwedRows
    BY <1>1, <1>4, LoanRows
  <1>6. \A l \in LoanSet : LoanAccount[l] \in LoanAccounts
    BY DEF LoanAccounts
  <1>7. \A l, m \in LoanSet :
         l # m => LoanAccount[l] # LoanAccount[m] /\ AccruedToday[l] # AccruedToday[m]
    BY LoansAssumption, LoanRows DEF IsInjective
  <1> QED
    BY <1>1, <1>2, <1>3, <1>4, <1>5, <1>6, <1>7, LoanRows, RowsAssumption

-----------------------------------------------------------------------------
(* Statements that leave the rows in view and the sums alone. *)
Calm(X, s) == Aside(X, s) /\ s.op \notin {"gl", "net", "tally"}

\* What is said of a transaction by its locks and sums alone.
OfLocksAndSums(X, G) ==
    /\ G \in SUBSET Standing(X)
    /\ \A l \in G, m \in Standing(X) : SameLocks(l, m) /\ SameSums(l, m) => m \in G

\* Such a statement keeps what is said so.
LEMMA CalmLeads ==
    ASSUME NEW X, NEW s, Calm(X, s), NEW G, OfLocksAndSums(X, G)
    PROVE  Leads(X, << s >>, G, G)
  <1>1. ASSUME NEW l \in G, NEW m \in Standing(X), Does(X, s, l, m) PROVE m \in G
    <2>0. l \in Standing(X)
      BY DEF OfLocksAndSums
    <2>1. SameLocks(l, m)
      BY <1>1, <2>0, AsideStands DEF Calm
    <2>2. SameSums(l, m)
      BY <1>1 DEF Calm, Aside, Does, ChangesDoc, SameSums
    <2> QED
      BY <2>1, <2>2 DEF OfLocksAndSums
  <1> QED
    BY <1>1, LeadsByOne DEF OfLocksAndSums, Calm, Aside

\* A pooled read of a status keeps everything.
LEMMA ExpectLeads ==
    ASSUME NEW X, NEW d, NEW v, NEW G \in SUBSET Standing(X)
    PROVE  Leads(X, << OnDoc("expect", d, v, Blank) >>, G, G)
  <1> DEFINE s == OnDoc("expect", d, v, Blank)
  <1>1. s.op = "expect"
    BY DEF OnDoc, Stmt
  <1> HIDE DEF s
  <1>2. \A l \in G, m \in Standing(X) : Does(X, s, l, m) => m = l
    BY <1>1 DEF Does, AccountWrites, DocWrites
  <1>3. Leads(X, << s >>, G, G)
    BY <1>1, <1>2, LeadsByOne
  <1> QED
    BY <1>3 DEF s

\* The commit keeps everything.
LEMMA CompletedKeeps ==
    ASSUME NEW X, NEW G \in SUBSET Standing(X)
    PROVE  Leads(X, Completed, G, G)
  <1> DEFINE s == Do("commit", NoOne, 0)
  <1>1. s.op = "commit"
    BY DEF Do, Stmt
  <1> HIDE DEF s
  <1>2. \A l \in G, m \in Standing(X) : Does(X, s, l, m) => m = l
    BY <1>1 DEF Does, AccountWrites, DocWrites
  <1>3. Leads(X, << s >>, G, G)
    BY <1>1, <1>2, LeadsByOne
  <1> QED
    BY <1>3 DEF s, Completed

\* The core is told of n, or of n times the net.
LEMMA CoreTold ==
    ASSUME NEW X, NEW n \in Int, NEW tag, NEW G \in SUBSET Standing(X), NEW H,
           \A l \in G, m \in Standing(X) :
               SameLocks(l, m) /\ m.net = l.net
                 /\ m.told = l.told + n * (IF tag = ByNet THEN l.net ELSE 1) => m \in H
    PROVE  Leads(X, << OnMeter("gl", NoOne, n, tag) >>, G, H)
  <1> DEFINE s == OnMeter("gl", NoOne, n, tag)
  <1>1. s.op = "gl" /\ s.amt = n /\ s.tag = tag
    BY DEF OnMeter, Stmt
  <1> HIDE DEF s
  <1>2. ASSUME NEW l \in G, NEW m \in Standing(X), Does(X, s, l, m) PROVE m \in H
    <2>1. SameLocks(l, m) /\ m.net = l.net /\ m.told = l.told + AmountIn(s, l)
      BY <1>1, <1>2 DEF Does, AccountWrites, DocWrites, Standing
    <2>2. AmountIn(s, l) = n * (IF tag = ByNet THEN l.net ELSE 1)
      BY <1>1 DEF AmountIn
    <2> QED
      BY <2>1, <2>2
  <1>3. Leads(X, << s >>, G, H)
    BY <1>1, <1>2, LeadsByOne
  <1> QED
    BY <1>3 DEF s

\* An account in view is locked.
LEMMA RowLocked ==
    ASSUME NEW X, NEW a \in X \cap Accounts, NEW G \in SUBSET Standing(X),
           \A l \in G : a \notin l.own, NEW H,
           \A l \in G, m \in Standing(X) :
               m.own = l.own \cup {a} /\ SameDocs(l, m) /\ SameSums(l, m)
                 /\ m.row[a] \in AccountRow /\ m.draft[a] = m.row[a] => m \in H
    PROVE  Leads(X, << Do("lock", a, 0) >>, G, H)
  <1> DEFINE t == Do("lock", a, 0)
  <1>1. t.op = "lock" /\ t.row = a
    BY DEF Do, Stmt
  <1> HIDE DEF t
  <1>2. ASSUME NEW l \in G, NEW m \in Standing(X), Does(X, t, l, m) PROVE m \in H
    BY <1>1, <1>2, LockLeads
  <1> QED
    BY <1>1, <1>2, LeadsByOne DEF t

\* A statement that adds b to the balance of account a, locked, and knows no
\* other of its columns; the other accounts stay.
Rebalances(a, l, m, b) ==
    /\ m.own = l.own /\ SameDocs(l, m) /\ SameSums(l, m) /\ m.row = l.row
    /\ m.draft = [l.draft EXCEPT ![a] = m.draft[a]] /\ m.draft[a].bal = l.draft[a].bal + b

\* A change of a locked account leaves the others as they are.
LEMMA ChangeApart ==
    ASSUME NEW X, NEW s, NEW a \in X \cap Accounts, s.row = a, s.op \in AccountWrites,
           NEW l \in Standing(X), a \in l.own, NEW m \in Standing(X), Does(X, s, l, m)
    PROVE  m.row = l.row /\ m.draft = [l.draft EXCEPT ![a] = m.draft[a]]
  <1>1. ChangesRow(s, l, m)
    BY DEF Does, AccountWrites, DocWrites
  <1>2. PICK y : TakesRow(l, m, a, l.row[a], y)
    BY <1>1 DEF ChangesRow
  <1>3. l.row \in [X \cap Accounts -> AccountRow] /\ l.draft \in [X \cap Accounts -> AccountRow]
    BY DEF Standing
  <1> QED
    BY <1>2, <1>3 DEF TakesRow

\* Changes of what is available do not touch the balance.
LEMMA BalanceKept ==
    ASSUME NEW X, NEW a \in X \cap Accounts, NEW op \in {"floor", "recompute"},
           NEW G \in SUBSET Standing(X), \A l \in G : a \in l.own, NEW H,
           \A l \in G, m \in Standing(X) : Rebalances(a, l, m, 0) => m \in H
    PROVE  Leads(X, << Do(op, a, 0) >>, G, H)
  <1> DEFINE t == Do(op, a, 0)
  <1>1. t.op = op /\ t.row = a
    BY DEF Do, Stmt
  <1> HIDE DEF t
  <1>2. ASSUME NEW l \in G, NEW m \in Standing(X), Does(X, t, l, m) PROVE m \in H
    <2>1. /\ m.own = l.own /\ SameDocs(l, m) /\ SameSums(l, m)
          /\ m.row[a] = l.row[a] /\ m.draft[a] = RowAfter(t, l, l.draft[a])
      BY <1>1, <1>2, ChangeOwned DEF AccountWrites
    <2>2. l.draft[a] \in AccountRow
      BY DEF Standing
    <2>3. RowAfter(t, l, l.draft[a]).bal = l.draft[a].bal + 0
      BY <1>1, <2>2 DEF RowAfter, AccountRow
    <2>4. m.row = l.row /\ m.draft = [l.draft EXCEPT ![a] = m.draft[a]]
      BY <1>1, <1>2, ChangeApart DEF AccountWrites
    <2> QED
      BY <2>1, <2>3, <2>4 DEF Rebalances
  <1> QED
    BY <1>1, <1>2, LeadsByOne DEF t

\* A leg of a locked account: the trigger adds to the balance it has read.
LEMMA LegAdds ==
    ASSUME NEW X, NEW a \in X \cap Accounts, NEW n \in Int, NEW tag,
           NEW G \in SUBSET Standing(X), \A l \in G : a \in l.own, NEW H,
           \A l \in G, m \in Standing(X) :
               Rebalances(a, l, m, n * (IF tag = ByNet THEN l.net ELSE 1)) => m \in H
    PROVE  Leads(X, << Do("read", a, 0) >> \o << OnMeter("write", a, n, tag) >>, G, H)
  <1> DEFINE s == Do("read", a, 0)  t == OnMeter("write", a, n, tag)
             M == {m \in Standing(X) :
                     \E l \in G : SameLocks(l, m) /\ SameSums(l, m) /\ m.seen = l.draft[a].bal}
  <1>1. s.op = "read" /\ s.row = a /\ t.op = "write" /\ t.row = a /\ t.amt = n /\ t.tag = tag
    BY DEF Do, OnMeter, Stmt
  <1> HIDE DEF s, t
  <1>3. Leads(X, << s >>, G, M)
    <2>1. ASSUME NEW l \in G, NEW m \in Standing(X), Does(X, s, l, m) PROVE m \in M
      BY <1>1, <2>1 DEF Does, AccountWrites, DocWrites
    <2> HIDE DEF M
    <2> QED
      BY <1>1, <2>1, LeadsByOne
  <1>4. Leads(X, << t >>, M, H)
    <2>1. ASSUME NEW k \in M, NEW m \in Standing(X), Does(X, t, k, m) PROVE m \in H
      <3>1. PICK l \in G : SameLocks(l, k) /\ SameSums(l, k) /\ k.seen = l.draft[a].bal
        OBVIOUS
      <3>2. k \in Standing(X) /\ a \in k.own /\ l \in Standing(X)
        BY <3>1 DEF SameLocks
      <3>3. /\ m.own = k.own /\ SameDocs(k, m) /\ SameSums(k, m)
            /\ m.row[a] = k.row[a] /\ m.draft[a] = RowAfter(t, k, k.draft[a])
        BY <1>1, <2>1, <3>2, ChangeOwned DEF AccountWrites
      <3>4. RowAfter(t, k, k.draft[a])
              = [k.draft[a] EXCEPT !.bal = k.seen + n * (IF tag = ByNet THEN k.net ELSE 1)]
        BY <1>1 DEF RowAfter, AmountIn
      <3>5. k.draft[a] \in AccountRow
        BY <3>2 DEF Standing
      <3>6. m.draft[a].bal = l.draft[a].bal + n * (IF tag = ByNet THEN l.net ELSE 1)
        BY <3>1, <3>3, <3>4, <3>5 DEF AccountRow, SameSums
      <3>8. m.row = k.row /\ m.draft = [k.draft EXCEPT ![a] = m.draft[a]]
        BY <1>1, <2>1, <3>2, ChangeApart DEF AccountWrites
      <3>7. Rebalances(a, l, m, n * (IF tag = ByNet THEN l.net ELSE 1))
        BY <3>1, <3>3, <3>6, <3>8 DEF Rebalances, SameLocks, SameDocs, SameRows, SameSums
      <3> QED
        BY <3>7
    <2>2. M \in SUBSET Standing(X)
      OBVIOUS
    <2> HIDE DEF M
    <2> QED
      BY <1>1, <2>1, <2>2, LeadsByOne
  <1> HIDE DEF M
  <1>5. Leads(X, << s >> \o << t >>, G, H)
    BY <1>3, <1>4, LeadsOn
  <1> QED
    BY <1>5 DEF s, t

\* A leg of an account that is not in view.
LEMMA LegCalm ==
    ASSUME NEW X, NEW a, a \notin X, NEW n, NEW tag, NEW G, OfLocksAndSums(X, G)
    PROVE  Leads(X, << Do("read", a, 0) >> \o << OnMeter("write", a, n, tag) >>, G, G)
  <1>1. Calm(X, Do("read", a, 0)) /\ Calm(X, OnMeter("write", a, n, tag))
    BY DEF Calm, Aside, Do, OnMeter, Stmt
  <1>2. /\ Leads(X, << Do("read", a, 0) >>, G, G)
        /\ Leads(X, << OnMeter("write", a, n, tag) >>, G, G)
    BY <1>1, CalmLeads
  <1> QED
    BY <1>2, LeadsOn

-----------------------------------------------------------------------------
(* What a transaction may have made of a loan: of its account only the balance *)
(* counts.                                                                     *)
Untouched == {m \in Standing(OwedRows) : m.own = {} /\ m.told = 0}
Owing(l, O, b, g, B) ==
    {m \in Standing(OwedRows) :
        /\ m.own = O /\ m.told = g /\ m.row[LoanAccount[l]].bal \in B
        /\ m.draft[LoanAccount[l]].bal = m.row[LoanAccount[l]].bal + b}
Turned(d, v, w) == {m \in Standing(OwedRows) : m.was[d] = v /\ m.now[d] = w}

\* They are told by locks and sums.
LEMMA OwingOfLocks ==
    ASSUME NEW l, NEW O, NEW b, NEW g, NEW B
    PROVE  /\ OfLocksAndSums(OwedRows, Untouched)
           /\ OfLocksAndSums(OwedRows, Owing(l, O, b, g, B))
           /\ \A d, v, w : OfLocksAndSums(OwedRows, Owing(l, O, b, g, B) \cap Turned(d, v, w))
  <1>1. OfLocksAndSums(OwedRows, Untouched)
    BY DEF OfLocksAndSums, Untouched, SameLocks, SameSums
  <1>2. OfLocksAndSums(OwedRows, Owing(l, O, b, g, B))
    BY DEF OfLocksAndSums, Owing, SameLocks, SameSums, SameRows
  <1>3. ASSUME NEW d, NEW v, NEW w
        PROVE  OfLocksAndSums(OwedRows, Owing(l, O, b, g, B) \cap Turned(d, v, w))
    BY DEF OfLocksAndSums, Owing, Turned, SameLocks, SameSums, SameRows, SameDocs
  <1> QED
    BY <1>1, <1>2, <1>3

\* Where a call starts.
LEMMA FreshUntouched == Fresh(OwedRows) \in Standing(OwedRows) /\ {Fresh(OwedRows)} \subseteq Untouched
  <1>1. Fresh(OwedRows) \in Standing(OwedRows)
    <2>1. NoRow \in AccountRow
      BY DEF NoRow, AccountRow
    <2>2. NoEntries \in [Accounts -> Int]
      BY DEF NoEntries
    <2> QED
      BY <2>1, <2>2, LoanTypes DEF Fresh, Standing
  <1> QED
    BY <1>1 DEF Fresh, Untouched

\* The balances of a standing.
LEMMA BalanceType ==
    ASSUME NEW l \in LoanSet, NEW m \in Standing(OwedRows)
    PROVE  /\ m.row[LoanAccount[l]].bal \in Int /\ m.draft[LoanAccount[l]].bal \in Int
           /\ m.told \in Int /\ m.net \in Int
  BY LoanTypes DEF Standing, AccountRow

\* The account of a loan is locked.
LEMMA LoanLocked ==
    ASSUME NEW l \in LoanSet
    PROVE  Leads(OwedRows, << Do("lock", LoanAccount[l], 0) >>, Untouched,
                 Owing(l, {LoanAccount[l]}, 0, 0, Int))
  <1> DEFINE a == LoanAccount[l]  G == Untouched  H == Owing(l, {a}, 0, 0, Int)
  <1>1. ASSUME NEW k \in G, NEW m \in Standing(OwedRows), m.own = k.own \cup {a},
               SameSums(k, m), m.row[a] \in AccountRow, m.draft[a] = m.row[a]
        PROVE  m \in H
    <2>1. m.own = {a} /\ m.told = 0
      BY <1>1 DEF Untouched, SameSums
    <2>2. m.row[a].bal \in Int /\ m.draft[a].bal = m.row[a].bal + 0
      BY <1>1 DEF AccountRow
    <2> QED
      BY <2>1, <2>2 DEF Owing
  <1>2. G \in SUBSET Standing(OwedRows) /\ \A k \in G : a \notin k.own
    BY DEF Untouched
  <1>3. a \in OwedRows \cap Accounts
    BY LoanTypes
  <1> HIDE DEF G, H
  <1> QED
    BY <1>1, <1>2, <1>3, RowLocked DEF G, H

\* One more row is locked before it or after it.
LEMMA BothLocked ==
    ASSUME NEW c, NEW l \in LoanSet, c.l = l, c.with \notin OwedRows
    PROVE  Leads(OwedRows, LockBoth(c), Untouched, Owing(l, {LoanAccount[l]}, 0, 0, Int))
  <1> DEFINE s == << Do("lock", LoanAccount[l], 0) >>  t == << Do("lock", c.with, 0) >>
             G == Untouched  H == Owing(l, {LoanAccount[l]}, 0, 0, Int)
  <1>1. Leads(OwedRows, s, G, H)
    BY LoanLocked
  <1>2. Calm(OwedRows, Do("lock", c.with, 0))
    BY DEF Calm, Aside, Do, Stmt
  <1>3. Leads(OwedRows, t, G, G) /\ Leads(OwedRows, t, H, H)
    BY <1>2, CalmLeads, OwingOfLocks
  <1>4. LockBoth(c) = s \o t \/ LockBoth(c) = t \o s
    BY TwoOnes DEF LockBoth
  <1> HIDE DEF G, H, s, t
  <1>5. Leads(OwedRows, s \o t, G, H) /\ Leads(OwedRows, t \o s, G, H)
    BY <1>1, <1>3, LeadsOn
  <1>6. Leads(OwedRows, LockBoth(c), G, H)
    BY <1>4, <1>5
  <1> QED
    BY <1>6 DEF G, H

\* What is said of the statuses, of all of them or of one.
OfDocs(K) == \A k \in K, m \in Standing(OwedRows) : SameDocs(k, m) => m \in K

LEMMA TurnedOfDocs ==
    OfDocs(Standing(OwedRows)) /\ \A d, v, w : OfDocs(Turned(d, v, w))
  BY DEF OfDocs, Turned, SameDocs

\* The available balance of a loan's account is set, and its balance stays.
LEMMA OwingKept ==
    ASSUME NEW l \in LoanSet, NEW O, LoanAccount[l] \in O, NEW b \in Int, NEW g, NEW B, NEW K, OfDocs(K),
           NEW op \in {"floor", "recompute"}
    PROVE  Leads(OwedRows, << Do(op, LoanAccount[l], 0) >>,
                 Owing(l, O, b, g, B) \cap K, Owing(l, O, b, g, B) \cap K)
  <1> DEFINE a == LoanAccount[l]  G == Owing(l, O, b, g, B) \cap K
  <1>1. ASSUME NEW k \in G, NEW m \in Standing(OwedRows), Rebalances(a, k, m, 0) PROVE m \in G
    <2>1. m.draft[a].bal = k.draft[a].bal
      BY <1>1, BalanceType DEF Rebalances, Owing
    <2> QED
      BY <1>1, <2>1 DEF Rebalances, Owing, SameSums, OfDocs
  <1>2. G \in SUBSET Standing(OwedRows) /\ \A k \in G : a \in k.own
    BY DEF Owing
  <1>3. a \in OwedRows \cap Accounts
    BY LoanTypes
  <1> HIDE DEF G
  <1>4. Leads(OwedRows, << Do(op, a, 0) >>, G, G)
    BY <1>1, <1>2, <1>3, BalanceKept
  <1> QED
    BY <1>4 DEF G

\* An entry of n.
LEMMA OwingMoved ==
    ASSUME NEW l \in LoanSet, NEW O, LoanAccount[l] \in O, NEW b \in Int, NEW n \in Int, NEW g, NEW B,
           NEW K, OfDocs(K)
    PROVE  Leads(OwedRows, << Do("read", LoanAccount[l], 0) >>
                             \o << OnMeter("write", LoanAccount[l], n, Blank) >>,
                 Owing(l, O, b, g, B) \cap K, Owing(l, O, b + n, g, B) \cap K)
  <1> DEFINE a == LoanAccount[l]  G == Owing(l, O, b, g, B) \cap K  H == Owing(l, O, b + n, g, B) \cap K
  <1>1. ASSUME NEW k \in G, NEW m \in Standing(OwedRows),
               Rebalances(a, k, m, n * (IF Blank = ByNet THEN k.net ELSE 1))
        PROVE  m \in H
    <2>1. m.draft[a].bal = k.draft[a].bal + n
      BY <1>1 DEF Rebalances, Blank, ByNet
    <2>2. k.row[a].bal \in Int /\ k.draft[a].bal = k.row[a].bal + b
      BY BalanceType DEF Owing
    <2>3. m.draft[a].bal = k.row[a].bal + (b + n)
      BY <2>1, <2>2
    <2> QED
      BY <1>1, <2>3 DEF Rebalances, Owing, SameSums, OfDocs
  <1>2. G \in SUBSET Standing(OwedRows) /\ \A k \in G : a \in k.own
    BY DEF Owing
  <1>3. a \in OwedRows \cap Accounts
    BY LoanTypes
  <1> HIDE DEF G, H
  <1> QED
    BY <1>1, <1>2, <1>3, LegAdds DEF G, H

\* A status row of the loan makes its transition.
LEMMA OwingTurned ==
    ASSUME NEW l \in LoanSet, NEW d \in OwedRows \cap Docs, NEW O, d \notin O, NEW b, NEW g, NEW B,
           NEW v, NEW w, NEW op \in {"mark", "insert"}
    PROVE  Leads(OwedRows, << OnDoc(op, d, v, w) >>, Owing(l, O, b, g, B),
                 Owing(l, O \cup {d}, b, g, B) \cap Turned(d, v, w))
  <1> DEFINE s == OnDoc(op, d, v, w)
             G == Owing(l, O, b, g, B)  H == Owing(l, O \cup {d}, b, g, B) \cap Turned(d, v, w)
  <1>1. s.op \in {"mark", "insert"} /\ s.row = d /\ s.was = v /\ s.tag = w
    BY DEF OnDoc, Stmt
  <1> HIDE DEF s
  <1>2. ASSUME NEW k \in G, NEW m \in Standing(OwedRows), Does(OwedRows, s, k, m) PROVE m \in H
    <2>1. k \in Standing(OwedRows) /\ d \notin k.own
      BY DEF Owing
    <2>2. /\ m.own = k.own \cup {d} /\ SameRows(k, m) /\ SameSums(k, m)
          /\ m.was[d] = v /\ m.now[d] = w
      BY <1>1, <1>2, <2>1, MarkOne
    <2> QED
      BY <2>2 DEF Owing, Turned, SameRows, SameSums
  <1>3. G \in SUBSET Standing(OwedRows)
    BY DEF Owing
  <1> HIDE DEF G, H
  <1>4. Leads(OwedRows, << s >>, G, H)
    BY <1>1, <1>2, <1>3, LeadsByOne
  <1> QED
    BY <1>4 DEF G, H, s

\* Four statements, two by two.
LEMMA FourOnes ==
    ASSUME NEW a, NEW b, NEW c, NEW d
    PROVE  << a, b, c, d >> = (<< a >> \o << b >>) \o (<< c >> \o << d >>)
  <1>1. << a, b, c, d >> = << a, b >> \o << c, d >>
    OBVIOUS
  <1>2. << a, b >> = << a >> \o << b >> /\ << c, d >> = << c >> \o << d >>
    BY TwoOnes
  <1> QED
    BY <1>1, <1>2

\* Of what the core is told.
LEMMA OwingTold ==
    ASSUME NEW l \in LoanSet, NEW O, NEW b, NEW n \in Int, NEW B, NEW K, OfDocs(K)
    PROVE  Leads(OwedRows, << OnMeter("gl", NoOne, n, Blank) >>,
                 Owing(l, O, b, 0, B) \cap K, Owing(l, O, b, n, B) \cap K)
  <1> DEFINE G == Owing(l, O, b, 0, B) \cap K  H == Owing(l, O, b, n, B) \cap K
  <1>1. ASSUME NEW k \in G, NEW m \in Standing(OwedRows), SameLocks(k, m),
               m.told = k.told + n * (IF Blank = ByNet THEN k.net ELSE 1)
        PROVE  m \in H
    <2>1. m.told = n
      BY <1>1 DEF Owing, Blank, ByNet
    <2> QED
      BY <1>1, <2>1 DEF Owing, SameLocks, SameRows, OfDocs
  <1>2. G \in SUBSET Standing(OwedRows)
    BY DEF Owing
  <1> HIDE DEF G, H
  <1> QED
    BY <1>1, <1>2, CoreTold DEF G, H

\* What is said with a status is told by locks and sums, too.
LEMMA OwingWithDocs ==
    ASSUME NEW l, NEW O, NEW b, NEW g, NEW B, NEW K, OfDocs(K)
    PROVE  /\ OfLocksAndSums(OwedRows, Owing(l, O, b, g, B) \cap K)
           /\ Owing(l, O, b, g, B) \cap Standing(OwedRows) = Owing(l, O, b, g, B)
           /\ Owing(l, O, b, g, B) \cap K \in SUBSET Standing(OwedRows)
  BY DEF OfLocksAndSums, Owing, SameLocks, SameSums, SameRows, OfDocs

\* The debit of a loan's account, with the credit of another account.
LEMMA LentLeads ==
    ASSUME NEW l \in LoanSet, NEW w, w \notin OwedRows, NEW n \in Int, NEW O, LoanAccount[l] \in O,
           NEW B, NEW K, OfDocs(K)
    PROVE  Leads(OwedRows, TwoLegs(LoanAccount[l], w, n),
                 Owing(l, O, 0, 0, B) \cap K, Owing(l, O, -n, 0, B) \cap K)
  <1> DEFINE a == LoanAccount[l]  G == Owing(l, O, 0, 0, B) \cap K  H == Owing(l, O, -n, 0, B) \cap K
             p == << Do("read", a, 0) >> \o << OnMeter("write", a, -n, Blank) >>
             q == << Do("read", w, 0) >> \o << OnMeter("write", w, n, Blank) >>
  <1>1. TwoLegs(a, w, n) = p \o q
    BY FourOnes DEF TwoLegs, Do, OnMeter
  <1>2. -n \in Int /\ 0 \in Int /\ 0 + (-n) = -n
    OBVIOUS
  <1>3. Leads(OwedRows, p, G, H)
    <2>1. Leads(OwedRows, p, G, Owing(l, O, 0 + (-n), 0, B) \cap K)
      BY <1>2, OwingMoved
    <2> HIDE DEF p, G
    <2> QED
      BY <1>2, <2>1
  <1>4. Leads(OwedRows, q, H, H)
    BY OwingWithDocs, LegCalm
  <1> HIDE DEF p, q, G, H
  <1> QED
    BY <1>1, <1>3, <1>4, LeadsOn DEF G, H

\* apply_for_loan: the loan's account, empty, and the loan's row.
Applied(l) == Owing(l, {LoanAccount[l], l}, 0, 0, Int) \cap Turned(l, Absent, "pending")

LEMMA ApplyLeads ==
    ASSUME NEW c, NEW l \in LoanSet, c.l = l
    PROVE  Leads(OwedRows, Apply(c), Untouched, Applied(l))
  <1> DEFINE X == OwedRows  a == LoanAccount[l]  s == Do("floor", a, 0)
             t == OnDoc("insert", l, Absent, "pending")
             F == Untouched  G == Owing(l, {a}, 0, 0, Int)  H == Applied(l)
  <1>0. a \in X \cap Accounts /\ l \in X \cap Docs /\ l \notin {a} /\ {a} \cup {l} = {a, l}
    BY LoanTypes
  <1>1. Apply(c) = (<< s >> \o << t >>) \o Completed
    <2>1. Apply(c) = << s, t >> \o Completed
      BY DEF Apply
    <2> HIDE DEF s, t
    <2> QED
      BY <2>1, TwoOnes
  <1>2. s.op = "floor" /\ s.row = a
    BY DEF Do, Stmt
  <1>3. Leads(X, << s >>, F, G)
    <2> HIDE DEF s
    <2>1. ASSUME NEW k \in F, NEW m \in Standing(X), Does(X, s, k, m) PROVE m \in G
      <3>1. k \in Standing(X) /\ a \notin k.own /\ k.own = {} /\ k.told = 0
        BY DEF Untouched
      <3>2. ChangesRow(s, k, m)
        BY <1>0, <1>2, <2>1 DEF Does, AccountWrites, DocWrites
      <3>3. PICK v \in AccountRow : TakesRow(k, m, a, v, RowAfter(s, k, v)) /\ SameSums(k, m)
        BY <1>2, <3>1, <3>2 DEF ChangesRow
      <3>4. RowAfter(s, k, v).bal = v.bal + 0 /\ v.bal \in Int
        BY <1>2 DEF RowAfter, AccountRow
      <3>5. k.row \in [X \cap Accounts -> AccountRow] /\ k.draft \in [X \cap Accounts -> AccountRow]
        BY <3>1 DEF Standing
      <3>6. m.own = {a} /\ m.row[a] = v /\ m.draft[a] = RowAfter(s, k, v) /\ m.told = 0
        BY <1>0, <3>1, <3>3, <3>5 DEF TakesRow, SameSums
      <3> QED
        BY <3>4, <3>6 DEF Owing
    <2>2. F \in SUBSET Standing(X) /\ s.op # "when"
      BY <1>2 DEF Untouched
    <2> HIDE DEF F, G
    <2> QED
      BY <2>1, <2>2, LeadsByOne
  <1>4. Leads(X, << t >>, G, H)
    BY <1>0, OwingTurned DEF Applied
  <1>5. Leads(X, Completed, H, H)
    <2>1. H \in SUBSET Standing(X)
      BY DEF Applied, Owing
    <2> QED
      BY <2>1, CompletedKeeps
  <1> HIDE DEF X, F, G, H, s, t
  <1>6. Leads(X, (<< s >> \o << t >>) \o Completed, F, H)
    BY <1>3, <1>4, <1>5, LeadsOn
  <1> QED
    BY <1>1, <1>6 DEF X, F, H

\* disburse_loan: the loan is active and its account below zero.
Disbursed(l, n) == Owing(l, {LoanAccount[l], l}, -n, n, Int) \cap Turned(l, "pending", "active")

LEMMA DisburseLeads ==
    ASSUME NEW c, NEW l \in LoanSet, c.l = l, c.with \notin OwedRows
    PROVE  Leads(OwedRows, Disburse(c), Untouched, Disbursed(l, Principal[l]))
  <1> DEFINE X == OwedRows  a == LoanAccount[l]  n == Principal[l]  w == c.with  K == Standing(OwedRows)
             F == Untouched  G1 == Owing(l, {a}, 0, 0, Int)  G2 == Owing(l, {a}, -n, 0, Int)
             T == Turned(l, "pending", "active")
             G3 == Owing(l, {a, l}, -n, 0, Int) \cap T  H == Disbursed(l, n)
             p1 == << OnDoc("expect", c.l, "pending", Blank) >>  p2 == LockBoth(c)
             p3 == << Do("floor", a, 0) >>  p4 == TwoLegs(a, c.with, n)  p5 == Refreshed(a)
             p6 == Refreshed(c.with)  p7 == << OnDoc("mark", c.l, "pending", "active") >>
             p8 == Core(n)  p9 == Completed
  <1>0. /\ n \in Int /\ -n \in Int /\ 0 \in Int /\ a \in {a} /\ l \in X \cap Docs /\ l \notin {a}
        /\ {a} \cup {l} = {a, l}
    BY LoanTypes
  <1>1. Disburse(c) = p1 \o p2 \o p3 \o p4 \o p5 \o p6 \o p7 \o p8 \o p9
    BY DEF Disburse
  <1>2. F \in SUBSET K /\ H \in SUBSET K
    BY DEF Untouched, Disbursed, Owing
  <1>3. Leads(X, p1, F, F)
    BY <1>2, ExpectLeads
  <1>4. Leads(X, p2, F, G1)
    BY BothLocked
  <1>5. G1 \cap K = G1 /\ G2 \cap K = G2 /\ OfDocs(K) /\ OfDocs(T)
    BY TurnedOfDocs, OwingWithDocs, ZenonT(40)
  <1>6. Leads(X, p3, G1, G1) /\ Leads(X, p5, G2, G2)
    <2>1. Leads(X, p3, G1 \cap K, G1 \cap K) /\ Leads(X, p5, G2 \cap K, G2 \cap K)
      BY <1>0, <1>5, OwingKept DEF Refreshed
    <2> HIDE DEF p3, p5, G1, G2, K
    <2> QED
      BY <1>5, <2>1
  <1>7. Leads(X, p4, G1, G2)
    <2>1. Leads(X, p4, G1 \cap K, G2 \cap K)
      BY <1>0, <1>5, LentLeads
    <2> HIDE DEF p4, G1, G2, K
    <2> QED
      BY <1>5, <2>1
  <1>8. Leads(X, p6, G2, G2)
    <2>1. Calm(X, Do("recompute", w, 0)) /\ OfLocksAndSums(X, G2)
      BY OwingOfLocks DEF Calm, Aside, Do, Stmt
    <2> QED
      BY <2>1, CalmLeads DEF Refreshed
  <1>9. Leads(X, p7, G2, G3)
    BY <1>0, OwingTurned
  <1>10. Leads(X, p8, G3, H)
    <2>1. Leads(X, << OnMeter("gl", NoOne, n, Blank) >>, G3, H)
      BY <1>0, <1>5, OwingTold DEF Disbursed
    <2>2. p8 = << OnMeter("gl", NoOne, n, Blank) >>
      BY DEF Core, Do, OnMeter
    <2> HIDE DEF p8
    <2> QED
      BY <2>1, <2>2
  <1>11. Leads(X, p9, H, H)
    BY <1>2, CompletedKeeps
  <1> HIDE DEF X, F, G1, G2, G3, H, p1, p2, p3, p4, p5, p6, p7, p8, p9
  <1>12. Leads(X, p1 \o p2 \o p3 \o p4 \o p5, F, G2)
    BY <1>3, <1>4, <1>6, <1>7, LeadsOn
  <1>13. Leads(X, p1 \o p2 \o p3 \o p4 \o p5 \o p6 \o p7 \o p8 \o p9, F, H)
    BY <1>8, <1>9, <1>10, <1>11, <1>12, LeadsOn
  <1> QED
    BY <1>1, <1>13 DEF X, F, H

-----------------------------------------------------------------------------
\* The net is what the account is below zero, which it is.
Negative == {x \in Int : x < 0}

LEMMA NetLeads ==
    ASSUME NEW l \in LoanSet, NEW O, LoanAccount[l] \in O, NEW K, OfDocs(K)
    PROVE  Leads(OwedRows, << Do("net", LoanAccount[l], 0) >>, Owing(l, O, 0, 0, Int) \cap K,
                 {m \in Owing(l, O, 0, 0, Negative) \cap K : m.net = -m.row[LoanAccount[l]].bal})
  <1> DEFINE a == LoanAccount[l]  s == Do("net", a, 0)  G == Owing(l, O, 0, 0, Int) \cap K
             H == {m \in Owing(l, O, 0, 0, Negative) \cap K : m.net = -m.row[a].bal}
  <1>1. s.op = "net" /\ s.row = a
    BY DEF Do, Stmt
  <1> HIDE DEF s
  <1>2. ASSUME NEW k \in G, NEW m \in Standing(OwedRows), Does(OwedRows, s, k, m) PROVE m \in H
    <2>1. m.net > 0 /\ (a \in k.own => m.net = -k.draft[a].bal) /\ SameLocks(k, m) /\ m.told = k.told
      BY <1>1, <1>2 DEF Does, AccountWrites, DocWrites
    <2>2. a \in k.own /\ k.draft[a].bal = k.row[a].bal + 0 /\ k.row[a].bal \in Int
      BY BalanceType DEF Owing
    <2>3. m.row[a].bal = k.row[a].bal /\ m.draft[a].bal = k.draft[a].bal
      BY <2>1 DEF SameLocks, SameRows
    <2>4. m.row[a].bal \in Negative /\ m.net = -m.row[a].bal
      BY <2>1, <2>2, <2>3 DEF Negative
    <2> QED
      BY <2>1, <2>2, <2>3, <2>4 DEF Owing, SameLocks, OfDocs
  <1>3. G \in SUBSET Standing(OwedRows)
    BY DEF Owing
  <1> HIDE DEF G, H
  <1>4. Leads(OwedRows, << s >>, G, H)
    BY <1>1, <1>2, <1>3, LeadsByOne
  <1> QED
    BY <1>4 DEF G, H, s

\* admin_accrue_interest: the day is accrued, and the debt that there is grows.
Accrued(l, n) ==
    Owing(l, {LoanAccount[l], AccruedToday[l]}, -n, n, Negative)
        \cap Turned(AccruedToday[l], "due", "accrued")

LEMMA AccrueLeads ==
    ASSUME NEW c, NEW l \in LoanSet, c.l = l
    PROVE  Leads(OwedRows, Accrue(c), Untouched, Accrued(l, Interest[l]))
  <1> DEFINE X == OwedRows  a == LoanAccount[l]  d == AccruedToday[l]  n == Interest[l]
             F == Untouched  G1 == Owing(l, {a}, 0, 0, Int)
             T == Turned(d, "due", "accrued")  O == {a, d}
             G2 == Owing(l, O, 0, 0, Int) \cap T
             G3 == Owing(l, O, 0, 0, Negative) \cap T
             G4 == Owing(l, O, -n, 0, Negative) \cap T  H == Accrued(l, n)
             s1 == OnDoc("expect", c.l, "active", Blank)  s2 == Do("lock", a, 0)
             s3 == Do("lock", LoanCash, 0)  s4 == OnDoc("mark", AccruedToday[c.l], "due", "accrued")
             s5 == Do("net", a, 0)  s6 == Do("floor", a, 0)
             p1 == << s1 >>  p2 == << s2 >>  p3 == << s3 >>  p4 == << s4 >>  p5 == << s5 >>
             p6 == << s6 >>
             p7 == TwoLegs(a, LoanCash, n)  p8 == Refreshed(a)  p9 == Core(n)  p10 == Completed
  <1>0. /\ n \in Int /\ -n \in Int /\ 0 \in Int /\ a \in O /\ d \in X \cap Docs /\ d \notin {a}
        /\ {a} \cup {d} = O /\ LoanCash \notin X
    BY LoanTypes
  <1>1. Accrue(c) = << s1, s2, s3, s4, s5, s6 >> \o p7 \o p8 \o p9 \o p10
    BY DEF Accrue
  <1>2. F \in SUBSET Standing(X) /\ H \in SUBSET Standing(X)
    BY DEF Untouched, Accrued, Owing
  <1>3. Leads(X, p1, F, F)
    BY <1>2, ExpectLeads
  <1>4. Leads(X, p2, F, G1)
    BY LoanLocked
  <1>5. OfDocs(T)
    BY TurnedOfDocs
  <1>6. Leads(X, p3, G1, G1)
    <2>1. Calm(X, s3) /\ OfLocksAndSums(X, G1)
      BY <1>0, OwingOfLocks DEF Calm, Aside, Do, Stmt
    <2> QED
      BY <2>1, CalmLeads
  <1>7. Leads(X, p4, G1, G2)
    BY <1>0, OwingTurned
  <1>8. Leads(X, p5, G2, G3)
    <2> DEFINE N == {m \in G3 : m.net = -m.row[a].bal}
    <2>1. Leads(X, p5, G2, N)
      BY <1>0, <1>5, NetLeads
    <2>2. N \subseteq G3 /\ G2 \subseteq G2
      OBVIOUS
    <2> HIDE DEF N, G2, G3, p5
    <2> QED
      BY <2>1, <2>2, LeadsAlso
  <1>9. Leads(X, p6, G3, G3) /\ Leads(X, p8, G4, G4)
    BY <1>0, <1>5, OwingKept DEF Refreshed
  <1>10. Leads(X, p7, G3, G4)
    BY <1>0, <1>5, LentLeads
  <1>11. Leads(X, p9, G4, H)
    <2>1. Leads(X, << OnMeter("gl", NoOne, n, Blank) >>, G4, H)
      BY <1>0, <1>5, OwingTold DEF Accrued
    <2>2. p9 = << OnMeter("gl", NoOne, n, Blank) >>
      BY DEF Core, Do, OnMeter
    <2> HIDE DEF p9
    <2> QED
      BY <2>1, <2>2
  <1>12. Leads(X, p10, H, H)
    BY <1>2, CompletedKeeps
  <1>13. << s1, s2, s3, s4, s5, s6 >> = (p1 \o (p2 \o p3)) \o (p4 \o (p5 \o p6))
    <2> HIDE DEF s1, s2, s3, s4, s5, s6
    <2>1. << s1, s2, s3, s4, s5, s6 >> = << s1, s2, s3 >> \o << s4, s5, s6 >>
      OBVIOUS
    <2> QED
      BY <2>1, ThreeOnes
  <1> DEFINE p0 == << s1, s2, s3, s4, s5, s6 >>
  <1>14. Accrue(c) = p0 \o p7 \o p8 \o p9 \o p10 /\ p0 = (p1 \o (p2 \o p3)) \o (p4 \o (p5 \o p6))
    BY <1>1, <1>13
  <1> HIDE DEF X, F, G1, G2, G3, G4, H, p0, p1, p2, p3, p4, p5, p6, p7, p8, p9, p10
  <1>15. Leads(X, (p1 \o (p2 \o p3)) \o (p4 \o (p5 \o p6)), F, G3)
    BY <1>3, <1>4, <1>6, <1>7, <1>8, <1>9, LeadsOn
  <1>16. Leads(X, p0, F, G3)
    BY <1>14, <1>15
  <1>17. Leads(X, p0 \o p7 \o p8 \o p9 \o p10, F, H)
    BY <1>9, <1>10, <1>11, <1>12, <1>16, LeadsOn
  <1> QED
    BY <1>14, <1>17 DEF X, F, H

-----------------------------------------------------------------------------
(* repay_loan. *)

\* The posting of a repayment, by what it does to the loan's account and status.
LEMMA PayLeads ==
    ASSUME NEW c, c.l \in LoanSet, c.with \notin OwedRows, NEW n, NEW tag, NEW then,
           NEW G, OfLocksAndSums(OwedRows, G), NEW N, OfLocksAndSums(OwedRows, N), NEW K, NEW H,
           Leads(OwedRows, << Do("read", LoanAccount[c.l], 0) >>
                             \o << OnMeter("write", LoanAccount[c.l], n, tag) >>, G, N),
           Leads(OwedRows, << Do("recompute", LoanAccount[c.l], 0) >>, N, N),
           Leads(OwedRows, then, N, K),
           Leads(OwedRows, << OnMeter("gl", NoOne, -n, tag) >>, K, H)
    PROVE  Leads(OwedRows, Pay(c, n, tag, then), G, H)
  <1> DEFINE X == OwedRows  w == c.with  a == LoanAccount[c.l]
             s1 == Do("floor", w, 0)  s2 == Do("read", w, 0)  s3 == OnMeter("write", w, -n, tag)
             s4 == Do("read", a, 0)  s5 == OnMeter("write", a, n, tag)
             p0 == << s1, s2, s3, s4, s5 >>  p1 == << s1 >>  p2 == << s2 >>  p7 == << s3 >>
             p3 == << s4 >> \o << s5 >>  p4 == Refreshed(w)  p5 == Refreshed(a)
             p6 == << OnMeter("gl", NoOne, -n, tag) >>
  <1>1. Pay(c, n, tag, then) = p0 \o p4 \o p5 \o then \o p6
    BY DEF Pay
  <1>2. p0 = p1 \o (p2 \o (p7 \o p3))
    BY FiveOnes
  <1>3. Leads(X, p1, G, G) /\ Leads(X, p2, G, G) /\ Leads(X, p7, G, G)
    <2>1. Calm(X, s1) /\ Calm(X, s2) /\ Calm(X, s3)
      BY DEF Calm, Aside, Do, OnMeter, Stmt
    <2> QED
      BY <2>1, CalmLeads
  <1>4. Leads(X, p4, N, N)
    <2>1. Calm(X, Do("recompute", w, 0))
      BY DEF Calm, Aside, Do, Stmt
    <2> QED
      BY <2>1, CalmLeads DEF Refreshed
  <1>5. Leads(X, p3, G, N) /\ Leads(X, p5, N, N) /\ Leads(X, p6, K, H)
    BY DEF Refreshed
  <1> HIDE DEF X, p0, p1, p2, p3, p4, p5, p6, p7
  <1>6. Leads(X, p1 \o (p2 \o (p7 \o p3)), G, N)
    BY <1>3, <1>5, LeadsOn
  <1>7. Leads(X, p0, G, N)
    BY <1>2, <1>6
  <1>8. Leads(X, p0 \o p4 \o p5 \o then \o p6, G, H)
    <2>1. Leads(X, then, N, K)
      BY DEF X
    <2> QED
      BY <1>4, <1>5, <1>7, <2>1, LeadsOn
  <1> QED
    BY <1>1, <1>8 DEF X

\* An unguarded change of a status in view that is not locked.
LEMMA SetOne ==
    ASSUME NEW X, NEW d \in X \cap Docs, NEW v, NEW w,
           NEW G \in SUBSET Standing(X), \A k \in G : d \notin k.own, NEW H,
           \A k \in G, m \in Standing(X) :
               m.own = k.own \cup {d} /\ m.now[d] = w /\ SameRows(k, m) /\ SameSums(k, m) => m \in H
    PROVE  Leads(X, << OnDoc("set", d, v, w) >>, G, H)
  <1> DEFINE s == OnDoc("set", d, v, w)
  <1>1. s.op = "set" /\ s.row = d /\ s.tag = w
    BY DEF OnDoc, Stmt
  <1> HIDE DEF s
  <1>2. ASSUME NEW k \in G, NEW m \in Standing(X), Does(X, s, k, m) PROVE m \in H
    <2>1. ChangesDoc(s, k, m)
      BY <1>1, <1>2 DEF Does, AccountWrites, DocWrites
    <2>2. PICK x \in STRING : /\ TakesDoc(k, m, d, x, StatusAfter(s, x))
                              /\ SameRows(k, m) /\ SameSums(k, m)
      BY <1>1, <2>1 DEF ChangesDoc
    <2>3. StatusAfter(s, x) = w
      BY <1>1 DEF StatusAfter
    <2>4. k.now \in [X \cap Docs -> STRING]
      BY DEF Standing
    <2> QED
      BY <2>2, <2>3, <2>4 DEF TakesDoc
  <1>3. Leads(X, << s >>, G, H)
    BY <1>1, <1>2, LeadsByOne
  <1> QED
    BY <1>3 DEF s

\* All that is owed has been paid, and the loan is closed.
Paid(l, O, g) ==
    {m \in Standing(OwedRows) :
        /\ m.own = O /\ m.row[LoanAccount[l]].bal \in Negative /\ m.draft[LoanAccount[l]].bal = 0
        /\ m.net = -m.row[LoanAccount[l]].bal /\ m.told = g * m.net}
Closed(l) == {m \in Standing(OwedRows) : m.now[l] = "closed"}

LEMMA CloseLeads ==
    ASSUME NEW l \in LoanSet
    PROVE  Leads(OwedRows, CloseIfPaid(l), Paid(l, {LoanAccount[l]}, 0),
                 Paid(l, {LoanAccount[l], l}, 0) \cap Closed(l))
  <1> DEFINE X == OwedRows  a == LoanAccount[l]  G == Paid(l, {a}, 0)
             H == Paid(l, {a, l}, 0) \cap Closed(l)  I == {k \in Standing(X) : FALSE}
             p == << OnDoc("set", l, Blank, "closed") >>
  <1>1. a \notin Docs /\ l \in X \cap Docs /\ l \notin {a} /\ {a} \cup {l} = {a, l}
    BY LoanTypes
  <1>2. G \in SUBSET Standing(X) /\ (\A k \in G : l \notin k.own) /\ I \in SUBSET Standing(X)
    BY <1>1 DEF Paid
  <1>3. ASSUME NEW k \in G, NEW m \in Standing(X), m.own = k.own \cup {l}, m.now[l] = "closed",
               SameRows(k, m), SameSums(k, m)
        PROVE  m \in H
    BY <1>1, <1>3 DEF Paid, Closed, SameRows, SameSums
  <1>4. \A k \in G : ~MayHold(a, "owes", 0, k)
    <2> SUFFICES ASSUME NEW k \in G PROVE ~MayHold(a, "owes", 0, k)
      OBVIOUS
    <2>1. a \in k.own /\ k.draft[a].bal = 0
      BY DEF Paid
    <2>2. HoldsIn(a, "owes", 0, k) => -k.draft[a].bal > 0
      BY <1>1 DEF HoldsIn
    <2> QED
      BY <2>1, <2>2 DEF MayHold
  <1>6. I \subseteq H
    OBVIOUS
  <1> HIDE DEF G, H, I
  <1>5. Leads(X, p, G, H)
    BY <1>1, <1>2, <1>3, SetOne
  <1>7. Leads(X, << >>, I, H)
    BY <1>2, <1>6, LeadsNowhere
  <1> HIDE DEF p, X
  <1>8. Leads(X, IfElse(a, "owes", 0, << >>, p), G, H)
    BY <1>2, <1>4, <1>5, <1>7, BranchElse DEF X
  <1> QED
    BY <1>8 DEF G, H, p, X, CloseIfPaid

\* A repayment of less than is owed.
Above(n) == {x \in Int : -x > n}

LEMMA PartLeads ==
    ASSUME NEW c, NEW l \in LoanSet, c.l = l, c.with \notin OwedRows, NEW n \in Nat
    PROVE  Leads(OwedRows, Pay(c, n, Blank, << >>), Owing(l, {LoanAccount[l]}, 0, 0, Above(n)),
                 Owing(l, {LoanAccount[l]}, n, -n, Above(n)))
  <1> DEFINE X == OwedRows  a == LoanAccount[l]  K == Standing(X)
             G == Owing(l, {a}, 0, 0, Above(n))  N == Owing(l, {a}, n, 0, Above(n))
             H == Owing(l, {a}, n, -n, Above(n))
             p == << Do("read", a, 0) >> \o << OnMeter("write", a, n, Blank) >>
             q == << Do("recompute", a, 0) >>  t == << OnMeter("gl", NoOne, -n, Blank) >>
  <1>0. n \in Int /\ -n \in Int /\ 0 \in Int /\ 0 + n = n /\ a \in {a}
    OBVIOUS
  <1>1. OfDocs(K) /\ G \cap K = G /\ N \cap K = N /\ H \cap K = H /\ N \in SUBSET Standing(X)
    <2>1. OfDocs(K)
      BY TurnedOfDocs
    <2>2. G \cap K = G /\ N \cap K = N /\ H \cap K = H
      BY <2>1, OwingWithDocs, ZenonT(40)
    <2> QED
      BY <2>1, <2>2 DEF Owing
  <1>2. OfLocksAndSums(X, G) /\ OfLocksAndSums(X, N)
    BY OwingOfLocks
  <1>3. Leads(X, p, G, N)
    <2>1. Leads(X, p, G \cap K, Owing(l, {a}, 0 + n, 0, Above(n)) \cap K)
      BY <1>0, <1>1, OwingMoved
    <2> HIDE DEF p, G, K
    <2> QED
      BY <1>0, <1>1, <2>1
  <1>4. Leads(X, q, N, N)
    <2>1. Leads(X, q, N \cap K, N \cap K)
      BY <1>0, <1>1, OwingKept
    <2> HIDE DEF q, N, K
    <2> QED
      BY <1>1, <2>1
  <1>5. Leads(X, t, N, H)
    <2>1. Leads(X, t, N \cap K, H \cap K)
      BY <1>0, <1>1, OwingTold
    <2> HIDE DEF t, N, K, H
    <2> QED
      BY <1>1, <2>1
  <1>6. Leads(X, << >>, N, N)
    BY <1>1, LeadsNowhere
  <1> HIDE DEF G, N, H
  <1>7. Leads(X, Pay(c, n, Blank, << >>), G, H)
    BY <1>2, <1>3, <1>4, <1>5, <1>6, PayLeads
  <1> QED
    BY <1>7 DEF G, H

\* The repayment of all that is owed.
LEMMA AllLeads ==
    ASSUME NEW c, NEW l \in LoanSet, c.l = l, c.with \notin OwedRows
    PROVE  Leads(OwedRows, << Do("net", LoanAccount[l], 0) >> \o Pay(c, 1, ByNet, CloseIfPaid(l)),
                 Owing(l, {LoanAccount[l]}, 0, 0, Int), Paid(l, {LoanAccount[l], l}, -1) \cap Closed(l))
  <1> DEFINE X == OwedRows  a == LoanAccount[l]  K == Standing(X)  G == Owing(l, {a}, 0, 0, Int)
             G2 == {m \in Owing(l, {a}, 0, 0, Negative) \cap K : m.net = -m.row[a].bal}
             N == Paid(l, {a}, 0)  M == Paid(l, {a, l}, 0) \cap Closed(l)
             H == Paid(l, {a, l}, -1) \cap Closed(l)
             p1 == << Do("net", a, 0) >>
             p == << Do("read", a, 0) >> \o << OnMeter("write", a, 1, ByNet) >>
             q == << Do("recompute", a, 0) >>  t == << OnMeter("gl", NoOne, -1, ByNet) >>
  <1>0. a \in {a} /\ a \in X \cap Accounts /\ 1 \in Int /\ -1 \in Int
    BY LoanTypes
  <1>1. OfDocs(K) /\ G \cap K = G
    BY TurnedOfDocs, OwingWithDocs
  <1>2. Leads(X, p1, G, G2)
    <2>1. Leads(X, p1, G \cap K, G2)
      BY <1>0, <1>1, NetLeads
    <2> HIDE DEF p1, G, G2, K
    <2> QED
      BY <1>1, <2>1
  <1>3. OfLocksAndSums(X, G2) /\ OfLocksAndSums(X, N)
    <2>1. OfLocksAndSums(X, N)
      BY DEF OfLocksAndSums, Paid, SameLocks, SameSums, SameRows
    <2>2. OfLocksAndSums(X, G2)
      BY DEF OfLocksAndSums, Owing, SameLocks, SameSums, SameRows
    <2> QED
      BY <2>1, <2>2
  <1>4. Leads(X, p, G2, N)
    <2>1. ASSUME NEW k \in G2, NEW m \in Standing(X),
                 Rebalances(a, k, m, 1 * (IF ByNet = ByNet THEN k.net ELSE 1))
          PROVE  m \in N
      <3>1. k.row[a].bal \in Int /\ k.net = -k.row[a].bal /\ k.draft[a].bal = k.row[a].bal + 0
        BY BalanceType DEF Owing
      <3>2. m.draft[a].bal = 0
        BY <2>1, <3>1 DEF Rebalances
      <3>3. m.told = 0 * m.net
        <4>1. m.told = 0
          BY <2>1 DEF Rebalances, SameSums, Owing
        <4>2. m.net \in Int
          BY BalanceType
        <4> QED
          BY <4>1, <4>2
      <3> QED
        BY <2>1, <3>1, <3>2, <3>3 DEF Rebalances, SameSums, Owing, Paid
    <2>2. G2 \in SUBSET Standing(X) /\ \A k \in G2 : a \in k.own
      BY DEF Owing
    <2> HIDE DEF G2, N
    <2> QED
      BY <1>0, <2>1, <2>2, LegAdds
  <1>5. Leads(X, q, N, N)
    <2>1. ASSUME NEW k \in N, NEW m \in Standing(X), Rebalances(a, k, m, 0) PROVE m \in N
      BY <2>1 DEF Rebalances, Paid, SameSums
    <2>2. N \in SUBSET Standing(X) /\ \A k \in N : a \in k.own
      BY DEF Paid
    <2> HIDE DEF N
    <2> QED
      BY <1>0, <2>1, <2>2, BalanceKept
  <1>6. Leads(X, t, M, H)
    <2>1. ASSUME NEW k \in M, NEW m \in Standing(X), SameLocks(k, m), m.net = k.net,
                 m.told = k.told + (-1) * (IF ByNet = ByNet THEN k.net ELSE 1)
          PROVE  m \in H
      <3>1. k.net \in Int /\ k.told = 0 * k.net
        BY BalanceType DEF Paid
      <3>2. m.told = (-1) * m.net
        BY <2>1, <3>1
      <3> QED
        BY <2>1, <3>2 DEF SameLocks, SameRows, SameDocs, Paid, Closed
    <2>2. M \in SUBSET Standing(X)
      BY DEF Paid
    <2> HIDE DEF M, H
    <2> QED
      BY <1>0, <2>1, <2>2, CoreTold
  <1>7. Leads(X, CloseIfPaid(l), N, M)
    BY CloseLeads
  <1> HIDE DEF G, G2, N, M, H
  <1>8. Leads(X, Pay(c, 1, ByNet, CloseIfPaid(l)), G2, H)
    BY <1>3, <1>4, <1>5, <1>6, <1>7, PayLeads
  <1>9. Leads(X, p1 \o Pay(c, 1, ByNet, CloseIfPaid(l)), G, H)
    <2> HIDE DEF p1
    <2> QED
      BY <1>2, <1>8, LeadsOn
  <1> QED
    BY <1>9 DEF G, H

\* repay_loan, in either case.
Repayment(l, n) ==
    Owing(l, {LoanAccount[l]}, n, -n, Above(n)) \cup (Paid(l, {LoanAccount[l], l}, -1) \cap Closed(l))

LEMMA RepayLeads ==
    ASSUME NEW c, NEW l \in LoanSet, c.l = l, c.amt \in Nat, c.with \notin OwedRows, c.with \in Accounts
    PROVE  Leads(OwedRows, Repay(c), Untouched, Repayment(l, c.amt))
  <1> DEFINE X == OwedRows  a == LoanAccount[l]  n == c.amt  K == Standing(X)
             F == Untouched  G == Owing(l, {a}, 0, 0, Int)  I == Owing(l, {a}, 0, 0, Above(n))
             H1 == Owing(l, {a}, n, -n, Above(n))  H2 == Paid(l, {a, l}, -1) \cap Closed(l)
             H == Repayment(l, n)
             part == Pay(c, n, Blank, << >>)
             all == << Do("net", a, 0) >> \o Pay(c, 1, ByNet, CloseIfPaid(c.l))
             p1 == << OnDoc("expect", c.l, "active", Blank) >>  p2 == IsOpen(c.with)  p3 == LockBoth(c)
             p4 == << Do("funds", c.with, n) >>  p5 == IfElse(a, "owes", n, part, all)
             p6 == Completed
  <1>1. Repay(c) = p1 \o p2 \o p3 \o p2 \o p4 \o p5 \o p6
    BY DEF Repay
  <1>2. F \in SUBSET K /\ G \in SUBSET K /\ H \in SUBSET K /\ H1 \subseteq H /\ H2 \subseteq H
    BY DEF Untouched, Owing, Paid, Repayment
  <1>3. Leads(X, p1, F, F)
    BY <1>2, ExpectLeads
  <1>4. Leads(X, p2, F, F) /\ Leads(X, p2, G, G)
    <2>1. p2 = << >>
      BY LoanTypes DEF IsOpen
    <2>2. Leads(X, << >>, F, F) /\ Leads(X, << >>, G, G)
      BY <1>2, LeadsNowhere
    <2> HIDE DEF p2, X, F, G
    <2> QED
      BY <2>1, <2>2
  <1>5. Leads(X, p3, F, G)
    BY BothLocked
  <1>6. Leads(X, p4, G, G)
    <2>1. Calm(X, Do("funds", c.with, n)) /\ OfLocksAndSums(X, G)
      BY OwingOfLocks DEF Calm, Aside, Do, Stmt
    <2> QED
      BY <2>1, CalmLeads
  <1>7. Leads(X, part, I, H)
    <2>1. Leads(X, part, I, H1) /\ I \subseteq I
      BY PartLeads
    <2> HIDE DEF part, X, I, H1, H
    <2> QED
      BY <1>2, <2>1, LeadsAlso
  <1>8. Leads(X, all, G, H)
    <2>1. Leads(X, all, G, H2) /\ G \subseteq G
      BY AllLeads
    <2> HIDE DEF all, X, G, H2, H
    <2> QED
      BY <1>2, <2>1, LeadsAlso
  <1>9. \A k \in G : MayHold(a, "owes", n, k) => k \in I
    <2> SUFFICES ASSUME NEW k \in G, MayHold(a, "owes", n, k) PROVE k \in I
      OBVIOUS
    <2>1. a \in k.own /\ a \notin Docs
      BY LoanTypes DEF Owing
    <2>2. HoldsIn(a, "owes", n, k)
      BY <2>1 DEF MayHold
    <2>3. -k.draft[a].bal > n
      BY <2>1, <2>2 DEF HoldsIn
    <2>4. k.row[a].bal \in Int /\ k.draft[a].bal = k.row[a].bal + 0
      BY BalanceType DEF Owing
    <2>5. k.row[a].bal \in Above(n)
      BY <2>3, <2>4 DEF Above
    <2> QED
      BY <2>5 DEF Owing
  <1>10. \A k \in G : MayFail(a, "owes", n, k) => k \in G
    OBVIOUS
  <1> HIDE DEF X, F, G, H, I, H1, H2, K, part, all, p1, p2, p3, p4, p6
  <1>11. Leads(X, p5, G, H)
    <2> HIDE DEF a, n
    <2> QED
      BY <1>2, <1>7, <1>8, <1>9, <1>10, BranchElse DEF K
  <1>12. Leads(X, p6, H, H)
    BY <1>2, CompletedKeeps DEF p6, K
  <1> HIDE DEF p5
  <1>13. Leads(X, p1 \o p2 \o p3 \o p2 \o p4 \o p5 \o p6, F, H)
    BY <1>3, <1>4, <1>5, <1>6, <1>11, <1>12, LeadsOn
  <1> QED
    BY <1>1, <1>13 DEF X, F, H, n

-----------------------------------------------------------------------------
(* repay_loan, when a loan's account pays: of this loan or of another. *)

\* The accounts O are locked, and none has moved.
LockedOnly(O) ==
    {m \in Standing(OwedRows) : m.own = O /\ \A d \in O : m.draft[d].bal = m.row[d].bal}

\* One more lock.
LEMMA LockMore ==
    ASSUME NEW O \in SUBSET (OwedRows \cap Accounts), NEW a \in OwedRows \cap Accounts
    PROVE  Leads(OwedRows, << Do("lock", a, 0) >>, LockedOnly(O), LockedOnly(O \cup {a}))
  <1> DEFINE X == OwedRows  s == Do("lock", a, 0)  G == LockedOnly(O)  H == LockedOnly(O \cup {a})
  <1>1. s.op = "lock" /\ s.row = a
    BY DEF Do, Stmt
  <1> HIDE DEF s
  <1>2. ASSUME NEW k \in G, NEW m \in Standing(X), Does(X, s, k, m) PROVE m \in H
    <2>1. ChangesRow(s, k, m)
      BY <1>1, <1>2 DEF Does, AccountWrites, DocWrites
    <2>2. PICK v \in AccountRow :
            LET y == IF a \in k.own THEN k.draft[a] ELSE v IN
                /\ a \in k.own => v = k.row[a]
                /\ TakesRow(k, m, a, v, RowAfter(s, k, y))
      BY <1>1, <2>1 DEF ChangesRow
    <2>3. \A y : RowAfter(s, k, y) = y
      BY <1>1 DEF RowAfter
    <2>4. k.row \in [X \cap Accounts -> AccountRow] /\ k.draft \in [X \cap Accounts -> AccountRow]
      BY DEF LockedOnly, Standing
    <2>5. k.own = O /\ \A d \in O : k.draft[d].bal = k.row[d].bal
      BY DEF LockedOnly
    <2>6. m.own = O \cup {a}
      BY <2>2, <2>5 DEF TakesRow
    <2>7. m.draft[a].bal = m.row[a].bal
      BY <2>2, <2>3, <2>4, <2>5 DEF TakesRow
    <2>8. \A d \in O \ {a} : m.draft[d] = k.draft[d] /\ m.row[d] = k.row[d]
      BY <2>2, <2>4 DEF TakesRow
    <2>9. \A d \in O \cup {a} : m.draft[d].bal = m.row[d].bal
      BY <2>5, <2>7, <2>8
    <2> QED
      BY <2>6, <2>9 DEF LockedOnly
  <1>3. G \in SUBSET Standing(X)
    BY DEF LockedOnly
  <1> HIDE DEF G, H
  <1>4. Leads(X, << s >>, G, H)
    BY <1>1, <1>2, <1>3, LeadsByOne
  <1> QED
    BY <1>4 DEF G, H, s

\* The accounts of both.
LEMMA BothOwed ==
    ASSUME NEW c, NEW l \in LoanSet, c.l = l, NEW j \in LoanSet, c.with = LoanAccount[j]
    PROVE  Leads(OwedRows, LockBoth(c), Untouched, LockedOnly({LoanAccount[l], LoanAccount[j]}))
  <1> DEFINE X == OwedRows  a == LoanAccount[l]  b == LoanAccount[j]
             s == << Do("lock", a, 0) >>  t == << Do("lock", b, 0) >>
             F == Untouched  N == LockedOnly({})  P == LockedOnly({a})  Q == LockedOnly({b})
             H == LockedOnly({a, b})
  <1>1. a \in X \cap Accounts /\ b \in X \cap Accounts
    BY LoanTypes
  <1>2. {} \cup {a} = {a} /\ {} \cup {b} = {b} /\ {a} \cup {b} = {a, b} /\ {b} \cup {a} = {a, b}
    OBVIOUS
  <1>3. F \subseteq N
    BY DEF Untouched, LockedOnly
  <1>4. Leads(X, s, N, P) /\ Leads(X, t, P, H)
    <2>1. Leads(X, s, LockedOnly({}), LockedOnly({} \cup {a}))
      BY <1>1, LockMore
    <2>2. Leads(X, t, LockedOnly({a}), LockedOnly({a} \cup {b}))
      BY <1>1, LockMore
    <2> QED
      BY <1>2, <2>1, <2>2
  <1>5. Leads(X, t, N, Q) /\ Leads(X, s, Q, H)
    <2>1. Leads(X, t, LockedOnly({}), LockedOnly({} \cup {b}))
      BY <1>1, LockMore
    <2>2. Leads(X, s, LockedOnly({b}), LockedOnly({b} \cup {a}))
      BY <1>1, LockMore
    <2> QED
      BY <1>2, <2>1, <2>2
  <1>6. LockBoth(c) = s \o t \/ LockBoth(c) = t \o s
    BY TwoOnes DEF LockBoth
  <1>7. H \subseteq H
    OBVIOUS
  <1> HIDE DEF F, N, P, Q, H, s, t
  <1>8. Leads(X, s \o t, N, H) /\ Leads(X, t \o s, N, H)
    BY <1>4, <1>5, LeadsOn
  <1>9. Leads(X, LockBoth(c), N, H)
    BY <1>6, <1>8
  <1>10. Leads(X, LockBoth(c), F, H)
    BY <1>3, <1>7, <1>9, LeadsAlso
  <1> QED
    BY <1>10 DEF F, H

\* The account of loan j pays n, or n times the net, into that of loan l: how far
\* the posting has come is said by in and by out.
Times1(n, tag, m) == n * (IF tag = ByNet THEN m.net ELSE 1)
Paying(l, j, n, tag, Z, in, out) ==
    LET a == LoanAccount[l]  b == LoanAccount[j] IN
    {m \in Standing(OwedRows) :
        /\ m.own = {a, b} /\ Times1(n, tag, m) \in Nat
        /\ m.row[a].bal < 0 /\ m.row[a].bal + Times1(n, tag, m) \in Z
        /\ \A d \in {a, b} :
             m.draft[d].bal = m.row[d].bal + (IF d = a /\ in THEN Times1(n, tag, m) ELSE 0)
                                           - (IF d = b /\ out THEN Times1(n, tag, m) ELSE 0)}

\* A change of one of the two balances, by v.
LEMMA PayingMoves ==
    ASSUME NEW l \in LoanSet, NEW j \in LoanSet, NEW n \in Nat, NEW tag, NEW Z,
           NEW in \in BOOLEAN, NEW out \in BOOLEAN, NEW in1 \in BOOLEAN, NEW out1 \in BOOLEAN,
           NEW e \in {LoanAccount[l], LoanAccount[j]}, NEW v \in Int,
           NEW k \in Paying(l, j, n, tag, Z, in, out), NEW m \in Standing(OwedRows),
           Rebalances(e, k, m, v),
           \A d \in {LoanAccount[l], LoanAccount[j]} :
               (IF d = LoanAccount[l] /\ in1 THEN Times1(n, tag, k) ELSE 0)
                   - (IF d = LoanAccount[j] /\ out1 THEN Times1(n, tag, k) ELSE 0)
                 = (IF d = LoanAccount[l] /\ in THEN Times1(n, tag, k) ELSE 0)
                      - (IF d = LoanAccount[j] /\ out THEN Times1(n, tag, k) ELSE 0)
                      + (IF d = e THEN v ELSE 0)
    PROVE  m \in Paying(l, j, n, tag, Z, in1, out1)
  <1> DEFINE a == LoanAccount[l]  b == LoanAccount[j]  x == Times1(n, tag, k)
             old(d) == (IF d = a /\ in THEN x ELSE 0) - (IF d = b /\ out THEN x ELSE 0)
             new(d) == (IF d = a /\ in1 THEN x ELSE 0) - (IF d = b /\ out1 THEN x ELSE 0)
  <1>1. /\ m.own = {a, b} /\ m.row = k.row /\ m.net = k.net
        /\ m.draft = [k.draft EXCEPT ![e] = m.draft[e]] /\ m.draft[e].bal = k.draft[e].bal + v
    BY DEF Rebalances, SameSums, Paying
  <1>2. Times1(n, tag, m) = x /\ x \in Nat
    BY <1>1 DEF Times1, Paying
  <1>3. /\ k \in Standing(OwedRows) /\ k.row[a].bal < 0 /\ k.row[a].bal + x \in Z
        /\ \A d \in {a, b} : k.draft[d].bal = k.row[d].bal + (IF d = a /\ in THEN x ELSE 0)
                                                - (IF d = b /\ out THEN x ELSE 0)
    BY DEF Paying
  <1>4. \A d \in {a, b} : /\ k.row[d].bal \in Int /\ k.draft[d].bal \in Int
                          /\ d \in OwedRows \cap Accounts
    BY <1>3, BalanceType, LoanTypes
  <1>5. k.draft \in [OwedRows \cap Accounts -> AccountRow]
    BY <1>3 DEF Standing
  <1>6. \A d \in {a, b} : new(d) = old(d) + (IF d = e THEN v ELSE 0)
    OBVIOUS
  <1>7. \A d \in {a, b} : new(d) \in Int /\ old(d) \in Int
    BY <1>2
  <1>8. ASSUME NEW d \in {a, b}
        PROVE  m.draft[d].bal = m.row[d].bal + (IF d = a /\ in1 THEN x ELSE 0)
                                             - (IF d = b /\ out1 THEN x ELSE 0)
    <2>1. k.draft[d].bal = k.row[d].bal + old(d)
      BY <1>2, <1>3, <1>4
    <2>2. m.draft[d].bal = k.draft[d].bal + (IF d = e THEN v ELSE 0)
      <3>1. CASE d = e
        BY <1>1, <3>1
      <3>2. CASE d # e
        BY <1>1, <1>4, <1>5, <3>2
      <3> QED
        BY <3>1, <3>2
    <2>3. m.draft[d].bal = m.row[d].bal + new(d)
      <3>1. m.row[d].bal = k.row[d].bal /\ k.row[d].bal \in Int /\ new(d) \in Int /\ old(d) \in Int
            /\ new(d) = old(d) + (IF d = e THEN v ELSE 0)
        BY <1>1, <1>4, <1>6, <1>7
      <3> HIDE DEF new, old
      <3> QED
        BY <2>1, <2>2, <3>1
    <2> QED
      BY <1>1, <1>2, <1>4, <2>3
  <1>9. m.row[a].bal < 0 /\ m.row[a].bal + x \in Z
    BY <1>1, <1>3
  <1> HIDE DEF x
  <1> QED
    BY <1>1, <1>2, <1>8, <1>9 DEF Paying

\* The same for what the statements of a posting do.
LEMMA PayingStays ==
    ASSUME NEW l \in LoanSet, NEW j \in LoanSet, NEW n \in Nat, NEW tag, NEW Z,
           NEW in \in BOOLEAN, NEW out \in BOOLEAN, NEW e \in {LoanAccount[l], LoanAccount[j]},
           NEW k \in Paying(l, j, n, tag, Z, in, out), NEW m \in Standing(OwedRows),
           Rebalances(e, k, m, 0)
    PROVE  m \in Paying(l, j, n, tag, Z, in, out)
  <1> DEFINE x == Times1(n, tag, k)
             old(d) == (IF d = LoanAccount[l] /\ in THEN x ELSE 0)
                           - (IF d = LoanAccount[j] /\ out THEN x ELSE 0)
  <1>1. x \in Nat
    BY DEF Paying
  <1> HIDE DEF x
  <1>2. \A d \in {LoanAccount[l], LoanAccount[j]} :
          old(d) = old(d) + (IF d = e THEN 0 ELSE 0)
    BY <1>1
  <1> QED
    BY <1>2, PayingMoves DEF x

LEMMA PayingOut ==
    ASSUME NEW l \in LoanSet, NEW j \in LoanSet, NEW n \in Nat, NEW tag, NEW Z,
           NEW k \in Paying(l, j, n, tag, Z, FALSE, FALSE), NEW m \in Standing(OwedRows),
           Rebalances(LoanAccount[j], k, m, -Times1(n, tag, k))
    PROVE  m \in Paying(l, j, n, tag, Z, FALSE, TRUE)
  <1> DEFINE x == Times1(n, tag, k)
  <1>1. x \in Nat /\ -x \in Int
    BY DEF Paying
  <1> HIDE DEF x
  <1>2. \A d \in {LoanAccount[l], LoanAccount[j]} :
          (IF d = LoanAccount[l] /\ FALSE THEN x ELSE 0) - (IF d = LoanAccount[j] /\ TRUE THEN x ELSE 0)
            = (IF d = LoanAccount[l] /\ FALSE THEN x ELSE 0)
                 - (IF d = LoanAccount[j] /\ FALSE THEN x ELSE 0)
                 + (IF d = LoanAccount[j] THEN -x ELSE 0)
    BY <1>1
  <1> QED
    BY <1>1, <1>2, PayingMoves DEF x

LEMMA PayingIn ==
    ASSUME NEW l \in LoanSet, NEW j \in LoanSet, NEW n \in Nat, NEW tag, NEW Z,
           NEW k \in Paying(l, j, n, tag, Z, FALSE, TRUE), NEW m \in Standing(OwedRows),
           Rebalances(LoanAccount[l], k, m, Times1(n, tag, k))
    PROVE  m \in Paying(l, j, n, tag, Z, TRUE, TRUE)
  <1> DEFINE x == Times1(n, tag, k)
  <1>1. x \in Nat /\ x \in Int
    BY DEF Paying
  <1> HIDE DEF x
  <1>2. \A d \in {LoanAccount[l], LoanAccount[j]} :
          (IF d = LoanAccount[l] /\ TRUE THEN x ELSE 0) - (IF d = LoanAccount[j] /\ TRUE THEN x ELSE 0)
            = (IF d = LoanAccount[l] /\ FALSE THEN x ELSE 0)
                 - (IF d = LoanAccount[j] /\ TRUE THEN x ELSE 0)
                 + (IF d = LoanAccount[l] THEN x ELSE 0)
    BY <1>1
  <1> QED
    BY <1>1, <1>2, PayingMoves DEF x

\* Joining three pieces.
LEMMA PiecesAssociate ==
    ASSUME NEW p, NEW q, NEW r, IsPiece(p), IsPiece(q), IsPiece(r)
    PROVE  p \o (q \o r) = (p \o q) \o r
  <1>1. PICK S : p \in Seq(S)
    BY DEF IsPiece
  <1>2. PICK T : q \in Seq(T)
    BY DEF IsPiece
  <1>3. PICK U : r \in Seq(U)
    BY DEF IsPiece
  <1> DEFINE V == S \cup T \cup U
  <1>4. p \in Seq(V) /\ q \in Seq(V) /\ r \in Seq(V)
    BY <1>1, <1>2, <1>3
  <1> HIDE DEF V
  <1> QED
    BY <1>4

\* A repayment is of an amount, or of the net.
OfAmount(n, tag) == n \in Nat /\ (tag = Blank \/ (tag = ByNet /\ n = 1))

LEMMA AmountSigned ==
    ASSUME NEW n, NEW tag, OfAmount(n, tag), NEW m, m.net \in Int
    PROVE  /\ Times1(n, tag, m) \in Int
           /\ (-n) * (IF tag = ByNet THEN m.net ELSE 1) = -Times1(n, tag, m)
  <1>1. CASE tag = Blank
    BY <1>1 DEF OfAmount, Times1, Blank, ByNet
  <1>2. CASE tag = ByNet /\ n = 1
    BY <1>2 DEF Times1
  <1> QED
    BY <1>1, <1>2 DEF OfAmount

\* The posting, up to what follows it.
LEMMA PostedBetween ==
    ASSUME NEW c, NEW l \in LoanSet, c.l = l, NEW j \in LoanSet, c.with = LoanAccount[j],
           NEW n, NEW tag, OfAmount(n, tag), NEW Z, NEW then, NEW K \in SUBSET Standing(OwedRows),
           Leads(OwedRows, then, Paying(l, j, n, tag, Z, TRUE, TRUE), K),
           \A k \in K, m \in Standing(OwedRows) : SameLocks(k, m) => m \in K
    PROVE  Leads(OwedRows, Pay(c, n, tag, then), Paying(l, j, n, tag, Z, FALSE, FALSE), K)
  <1> DEFINE X == OwedRows  a == LoanAccount[l]  b == LoanAccount[j]
             G == Paying(l, j, n, tag, Z, FALSE, FALSE)  M == Paying(l, j, n, tag, Z, FALSE, TRUE)
             N == Paying(l, j, n, tag, Z, TRUE, TRUE)
             s1 == Do("floor", b, 0)  s2 == Do("read", b, 0)  s3 == OnMeter("write", b, -n, tag)
             s4 == Do("read", a, 0)   s5 == OnMeter("write", a, n, tag)
             p0 == << s1, s2, s3, s4, s5 >>  p1 == << s1 >>  p2 == << s2 >>  p7 == << s3 >>
             p3 == << s4 >> \o << s5 >>  p4 == Refreshed(b)  p5 == Refreshed(a)
             p6 == << OnMeter("gl", NoOne, -n, tag) >>
  <1>0. /\ a \in X \cap Accounts /\ b \in X \cap Accounts /\ n \in Nat /\ n \in Int /\ -n \in Int
        /\ G \in SUBSET Standing(X) /\ M \in SUBSET Standing(X) /\ N \in SUBSET Standing(X)
        /\ \A k \in G \cup M \cup N : a \in k.own /\ b \in k.own
    <2>1. a \in X \cap Accounts /\ b \in X \cap Accounts
      BY LoanTypes
    <2>2. n \in Nat /\ n \in Int /\ -n \in Int
      BY DEF OfAmount
    <2>3. G \in SUBSET Standing(X) /\ M \in SUBSET Standing(X) /\ N \in SUBSET Standing(X)
      BY DEF Paying
    <2>4. \A k \in G \cup M \cup N : a \in k.own /\ b \in k.own
      BY DEF Paying
    <2> QED
      BY <2>1, <2>2, <2>3, <2>4
  <1>1. Pay(c, n, tag, then) = p0 \o p4 \o p5 \o then \o p6
    BY DEF Pay
  <1>2. p0 = p1 \o (p2 \o (p7 \o p3))
    BY FiveOnes
  <1>3. \A k \in G \cup M \cup N :
          /\ Times1(n, tag, k) \in Int
          /\ (-n) * (IF tag = ByNet THEN k.net ELSE 1) = -Times1(n, tag, k)
    <2> TAKE k \in G \cup M \cup N
    <2>1. k \in Standing(X)
      BY <1>0
    <2>2. k.net \in Int
      BY <2>1 DEF Standing
    <2> QED
      BY <2>2, AmountSigned
  <1>4. Leads(X, p1, G, G)
    <2>1. ASSUME NEW k \in G, NEW m \in Standing(X), Rebalances(b, k, m, 0) PROVE m \in G
      BY <1>0, <2>1, PayingStays
    <2> HIDE DEF G
    <2> QED
      BY <1>0, <2>1, BalanceKept
  <1>5. Leads(X, p4, N, N) /\ Leads(X, p5, N, N)
    <2>1. ASSUME NEW e \in {a, b}, NEW k \in N, NEW m \in Standing(X), Rebalances(e, k, m, 0)
          PROVE  m \in N
      BY <1>0, <2>1, PayingStays
    <2> HIDE DEF N
    <2> QED
      BY <1>0, <2>1, BalanceKept DEF Refreshed
  <1>6. Leads(X, p2 \o p7, G, M)
    <2>1. ASSUME NEW k \in G, NEW m \in Standing(X),
                 Rebalances(b, k, m, (-n) * (IF tag = ByNet THEN k.net ELSE 1))
          PROVE  m \in M
      <3>1. Times1(n, tag, k) \in Int /\ Rebalances(b, k, m, -Times1(n, tag, k))
        BY <1>3, <2>1
      <3> QED
        BY <1>0, <3>1, PayingOut
    <2> HIDE DEF G, M
    <2> QED
      BY <1>0, <2>1, LegAdds
  <1>7. Leads(X, p3, M, N)
    <2>1. ASSUME NEW k \in M, NEW m \in Standing(X),
                 Rebalances(a, k, m, n * (IF tag = ByNet THEN k.net ELSE 1))
          PROVE  m \in N
      <3>1. Times1(n, tag, k) \in Int /\ Rebalances(a, k, m, Times1(n, tag, k))
        BY <1>3, <2>1 DEF Times1
      <3> QED
        BY <1>0, <3>1, PayingIn
    <2> HIDE DEF M, N
    <2> QED
      BY <1>0, <2>1, LegAdds
  <1>8. Leads(X, p6, K, K)
    <2> QED
      BY <1>0, CoreTold
  <1>9. p2 \o (p7 \o p3) = (p2 \o p7) \o p3
    <2>1. IsPiece(p2) /\ IsPiece(p7) /\ IsPiece(<< s4 >>) /\ IsPiece(<< s5 >>)
      BY OnePiece
    <2> HIDE DEF p2, p7, s4, s5
    <2>2. IsPiece(p3)
      BY <2>1, PiecesJoin
    <2> HIDE DEF p3
    <2> QED
      BY <2>1, <2>2, PiecesAssociate
  <1> HIDE DEF X, G, M, N, p0, p1, p2, p3, p4, p5, p6, p7
  <1>10. Leads(X, (p2 \o p7) \o p3, G, N)
    BY <1>6, <1>7, LeadsOn
  <1>11. Leads(X, p2 \o (p7 \o p3), G, N)
    BY <1>9, <1>10
  <1>12. Leads(X, p0, G, N)
    BY <1>2, <1>4, <1>11, LeadsOn
  <1>13. Leads(X, p0 \o p4 \o p5 \o then \o p6, G, K)
    <2>1. Leads(X, then, N, K)
      BY DEF X, N
    <2> QED
      BY <1>5, <1>8, <1>12, <2>1, LeadsOn
  <1> QED
    BY <1>1, <1>13 DEF X, G

\* What is owed on loan l has gone down by as much as the account of loan j pays;
\* when that was all, loan l is closed.
Refinanced(l, j) ==
    LET a == LoanAccount[l]  b == LoanAccount[j] IN
    {m \in Standing(OwedRows) :
        /\ m.row[a].bal < 0
        /\ \E x \in Nat : \A d \in {a, b} :
             m.draft[d].bal = m.row[d].bal + (IF d = a THEN x ELSE 0) - (IF d = b THEN x ELSE 0)
        /\ \/ m.own = {a, b} /\ m.draft[a].bal < 0
           \/ m.own = {a, b, l} /\ m.now[l] = "closed" /\ m.draft[a].bal = 0}

\* A posting that leaves a debt has done so.
LEMMA PaidPart ==
    ASSUME NEW l \in LoanSet, NEW j \in LoanSet, NEW n, NEW tag, NEW Z,
           NEW m \in Paying(l, j, n, tag, Z, TRUE, TRUE), m.draft[LoanAccount[l]].bal < 0
    PROVE  m \in Refinanced(l, j)
  <1> DEFINE a == LoanAccount[l]  b == LoanAccount[j]  x == Times1(n, tag, m)
  <1>1. /\ m \in Standing(OwedRows) /\ m.own = {a, b} /\ x \in Nat /\ m.row[a].bal < 0
        /\ \A d \in {a, b} :
             m.draft[d].bal = m.row[d].bal + (IF d = a THEN x ELSE 0) - (IF d = b THEN x ELSE 0)
    BY DEF Paying
  <1> HIDE DEF x
  <1> QED
    BY <1>1 DEF Refinanced

\* Of a posting of all that is owed: a debt that is left is that of a loan whose
\* account has paid for itself; any other loan is closed.
LEMMA PaidAll ==
    ASSUME NEW l \in LoanSet, NEW j \in LoanSet
    PROVE  Leads(OwedRows, CloseIfPaid(l), Paying(l, j, 1, ByNet, {0}, TRUE, TRUE), Refinanced(l, j))
  <1> DEFINE X == OwedRows  a == LoanAccount[l]  b == LoanAccount[j]
             G == Paying(l, j, 1, ByNet, {0}, TRUE, TRUE)  H == Refinanced(l, j)
             I == {m \in G : m.draft[a].bal < 0}  J == {m \in G : m.draft[a].bal = 0}
             p == << OnDoc("set", l, Blank, "closed") >>
  <1>1. /\ a \notin Docs /\ b \notin Docs /\ l \in X \cap Docs /\ l \notin {a, b}
        /\ {a, b} \cup {l} = {a, b, l}
    BY LoanTypes
  <1>2. G \in SUBSET Standing(X) /\ I \in SUBSET Standing(X) /\ J \in SUBSET Standing(X)
    BY DEF Paying
  <1>3. \A m \in G : /\ m.own = {a, b} /\ Times1(1, ByNet, m) \in Nat /\ m.row[a].bal < 0
                     /\ m.row[a].bal + Times1(1, ByNet, m) = 0
                     /\ m.row[a].bal \in Int /\ m.draft[a].bal \in Int
                     /\ \A d \in {a, b} :
                          m.draft[d].bal = m.row[d].bal
                              + (IF d = a THEN Times1(1, ByNet, m) ELSE 0)
                              - (IF d = b THEN Times1(1, ByNet, m) ELSE 0)
    BY BalanceType DEF Paying
  <1>4. \A m \in G : m.draft[a].bal = IF a = b THEN m.row[a].bal ELSE 0
    <2> SUFFICES ASSUME NEW m \in G PROVE m.draft[a].bal = IF a = b THEN m.row[a].bal ELSE 0
      OBVIOUS
    <2> DEFINE x == Times1(1, ByNet, m)
    <2>1. /\ x \in Nat /\ m.row[a].bal \in Int /\ m.row[a].bal + x = 0
          /\ m.draft[a].bal = m.row[a].bal + (IF a = a THEN x ELSE 0) - (IF a = b THEN x ELSE 0)
      BY <1>3
    <2> HIDE DEF x
    <2> QED
      BY <2>1
  <1>5. I \subseteq H
    BY PaidPart
  <1>6. Leads(X, << >>, I, H)
    BY <1>2, <1>5, LeadsNowhere
  <1>7. Leads(X, p, J, H)
    <2>1. ASSUME NEW k \in J, NEW m \in Standing(X), m.own = k.own \cup {l}, m.now[l] = "closed",
                 SameRows(k, m), SameSums(k, m)
          PROVE  m \in H
      <3> DEFINE x == Times1(1, ByNet, k)
      <3>1. /\ k.own = {a, b} /\ x \in Nat /\ k.row[a].bal < 0 /\ k.draft[a].bal = 0
            /\ \A d \in {a, b} : k.draft[d].bal = k.row[d].bal + (IF d = a THEN x ELSE 0)
                                                    - (IF d = b THEN x ELSE 0)
        BY <1>3
      <3> HIDE DEF x
      <3>2. m.own = {a, b, l} /\ m.row = k.row /\ m.draft = k.draft
        BY <1>1, <2>1, <3>1 DEF SameRows
      <3> QED
        BY <2>1, <3>1, <3>2 DEF Refinanced
    <2>2. \A k \in J : l \notin k.own
      BY <1>1, <1>3
    <2> HIDE DEF J, H
    <2> QED
      BY <1>1, <1>2, <2>1, <2>2, SetOne
  <1>8. \A m \in G : MayHold(a, "owes", 0, m) => m \in I
    <2> SUFFICES ASSUME NEW m \in G, MayHold(a, "owes", 0, m) PROVE m \in I
      OBVIOUS
    <2>1. HoldsIn(a, "owes", 0, m) /\ m.draft[a].bal \in Int
      BY <1>3 DEF MayHold
    <2>2. -m.draft[a].bal > 0
      BY <1>1, <2>1 DEF HoldsIn
    <2>3. m.draft[a].bal < 0
      BY <2>1, <2>2
    <2> HIDE DEF G
    <2> QED
      BY <2>3
  <1>9. \A m \in G : MayFail(a, "owes", 0, m) => m \in J
    <2> SUFFICES ASSUME NEW m \in G, MayFail(a, "owes", 0, m) PROVE m \in J
      OBVIOUS
    <2>1. ~HoldsIn(a, "owes", 0, m) /\ m.draft[a].bal \in Int /\ m.row[a].bal < 0 /\ m.row[a].bal \in Int
      BY <1>3 DEF MayFail
    <2>2. ~(-m.draft[a].bal > 0)
      BY <1>1, <2>1 DEF HoldsIn
    <2> HIDE DEF G
    <2>3. m.draft[a].bal = IF a = b THEN m.row[a].bal ELSE 0
      BY <1>4
    <2> HIDE DEF a, b
    <2>4. m.draft[a].bal = 0
      BY <2>1, <2>2, <2>3
    <2> QED
      BY <2>4
  <1> HIDE DEF G, H, I, J, p, X
  <1>10. Leads(X, IfElse(a, "owes", 0, << >>, p), G, H)
    BY <1>2, <1>6, <1>7, <1>8, <1>9, BranchElse DEF X
  <1> QED
    BY <1>10 DEF G, H, p, X, CloseIfPaid

\* The account pays the amount, or all that is owed.
LEMMA RefinanceLeads ==
    ASSUME NEW c, NEW l \in LoanSet, c.l = l, c.amt \in Nat,
           NEW j \in LoanSet, c.with = LoanAccount[j]
    PROVE  Leads(OwedRows, Repay(c), Untouched, Refinanced(l, j))
  <1> DEFINE X == OwedRows  a == LoanAccount[l]  b == LoanAccount[j]  n == c.amt
             F == Untouched  G == LockedOnly({a, b})  H == Refinanced(l, j)
             I == Paying(l, j, n, Blank, Negative, FALSE, FALSE)
             J == Paying(l, j, 1, ByNet, {0}, FALSE, FALSE)
             part == Pay(c, n, Blank, << >>)
             p0 == << Do("net", a, 0) >>
             all == p0 \o Pay(c, 1, ByNet, CloseIfPaid(c.l))
             p1 == << OnDoc("expect", c.l, "active", Blank) >>  p2 == IsOpen(c.with)  p3 == LockBoth(c)
             p4 == << Do("funds", c.with, n) >>  p5 == IfElse(a, "owes", n, part, all)
             p6 == Completed
  <1>1. Repay(c) = p1 \o p2 \o p3 \o p2 \o p4 \o p5 \o p6
    BY DEF Repay
  <1>2. /\ F \in SUBSET Standing(X) /\ G \in SUBSET Standing(X) /\ H \in SUBSET Standing(X)
        /\ J \in SUBSET Standing(X) /\ I \in SUBSET Standing(X)
        /\ a \in X \cap Accounts /\ b \in X \cap Accounts /\ a \notin Docs /\ b \notin Docs
    BY LoanTypes DEF Untouched, LockedOnly, Refinanced, Paying
  <1>3. Leads(X, p1, F, F)
    BY <1>2, ExpectLeads
  <1>4. Leads(X, p2, F, F) /\ Leads(X, p2, G, G)
    <2>1. PICK m : p2 = << OnDoc("expect", m, "active", Blank) >>
      BY DEF IsOpen, LoanAccounts
    <2> HIDE DEF p2, X, F, G
    <2> QED
      BY <1>2, <2>1, ExpectLeads
  <1>5. Leads(X, p3, F, G)
    BY BothOwed
  <1>6. Leads(X, p4, G, G)
    <2> DEFINE s == Do("funds", b, n)
    <2>1. s.op = "funds"
      BY DEF Do, Stmt
    <2> HIDE DEF s
    <2>2. \A k \in G, m \in Standing(X) : Does(X, s, k, m) => m \in G
      BY <2>1 DEF Does, AccountWrites, DocWrites, LockedOnly, SameLocks, SameRows
    <2>3. Leads(X, << s >>, G, G)
      <3> HIDE DEF G
      <3> QED
        BY <1>2, <2>1, <2>2, LeadsByOne
    <2> QED
      BY <2>3 DEF s
  <1>7. \A k \in H, m \in Standing(X) : SameLocks(k, m) => m \in H
    BY DEF Refinanced, SameLocks, SameRows, SameDocs
  <1>8. Leads(X, part, I, H)
    <2> DEFINE N == Paying(l, j, n, Blank, Negative, TRUE, TRUE)
    <2>1. N \subseteq H
      <3> SUFFICES ASSUME NEW m \in N PROVE m \in H
        OBVIOUS
      <3> DEFINE x == Times1(n, Blank, m)
      <3>1. /\ x \in Nat /\ m.row[a].bal < 0 /\ m.row[a].bal + x < 0 /\ m.row[a].bal \in Int
            /\ m.draft[a].bal = m.row[a].bal + (IF a = a THEN x ELSE 0) - (IF a = b THEN x ELSE 0)
        BY BalanceType DEF Paying, Negative
      <3> HIDE DEF x
      <3>2. m.draft[a].bal < 0
        BY <3>1
      <3> QED
        BY <3>2, PaidPart
    <2>2. Leads(X, << >>, N, H)
      <3>1. N \in SUBSET Standing(X)
        BY DEF Paying
      <3> QED
        BY <2>1, <3>1, LeadsNowhere
    <2>3. OfAmount(n, Blank)
      BY DEF OfAmount
    <2> HIDE DEF H
    <2> QED
      BY <1>2, <1>7, <2>2, <2>3, PostedBetween
  <1>9. Leads(X, all, G, H)
    <2>1. Leads(X, p0, G, J)
      <3> DEFINE s == Do("net", a, 0)
      <3>1. s.op = "net" /\ s.row = a
        BY DEF Do, Stmt
      <3> HIDE DEF s
      <3>2. ASSUME NEW k \in G, NEW m \in Standing(X), Does(X, s, k, m) PROVE m \in J
        <4>1. m.net > 0 /\ (a \in k.own => m.net = -k.draft[a].bal) /\ SameLocks(k, m)
          BY <3>1, <3>2 DEF Does, AccountWrites, DocWrites
        <4>2. k.own = {a, b} /\ \A d \in {a, b} : k.draft[d].bal = k.row[d].bal
          BY DEF LockedOnly
        <4>3. m.own = {a, b} /\ m.row = k.row /\ m.draft = k.draft
          BY <4>1, <4>2 DEF SameLocks, SameRows
        <4>4. \A d \in {a, b} : m.draft[d].bal = m.row[d].bal /\ m.row[d].bal \in Int
          BY <4>2, <4>3, BalanceType
        <4>5. m.net \in Int /\ m.net > 0 /\ m.net = -m.row[a].bal
          BY <4>1, <4>2, <4>3, BalanceType
        <4>6. Times1(1, ByNet, m) = m.net
          BY <4>5 DEF Times1
        <4>7. m.net \in Nat /\ m.row[a].bal < 0 /\ m.row[a].bal + m.net \in {0}
          BY <4>4, <4>5
        <4>8. \A d \in {a, b} : m.draft[d].bal = m.row[d].bal
                 + (IF d = a /\ FALSE THEN m.net ELSE 0) - (IF d = b /\ FALSE THEN m.net ELSE 0)
          BY <4>4
        <4> QED
          BY <4>3, <4>6, <4>7, <4>8 DEF Paying
      <3>3. Leads(X, << s >>, G, J)
        <4> HIDE DEF G, J
        <4> QED
          BY <1>2, <3>1, <3>2, LeadsByOne
      <3> QED
        BY <3>3 DEF s
    <2>2. Leads(X, CloseIfPaid(l), Paying(l, j, 1, ByNet, {0}, TRUE, TRUE), H)
      BY PaidAll
    <2>3. OfAmount(1, ByNet)
      BY DEF OfAmount
    <2>4. Leads(X, Pay(c, 1, ByNet, CloseIfPaid(l)), J, H)
      <3> HIDE DEF H
      <3> QED
        BY <1>2, <1>7, <2>2, <2>3, PostedBetween
    <2> HIDE DEF G, H, J, p0, X
    <2> QED
      BY <2>1, <2>4, LeadsOn
  <1>10. \A k \in G : MayHold(a, "owes", n, k) => k \in I
    <2> SUFFICES ASSUME NEW k \in G, MayHold(a, "owes", n, k) PROVE k \in I
      OBVIOUS
    <2>1. k \in Standing(X) /\ k.own = {a, b} /\ \A d \in {a, b} : k.draft[d].bal = k.row[d].bal
      BY DEF LockedOnly
    <2>2. HoldsIn(a, "owes", n, k)
      BY <2>1 DEF MayHold
    <2>3. -k.draft[a].bal > n
      BY <1>2, <2>2 DEF HoldsIn
    <2>4. \A d \in {a, b} : k.row[d].bal \in Int
      BY <2>1, BalanceType
    <2>5. k.row[a].bal < 0 /\ k.row[a].bal + n \in Negative
      BY <2>1, <2>3, <2>4 DEF Negative
    <2>6. Times1(n, Blank, k) = n
      BY DEF Times1, Blank, ByNet
    <2>7. \A d \in {a, b} : k.draft[d].bal = k.row[d].bal
             + (IF d = a /\ FALSE THEN n ELSE 0) - (IF d = b /\ FALSE THEN n ELSE 0)
      BY <2>1, <2>4
    <2> QED
      BY <2>1, <2>5, <2>6, <2>7 DEF Paying
  <1>11. \A k \in G : MayFail(a, "owes", n, k) => k \in G
    OBVIOUS
  <1> HIDE DEF X, F, G, H, I, J, part, all, p1, p2, p3, p4, p6
  <1>12. Leads(X, p5, G, H)
    <2> HIDE DEF a, n
    <2> QED
      BY <1>2, <1>8, <1>9, <1>10, <1>11, BranchElse
  <1>13. Leads(X, p6, H, H)
    BY <1>2, CompletedKeeps DEF p6
  <1> HIDE DEF p5
  <1>14. Leads(X, p1 \o p2 \o p3 \o p2 \o p4 \o p5 \o p6, F, H)
    BY <1>3, <1>4, <1>5, <1>6, <1>12, <1>13, LeadsOn
  <1> QED
    BY <1>1, <1>14 DEF X, F, H, n

\* Its branch is a piece of a script.
LEMMA RepayPiece ==
    ASSUME NEW c, NEW l, NEW n
    PROVE  IsPiece(IfElse(LoanAccount[l], "owes", n, Pay(c, n, Blank, << >>),
                          << Do("net", LoanAccount[l], 0) >> \o Pay(c, 1, ByNet, CloseIfPaid(c.l))))
  <1>1. IsPiece(<< >>)
    <2>1. << >> \in Seq({})
      OBVIOUS
    <2> QED
      BY <2>1 DEF IsPiece
  <1>2. ASSUME NEW m, NEW tag, NEW then, IsPiece(then) PROVE IsPiece(Pay(c, m, tag, then))
    <2> DEFINE from == c.with  to == LoanAccount[c.l]
               s1 == Do("floor", from, 0)  s2 == Do("read", from, 0)
               s3 == OnMeter("write", from, -m, tag)
               s4 == Do("read", to, 0)  s5 == OnMeter("write", to, m, tag)
               p == << s1, s2, s3, s4, s5 >>  p1 == Refreshed(from)  p2 == Refreshed(to)
               p3 == << OnMeter("gl", NoOne, -m, tag) >>
    <2>1. Pay(c, m, tag, then) = p \o p1 \o p2 \o then \o p3
      BY DEF Pay
    <2>2. IsPiece(p1) /\ IsPiece(p2) /\ IsPiece(p3)
      BY OnePiece DEF Refreshed
    <2>3. IsPiece(p)
      <3> HIDE DEF s1, s2, s3, s4, s5
      <3>1. p \in Seq({s1, s2, s3, s4, s5})
        OBVIOUS
      <3> QED
        BY <3>1 DEF IsPiece
    <2> HIDE DEF p, p1, p2, p3
    <2>4. IsPiece(p \o p1 \o p2 \o then \o p3)
      BY <1>2, <2>2, <2>3, PiecesJoin
    <2> QED
      BY <2>1, <2>4
  <1>3. ASSUME NEW a, NEW state, NEW m, NEW body, NEW other, IsPiece(body), IsPiece(other)
        PROVE  IsPiece(IfElse(a, state, m, body, other))
    <2> DEFINE t == << Test(a, state, m, "skip", Len(other)) >>  b == body \o t
               h == << Test(a, state, m, "if", Len(b)) >>
    <2>1. IsPiece(t) /\ IsPiece(h)
      BY OnePiece
    <2>2. IfElse(a, state, m, body, other) = (h \o b) \o other
      BY DEF IfElse, If
    <2> HIDE DEF t, h
    <2>3. IsPiece((h \o b) \o other)
      BY <1>3, <2>1, PiecesJoin
    <2> QED
      BY <2>2, <2>3
  <1>4. IsPiece(CloseIfPaid(c.l))
    <2>1. IsPiece(<< OnDoc("set", c.l, Blank, "closed") >>)
      BY OnePiece
    <2> QED
      BY <1>1, <1>3, <2>1 DEF CloseIfPaid
  <1>5. IsPiece(Pay(c, n, Blank, << >>)) /\ IsPiece(Pay(c, 1, ByNet, CloseIfPaid(c.l)))
    BY <1>1, <1>2, <1>4
  <1>6. IsPiece(<< Do("net", LoanAccount[l], 0) >> \o Pay(c, 1, ByNet, CloseIfPaid(c.l)))
    <2> DEFINE d == << Do("net", LoanAccount[l], 0) >>
    <2>1. IsPiece(d)
      BY OnePiece
    <2> HIDE DEF d
    <2> QED
      BY <1>5, <2>1, PiecesJoin DEF d
  <1> QED
    BY <1>3, <1>5, <1>6

-----------------------------------------------------------------------------
(* What the calls about loans commit. *)

\* The calls of other rails leave the loans alone.
LoansApart == \A t \in Tasks \ LoanCalls : KeepsOff(OwedRows, t)

\* The loan whose account pays.
Payer(c) == CHOOSE l \in LoanSet : LoanAccount[l] = c.with

LoanEnd(t) ==
    LET c == LoanCall[t]  l == c.l IN
    IF t \notin LoanCalls THEN Spared(OwedRows)
    ELSE CASE c.kind = "apply"    -> Applied(l)
           [] c.kind = "disburse" -> Disbursed(l, Principal[l])
           [] c.kind = "repay"    -> IF t \in PaidByLoans THEN Refinanced(l, Payer(c))
                                                        ELSE Repayment(l, c.amt)
           [] c.kind = "accrue"   -> Accrued(l, Interest[l])

\* The call of a task.
LEMMA LoanCallFields ==
    ASSUME NEW t \in LoanCalls
    PROVE  LET c == LoanCall[t] IN
           /\ t \in Tasks /\ Script[t] = LoanScript(c)
           /\ c.kind \in LoanKinds /\ c.l \in LoanSet /\ c.amt \in Nat /\ c.with \in Accounts
           /\ c.kind \in {"disburse", "repay"} /\ t \notin PaidByLoans => c.with \notin OwedRows
           /\ t \in PaidByLoans => Payer(c) \in LoanSet /\ LoanAccount[Payer(c)] = c.with
  <1>1. LoanCall[t] \in LoanCallType
    BY LoansAssumption
  <1>2. LoanCall[t].kind \in {"disburse", "repay"} /\ t \notin PaidByLoans
           => LoanCall[t].with \notin LoanAccounts
    BY LoanRows DEF PaidByLoans
  <1>3. t \in PaidByLoans => \E l \in LoanSet : LoanAccount[l] = LoanCall[t].with
    BY DEF PaidByLoans, LoanAccounts
  <1>4. t \in PaidByLoans =>
          Payer(LoanCall[t]) \in LoanSet /\ LoanAccount[Payer(LoanCall[t])] = LoanCall[t].with
    BY <1>3 DEF Payer
  <1> QED
    BY <1>1, <1>2, <1>4, LoanScripts, LoanTypes DEF LoanCallType

\* How the script of each task ends.
LEMMA LoansEnd ==
    ASSUME LoansApart, NEW t \in Tasks
    PROVE  EndsIn(OwedRows, t, LoanEnd(t))
  <1>1. CASE t \notin LoanCalls
    <2>1. KeepsOff(OwedRows, t) /\ OwedRows \in SUBSET Rows
      BY <1>1, LoanTypes DEF LoansApart
    <2> QED
      BY <1>1, <2>1, FreshUntouched, SparedEnds DEF LoanEnd
  <1>2. CASE t \in LoanCalls
    <2> DEFINE c == LoanCall[t]  X == OwedRows  H == LoanEnd(t)  F == Untouched
    <2>1. /\ Script[t] = LoanScript(c)
          /\ c.kind \in LoanKinds /\ c.l \in LoanSet /\ c.amt \in Nat /\ c.with \in Accounts
          /\ c.kind \in {"disburse", "repay"} /\ t \notin PaidByLoans => c.with \notin OwedRows
          /\ t \in PaidByLoans => Payer(c) \in LoanSet /\ LoanAccount[Payer(c)] = c.with
          /\ t \in PaidByLoans => c.kind = "repay"
      BY <1>2, LoanCallFields DEF PaidByLoans
    <2>2. H = CASE c.kind = "apply"    -> Applied(c.l)
                [] c.kind = "disburse" -> Disbursed(c.l, Principal[c.l])
                [] c.kind = "repay"    -> IF t \in PaidByLoans THEN Refinanced(c.l, Payer(c))
                                                              ELSE Repayment(c.l, c.amt)
                [] c.kind = "accrue"   -> Accrued(c.l, Interest[c.l])
      BY <1>2 DEF LoanEnd
    <2> HIDE DEF c, H
    <2>3. Leads(X, LoanScript(c), F, H)
      <3>1. CASE c.kind = "apply"
        <4>1. Leads(X, Apply(c), F, Applied(c.l))
          BY <2>1, ApplyLeads
        <4>2. LoanScript(c) = Apply(c) /\ H = Applied(c.l)
          BY <2>2, <3>1 DEF LoanScript
        <4> QED
          BY <4>1, <4>2
      <3>2. CASE c.kind = "disburse"
        <4>1. Leads(X, Disburse(c), F, Disbursed(c.l, Principal[c.l]))
          BY <2>1, <3>2, DisburseLeads
        <4>2. LoanScript(c) = Disburse(c) /\ H = Disbursed(c.l, Principal[c.l])
          BY <2>2, <3>2 DEF LoanScript
        <4> QED
          BY <4>1, <4>2
      <3>3. CASE c.kind = "repay"
        <4>1. LoanScript(c) = Repay(c)
          BY <3>3 DEF LoanScript
        <4>2. CASE t \in PaidByLoans
          <5>1. Leads(X, Repay(c), F, Refinanced(c.l, Payer(c)))
            BY <2>1, <4>2, RefinanceLeads
          <5> QED
            BY <2>2, <3>3, <4>1, <4>2, <5>1
        <4>3. CASE t \notin PaidByLoans
          <5>1. Leads(X, Repay(c), F, Repayment(c.l, c.amt))
            BY <2>1, <3>3, <4>3, RepayLeads
          <5> QED
            BY <2>2, <3>3, <4>1, <4>3, <5>1
        <4> QED
          BY <4>2, <4>3
      <3>4. CASE c.kind = "accrue"
        <4>1. Leads(X, Accrue(c), F, Accrued(c.l, Interest[c.l]))
          BY <2>1, AccrueLeads
        <4>2. LoanScript(c) = Accrue(c) /\ H = Accrued(c.l, Interest[c.l])
          BY <2>2, <3>4 DEF LoanScript
        <4> QED
          BY <4>1, <4>2
      <3> QED
        BY <2>1, <3>1, <3>2, <3>3, <3>4 DEF LoanKinds
    <2>4. Leads(X, LoanScript(c), {Fresh(X)}, H)
      <3>1. {Fresh(X)} \subseteq F /\ H \subseteq H
        BY FreshUntouched
      <3> HIDE DEF X, F
      <3> QED
        BY <2>3, <3>1, LeadsAlso
    <2> QED
      BY <2>1, <2>4 DEF EndsIn, H
  <1> QED
    BY <1>1, <1>2

\* The account of loan l moves by b, and no other loan's; of the status rows only S may.
Drifts(l, b) ==
    /\ row'[LoanAccount[l]].bal = row[LoanAccount[l]].bal + b
    /\ \A m \in LoanSet \ {l} : row'[LoanAccount[m]] = row[LoanAccount[m]]
DocsBut(S) == \A d \in (OwedRows \cap Docs) \ S : doc'[d] = doc[d]

Opens(r, l) ==
    /\ doc[l] = Absent /\ doc'[l] = "pending" /\ DocsBut({l})
    /\ Drifts(l, 0) /\ gl[r] = 0
Lends(r, l) ==
    /\ doc[l] = "pending" /\ doc'[l] = "active" /\ DocsBut({l})
    /\ Drifts(l, -Principal[l]) /\ gl[r] = Principal[l]
Accrues(r, l) ==
    /\ doc[AccruedToday[l]] = "due" /\ doc'[AccruedToday[l]] = "accrued"
    /\ DocsBut({AccruedToday[l]}) /\ row[LoanAccount[l]].bal < 0
    /\ Drifts(l, -Interest[l]) /\ gl[r] = Interest[l]
Repays(r, l, n) ==
    /\ row[LoanAccount[l]].bal < 0 /\ Drifts(l, n) /\ gl[r] = -n
    /\ \/ row[LoanAccount[l]].bal + n < 0 /\ DocsBut({})
       \/ /\ row[LoanAccount[l]].bal + n = 0
          /\ doc'[l] = "closed" /\ DocsBut({l}) /\ owner[LoanAccount[l]] = r
Refinances(r, l, j) ==
    LET a == LoanAccount[l]  b == LoanAccount[j] IN
    /\ row[a].bal < 0
    /\ \E x \in Nat : \A d \in {a, b} :
         row'[d].bal = row[d].bal + (IF d = a THEN x ELSE 0) - (IF d = b THEN x ELSE 0)
    /\ \A m \in LoanSet \ {l, j} : row'[LoanAccount[m]] = row[LoanAccount[m]]
    /\ \/ row'[a].bal < 0 /\ DocsBut({})
       \/ row'[a].bal = 0 /\ doc'[l] = "closed" /\ DocsBut({l}) /\ owner[a] = r
LoansStay ==
    /\ DocsBut({})
    /\ \A m \in LoanSet : row'[LoanAccount[m]] = row[LoanAccount[m]]

\* What a commit does to the loans.
OnLoans(r) ==
    LET c == LoanCall[task[r]]  l == c.l IN
    IF task[r] \notin LoanCalls THEN LoansStay
    ELSE /\ l \in LoanSet
         /\ \/ c.kind = "apply" /\ Opens(r, l)
            \/ c.kind = "disburse" /\ Lends(r, l)
            \/ c.kind = "accrue" /\ Accrues(r, l)
            \/ c.kind = "repay" /\ task[r] \notin PaidByLoans /\ \E n \in Nat : Repays(r, l, n)
            \/ /\ task[r] \in PaidByLoans /\ Payer(c) \in LoanSet
               /\ c.kind = "repay" /\ Refinances(r, l, Payer(c))

\* A commit does one of these.
LEMMA CommitOnLoans ==
    ASSUME LoansApart, NEW H, \A t \in Tasks : H[t] = LoanEnd(t),
           StandsInv(OwedRows, H), NEW r \in Requests, Commit(r)
    PROVE  OnLoans(r)
  <1> DEFINE X == OwedRows  k == StandingOf(X, r)  t == task[r]  c == LoanCall[t]  l == c.l
             a == LoanAccount[l]
  <1>1. /\ t \in Tasks /\ k \in LoanEnd(t) /\ k \in Standing(X)
        /\ \A d \in X \cap Docs :
             IF d \in k.own THEN doc[d] = k.was[d] /\ doc'[d] = k.now[d] ELSE doc'[d] = doc[d]
        /\ \A b \in X \cap Accounts :
             IF b \in k.own THEN row[b] = k.row[b] /\ row'[b] = k.draft[b] ELSE row'[b] = row[b]
    <2>1. \A u \in Tasks : EndsIn(X, u, H[u])
      BY LoansEnd
    <2> QED
      BY <2>1, LoanTypes, CommitStands
  <1>2. k.told = gl[r] /\ \A x \in k.own : owner[x] = r
    BY DEF StandingOf
  <1> HIDE DEF k
  <1>3. CASE t \notin LoanCalls
    <2>1. k.own = {}
      BY <1>1, <1>3 DEF LoanEnd, Spared
    <2>2. \A m \in LoanSet : LoanAccount[m] \in X \cap Accounts
      BY LoanTypes
    <2> QED
      BY <1>1, <1>3, <2>1, <2>2 DEF OnLoans, LoansStay, DocsBut
  <1>4. CASE t \in LoanCalls
    <2>1. c.kind \in LoanKinds /\ l \in LoanSet /\ c.amt \in Nat
      BY <1>4, LoanCallFields
    <2>2. /\ l \in X \cap Docs /\ AccruedToday[l] \in X \cap Docs /\ a \in X \cap Accounts
          /\ a \notin Docs /\ Principal[l] \in Nat /\ Interest[l] \in Nat /\ AccruedToday[l] # l
          /\ \A m \in LoanSet : LoanAccount[m] \in X \cap Accounts /\ LoanAccount[m] \notin Docs
          /\ \A m \in LoanSet \ {l} : LoanAccount[m] # a
      BY <2>1, LoanTypes
    <2>3. LoanEnd(t) = CASE c.kind = "apply"    -> Applied(l)
                         [] c.kind = "disburse" -> Disbursed(l, Principal[l])
                         [] c.kind = "repay"    -> IF t \in PaidByLoans
                                                   THEN Refinanced(l, Payer(c))
                                                   ELSE Repayment(l, c.amt)
                         [] c.kind = "accrue"   -> Accrued(l, Interest[l])
      BY <1>4 DEF LoanEnd
    <2>4. k.row[a].bal \in Int
      BY <1>1, <2>1, BalanceType
    <2>5. CASE c.kind = "apply"
      <3>1. k \in Applied(l)
        BY <1>1, <2>3, <2>5
      <3>2. k.own = {a, l} /\ k.told = 0 /\ k.was[l] = Absent /\ k.now[l] = "pending"
            /\ k.draft[a].bal = k.row[a].bal + 0
        BY <3>1 DEF Applied, Owing, Turned
      <3>3. Opens(r, l)
        BY <1>1, <1>2, <2>2, <3>2 DEF Opens, DocsBut, Drifts
      <3> QED
        BY <1>4, <2>1, <2>5, <3>3 DEF OnLoans
    <2>6. CASE c.kind = "disburse"
      <3>1. k \in Disbursed(l, Principal[l])
        BY <1>1, <2>3, <2>6
      <3>2. k.own = {a, l} /\ k.told = Principal[l] /\ k.was[l] = "pending" /\ k.now[l] = "active"
            /\ k.draft[a].bal = k.row[a].bal + (-Principal[l])
        BY <3>1 DEF Disbursed, Owing, Turned
      <3>3. Lends(r, l)
        BY <1>1, <1>2, <2>2, <3>2 DEF Lends, DocsBut, Drifts
      <3> QED
        BY <1>4, <2>1, <2>6, <3>3 DEF OnLoans
    <2>7. CASE c.kind = "accrue"
      <3>1. k \in Accrued(l, Interest[l])
        BY <1>1, <2>3, <2>7
      <3>2. k.own = {a, AccruedToday[l]} /\ k.told = Interest[l] /\ k.row[a].bal < 0
            /\ k.was[AccruedToday[l]] = "due" /\ k.now[AccruedToday[l]] = "accrued"
            /\ k.draft[a].bal = k.row[a].bal + (-Interest[l])
        BY <3>1 DEF Accrued, Owing, Turned, Negative
      <3>3. Accrues(r, l)
        BY <1>1, <1>2, <2>2, <3>2, ZenonT(40) DEF Accrues, DocsBut, Drifts
      <3> QED
        BY <1>4, <2>1, <2>7, <3>3 DEF OnLoans
    <2>8. CASE c.kind = "repay" /\ t \notin PaidByLoans
      <3>1. k \in Repayment(l, c.amt)
        BY <1>1, <2>3, <2>8
      <3>2. CASE k \in Owing(l, {a}, c.amt, -c.amt, Above(c.amt))
        <4>1. k.own = {a} /\ k.told = -c.amt /\ -k.row[a].bal > c.amt
              /\ k.draft[a].bal = k.row[a].bal + c.amt
          BY <3>2 DEF Owing, Above
        <4>2. k.row[a].bal < 0 /\ k.row[a].bal + c.amt < 0
          BY <2>1, <2>4, <4>1, SMTT(30)
        <4>3. Repays(r, l, c.amt)
          BY <1>1, <1>2, <2>2, <4>1, <4>2 DEF Repays, DocsBut, Drifts
        <4> QED
          BY <1>4, <2>1, <2>8, <4>3 DEF OnLoans
      <3>3. CASE k \in Paid(l, {a, l}, -1) \cap Closed(l)
        <4>1. k.own = {a, l} /\ k.now[l] = "closed" /\ k.row[a].bal < 0 /\ k.draft[a].bal = 0
              /\ k.net = -k.row[a].bal /\ k.told = (-1) * k.net
          BY <3>3 DEF Paid, Closed, Negative
        <4> DEFINE n == -k.row[a].bal
        <4>2. n \in Nat /\ k.row[a].bal + n = 0 /\ k.told = -n
          <5>1. k.net \in Int /\ k.net = n /\ k.told = (-1) * k.net
            BY <2>4, <4>1, SMTT(30)
          <5>2. k.told = -k.net
            BY <5>1, SMTT(30)
          <5>3. n \in Nat /\ k.row[a].bal + n = 0
            BY <2>4, <4>1, SMTT(30)
          <5> HIDE DEF n
          <5> QED
            BY <5>1, <5>2, <5>3
        <4> HIDE DEF n
        <4>3. Repays(r, l, n)
          BY <1>1, <1>2, <2>2, <4>1, <4>2 DEF Repays, DocsBut, Drifts
        <4> QED
          BY <1>4, <2>1, <2>8, <4>2, <4>3 DEF OnLoans
      <3> QED
        BY <3>1, <3>2, <3>3 DEF Repayment
    <2>9. CASE c.kind = "repay" /\ t \in PaidByLoans
      <3> DEFINE j == Payer(c)  b == LoanAccount[j]
      <3>1. j \in LoanSet
        BY <1>4, <2>9, LoanCallFields
      <3>2. k \in Refinanced(l, j)
        BY <1>1, <2>3, <2>9
      <3>3. /\ b \in X \cap Accounts /\ b \notin Docs /\ b # l
            /\ \A m \in LoanSet \ {l, j} : LoanAccount[m] # a /\ LoanAccount[m] # b
        BY <2>1, <2>2, <3>1, LoanTypes
      <3> HIDE DEF j
      <3>4. /\ a \in k.own /\ b \in k.own /\ k.own \subseteq {a, b, l} /\ k.row[a].bal < 0
            /\ \/ l \notin k.own /\ k.draft[a].bal < 0
               \/ l \in k.own /\ k.now[l] = "closed" /\ k.draft[a].bal = 0
        BY <2>2, <3>2, <3>3 DEF Refinanced
      <3>5. PICK x \in Nat : \A d \in {a, b} :
              k.draft[d].bal = k.row[d].bal + (IF d = a THEN x ELSE 0) - (IF d = b THEN x ELSE 0)
        BY <3>2 DEF Refinanced
      <3>6. \A d \in {a, b} : row'[d] = k.draft[d] /\ row[d] = k.row[d]
        BY <1>1, <2>2, <3>3, <3>4
      <3>7. \A m \in LoanSet \ {l, j} : row'[LoanAccount[m]] = row[LoanAccount[m]]
        BY <1>1, <2>2, <3>3, <3>4
      <3>8. \/ row'[a].bal < 0 /\ DocsBut({})
            \/ row'[a].bal = 0 /\ doc'[l] = "closed" /\ DocsBut({l}) /\ owner[a] = r
        <4>1. CASE l \notin k.own /\ k.draft[a].bal < 0
          BY <1>1, <2>2, <3>3, <3>4, <3>6, <4>1 DEF DocsBut
        <4>2. CASE l \in k.own /\ k.now[l] = "closed" /\ k.draft[a].bal = 0
          BY <1>1, <1>2, <2>2, <3>3, <3>4, <3>6, <4>2 DEF DocsBut
        <4> QED
          BY <3>4, <4>1, <4>2
      <3>9. Refinances(r, l, j)
        BY <3>4, <3>5, <3>6, <3>7, <3>8 DEF Refinances
      <3> QED
        BY <1>4, <2>1, <2>9, <3>1, <3>9 DEF OnLoans, j
    <2> QED
      BY <2>1, <2>5, <2>6, <2>7, <2>8, <2>9 DEF LoanKinds
  <1> QED
    BY <1>3, <1>4

-----------------------------------------------------------------------------
(* The loan whose account pays is still active when the payment commits. *)

\* The first statements of a repayment by a loan's account: that loan is looked
\* at before the two accounts are locked, and again after.
LEMMA PayerScript ==
    ASSUME NEW t \in PaidByLoans
    PROVE  LET s == Script[t]  j == Payer(LoanCall[t]) IN
           /\ j \in LoanSet /\ LoanAccount[j] \in {s[3].row, s[4].row}
           /\ s[3].op = "lock" /\ s[4].op = "lock" /\ s[3].row \in Accounts /\ s[4].row \in Accounts
           /\ s[5].op = "expect" /\ s[5].row = j /\ s[5].was = "active"
           /\ \A i \in 1..5 : s[i].op \notin {"when", "commit"}
  <1> DEFINE c == LoanCall[t]  j == Payer(c)  a == LoanAccount[c.l]  b == LoanAccount[j]
             e == OnDoc("expect", c.l, "active", Blank)  x == OnDoc("expect", j, "active", Blank)
             f == IF AccountId[a] < AccountId[c.with] THEN Do("lock", a, 0) ELSE Do("lock", c.with, 0)
             g == IF AccountId[a] < AccountId[c.with] THEN Do("lock", c.with, 0) ELSE Do("lock", a, 0)
             p == << e, x, f, g, x >>
             q == IfElse(a, "owes", c.amt, Pay(c, c.amt, Blank, << >>),
                         << Do("net", a, 0) >> \o Pay(c, 1, ByNet, CloseIfPaid(c.l)))
             u == << Do("funds", c.with, c.amt) >>
  <1>1. /\ t \in LoanCalls /\ c.kind = "repay" /\ c.l \in LoanSet /\ c.amt \in Nat /\ j \in LoanSet
        /\ b = c.with /\ Script[t] = Repay(c) /\ c.with \in LoanAccounts
        /\ a \in Accounts /\ b \in Accounts
    BY LoanCallFields, LoanTypes DEF PaidByLoans, LoanScript
  <1>2. IsOpen(c.with) = << x >> /\ LockBoth(c) = << f, g >>
    BY <1>1 DEF IsOpen, LockBoth, Payer
  <1>3. Repay(c) = << e >> \o << x >> \o << f, g >> \o << x >> \o u \o q \o Completed
    BY <1>2 DEF Repay
  <1>4. << e >> \o << x >> \o << f, g >> \o << x >> = p
    <2> DEFINE E == << e >>  L == << x >>  F == << f >>  G == << g >>
    <2>1. IsPiece(E) /\ IsPiece(L) /\ IsPiece(F) /\ IsPiece(G)
      BY OnePiece
    <2>2. p = E \o (L \o (F \o (G \o L))) /\ << f, g >> = F \o G
      BY FiveOnes, TwoOnes
    <2> HIDE DEF E, L, F, G, p
    <2>3. IsPiece(E \o L) /\ IsPiece(F \o G) /\ IsPiece(F \o (G \o L))
      <3>1. IsPiece(E \o L) /\ IsPiece(F \o G) /\ IsPiece(G \o L)
        BY <2>1, PiecesJoin
      <3> QED
        BY <2>1, <3>1, PiecesJoin
    <2>4. F \o (G \o L) = (F \o G) \o L
      BY <2>1, PiecesAssociate
    <2> DEFINE H == F \o G  I == F \o (G \o L)  K == E \o L
    <2>5. IsPiece(H) /\ IsPiece(I) /\ IsPiece(K)
      BY <2>3
    <2>6. p = E \o (L \o I) /\ I = H \o L
      BY <2>2, <2>4
    <2> HIDE DEF H, I
    <2>7. E \o (L \o I) = K \o I
      BY <2>1, <2>5, PiecesAssociate
    <2> HIDE DEF K
    <2>8. K \o (H \o L) = (K \o H) \o L
      BY <2>1, <2>5, PiecesAssociate
    <2>9. p = (K \o H) \o L
      BY <2>6, <2>7, <2>8
    <2> QED
      BY <2>2, <2>9 DEF E, L, H, K
  <1>5. IsPiece(p) /\ Len(p) = 5 /\ IsPiece(u) /\ IsPiece(Completed)
        /\ p[1] = e /\ p[2] = x /\ p[3] = f /\ p[4] = g /\ p[5] = x
    <2>1. IsPiece(u) /\ IsPiece(Completed)
      BY OnePiece DEF Completed
    <2> HIDE DEF e, x, f, g, u
    <2>2. p \in Seq({e, x, f, g})
      OBVIOUS
    <2> QED
      BY <2>1, <2>2 DEF IsPiece
  <1>6. IsPiece(q)
    BY <1>1, RepayPiece
  <1>7. Repay(c) = ((p \o u) \o q) \o Completed
    BY <1>3, <1>4
  <1> DEFINE pu == p \o u  pq == pu \o q  s == pq \o Completed
  <1>8. \A i \in 1..5 : s[i] = p[i]
    <2> HIDE DEF p, q, u
    <2>0. /\ IsPiece(pu) /\ Len(pu) = Len(p) + Len(u) /\ Len(u) \in Nat
          /\ \A i \in 1..Len(p) : pu[i] = p[i]
      BY <1>5, PiecesJoin
    <2>1. IsPiece(pu) /\ Len(pu) = Len(p) + Len(u) /\ Len(u) \in Nat /\ \A i \in 1..5 : pu[i] = p[i]
      BY <1>5, <2>0
    <2> HIDE DEF pu
    <2>2. IsPiece(pq) /\ Len(pq) = Len(pu) + Len(q) /\ Len(q) \in Nat
          /\ \A i \in 1..Len(pu) : pq[i] = pu[i]
      BY <1>6, <2>1, PiecesJoin
    <2> HIDE DEF pq
    <2>3. \A i \in 1..Len(pq) : s[i] = pq[i]
      BY <1>5, <2>2, PiecesJoin
    <2> HIDE DEF s
    <2>4. \A i \in 1..5 : i \in 1..Len(pu) /\ i \in 1..Len(pq)
      BY <1>5, <2>1, <2>2
    <2> QED
      BY <2>1, <2>2, <2>3, <2>4
  <1>9. /\ e.op = "expect" /\ x.op = "expect" /\ x.row = j /\ x.was = "active"
        /\ f.op = "lock" /\ g.op = "lock" /\ {f.row, g.row} = {a, b}
    BY <1>1 DEF OnDoc, Do, Stmt
  <1>10. Script[t] = s
    BY <1>1, <1>7
  <1> HIDE DEF s, e, x, f, g, p, q, u, j, c
  <1>11. /\ s[1] = e /\ s[2] = x /\ s[3] = f /\ s[4] = g /\ s[5] = x
    BY <1>5, <1>8
  <1>12. \A i \in 1..5 : s[i].op \in {"expect", "lock"}
    <2> TAKE i \in 1..5
    <2>1. i = 1 \/ i = 2 \/ i = 3 \/ i = 4 \/ i = 5
      OBVIOUS
    <2> QED
      BY <1>9, <1>11, <2>1
  <1> QED
    BY <1>1, <1>9, <1>10, <1>11, <1>12 DEF j, c

\* From the second look on the loan that pays is active, for whoever would close
\* it needs the lock of its account.
PayersOpen ==
    \A q \in Open : task[q] \in PaidByLoans =>
        LET s == Script[task[q]]  j == Payer(LoanCall[task[q]]) IN
        /\ pc[q] >= 4 => owner[s[3].row] = q
        /\ pc[q] >= 5 => owner[s[4].row] = q
        /\ pc[q] >= 6 => doc[j] = "active"

\* No commit of another closes a loan whose account is locked.
LEMMA StaysActive ==
    ASSUME NEW r, OnLoans(r), NEW j \in LoanSet, doc[j] = "active", owner[LoanAccount[j]] # r
    PROVE  doc'[j] = "active"
  <1>1. /\ j \in OwedRows \cap Docs /\ "active" # "pending" /\ "active" # Absent
        /\ \A m \in LoanSet : AccruedToday[m] # j
    BY LoanTypes
  <1>2. CASE task[r] \notin LoanCalls
    BY <1>1, <1>2 DEF OnLoans, LoansStay, DocsBut
  <1>3. CASE task[r] \in LoanCalls
    <2> DEFINE l == LoanCall[task[r]].l
    <2>1. l \in LoanSet
      BY <1>3 DEF OnLoans
    <2>2. CASE Opens(r, l)
      BY <1>1, <2>2 DEF Opens, DocsBut
    <2>3. CASE Lends(r, l)
      BY <1>1, <2>3 DEF Lends, DocsBut
    <2>4. CASE Accrues(r, l)
      BY <1>1, <2>1, <2>4 DEF Accrues, DocsBut
    <2>5. ASSUME NEW n \in Nat, Repays(r, l, n) PROVE doc'[j] = "active"
      BY <1>1, <2>5 DEF Repays, DocsBut
    <2>6. ASSUME NEW i, Refinances(r, l, i) PROVE doc'[j] = "active"
      BY <1>1, <2>6 DEF Refinances, DocsBut
    <2> QED
      BY <1>3, <2>2, <2>3, <2>4, <2>5, <2>6 DEF OnLoans
  <1> QED
    BY <1>2, <1>3

\* What a statement has locked stays locked.
LEMMA OwnGrows ==
    ASSUME NEW X, NEW s, NEW l, NEW m, Does(X, s, l, m)
    PROVE  l.own \subseteq m.own /\ (s.op = "lock" /\ s.row \in X => s.row \in m.own)
  <1>1. CASE s.op \in DocWrites /\ s.row \in X /\ ChangesDoc(s, l, m)
    BY <1>1 DEF ChangesDoc, TakesDoc, DocWrites
  <1>2. CASE s.op = "sweep" /\ Sweeps(X, s, l, m)
    BY <1>2 DEF Sweeps
  <1>3. CASE s.op \in AccountWrites /\ s.row \in X /\ ChangesRow(s, l, m)
    BY <1>3 DEF ChangesRow, TakesRow
  <1>4. CASE SameLocks(l, m) /\ (s.op \in AccountWrites => s.row \notin X)
    BY <1>4 DEF SameLocks, AccountWrites
  <1> QED
    BY <1>1, <1>2, <1>3, <1>4 DEF Does, AccountWrites, DocWrites, SameLocks

\* No step lets the loan that pays be closed meanwhile.
LEMMA PayersKept ==
    ASSUME TypeOK, Unlocked, PayersOpen, [Next]_vars, \A r \in Requests : Commit(r) => OnLoans(r)
    PROVE  PayersOpen'
  <1> SUFFICES ASSUME NEW q \in Requests, outcome'[q] = "open", task'[q] \in PaidByLoans
               PROVE  LET s == Script[task'[q]]  j == Payer(LoanCall[task'[q]]) IN
                      /\ pc'[q] >= 4 => owner'[s[3].row] = q
                      /\ pc'[q] >= 5 => owner'[s[4].row] = q
                      /\ pc'[q] >= 6 => doc'[j] = "active"
    BY DEF PayersOpen, Open
  <1> DEFINE s == Script[task'[q]]  j == Payer(LoanCall[task'[q]])
             Good == /\ pc'[q] >= 4 => owner'[s[3].row] = q
                     /\ pc'[q] >= 5 => owner'[s[4].row] = q
                     /\ pc'[q] >= 6 => doc'[j] = "active"
  <1>1. /\ j \in LoanSet /\ LoanAccount[j] \in {s[3].row, s[4].row}
        /\ s[3].op = "lock" /\ s[4].op = "lock" /\ s[3].row \in Accounts /\ s[4].row \in Accounts
        /\ s[5].op = "expect" /\ s[5].row = j /\ s[5].was = "active"
        /\ \A i \in 1..5 : s[i].op \notin {"when", "commit"}
    BY PayerScript
  <1>2. doc[j] = "active" /\ owner[LoanAccount[j]] = q => doc'[j] = "active"
    <2> SUFFICES ASSUME doc[j] = "active", owner[LoanAccount[j]] = q PROVE doc'[j] = "active"
      OBVIOUS
    <2>1. CASE UNCHANGED << row, doc, journal >>
      BY <2>1
    <2>2. ASSUME NEW r \in Requests, Commit(r) PROVE doc'[j] = "active"
      <3>1. r # q
        BY <2>2, CommitIsPosted
      <3> QED
        BY <1>1, <2>2, <3>1, StaysActive
    <2> QED
      BY <2>1, <2>2, OnlyCommits
  <1> HIDE DEF j, s
  <1>3. ASSUME outcome[q] = "open", task'[q] = task[q], pc'[q] = pc[q],
               \A a \in Accounts : owner[a] = q => owner'[a] = q
        PROVE  Good
    <2>1. /\ pc[q] >= 4 => owner[s[3].row] = q
          /\ pc[q] >= 5 => owner[s[4].row] = q
          /\ pc[q] >= 6 => doc[j] = "active"
      BY <1>3 DEF PayersOpen, Open, j, s
    <2>2. pc[q] \in Nat
      BY DEF TypeOK
    <2>3. pc[q] >= 6 => owner[s[3].row] = q /\ owner[s[4].row] = q
      BY <2>1, <2>2
    <2>4. pc[q] >= 6 => doc'[j] = "active"
      BY <1>1, <1>2, <2>1, <2>3
    <2>5. /\ owner[s[3].row] = q => owner'[s[3].row] = q
          /\ owner[s[4].row] = q => owner'[s[4].row] = q
      BY <1>1, <1>3
    <2> QED
      BY <1>3, <2>1, <2>4, <2>5
  <1>4. ASSUME UNCHANGED vars PROVE Good
    <2> HIDE DEF Good
    <2>1. /\ outcome' = outcome /\ task' = task /\ pc' = pc /\ owner' = owner
      BY <1>4 DEF vars, sql
    <2> QED
      BY <1>3, <2>1
  <1>5. ASSUME NEW r \in Requests, NEW t \in Tasks, Begin(r, t) PROVE Good
    <2>1. CASE q = r
      <3>1. pc'[q] = 1
        BY <1>5, <2>1 DEF Begin, TypeOK
      <3> QED
        BY <3>1
    <2>2. CASE q # r
      <3>1. /\ outcome[q] = "open" /\ task'[q] = task[q] /\ pc'[q] = pc[q] /\ owner' = owner
        BY <1>5, <2>2 DEF Begin, TypeOK, sql
      <3> HIDE DEF Good
      <3> QED
        BY <1>3, <3>1
    <2> QED
      BY <2>1, <2>2
  <1>6. ASSUME NEW r \in Requests, NEW how, how # "open", Finish(r, how) PROVE Good
    <2>1. q # r
      BY <1>6 DEF Finish, TypeOK
    <2>2. /\ outcome[q] = "open" /\ task'[q] = task[q] /\ pc'[q] = pc[q]
      BY <1>6, <2>1 DEF Finish, TypeOK
    <2>3. \A a \in Accounts : owner[a] = q => owner'[a] = q
      BY <1>6, <2>1 DEF Finish, Rows
    <2> HIDE DEF Good
    <2> QED
      BY <1>3, <2>2, <2>3
  <1>7. ASSUME NEW r \in Requests, Abort(r) PROVE Good
    <2>1. Finish(r, "failed")
      BY <1>7 DEF Abort, Rollback
    <2> QED
      BY <1>6, <2>1
  <1>8. ASSUME NEW r \in Requests, Execute(r) PROVE Good
    <2>0. Accounts \in SUBSET Rows
      BY DEF Rows
    <2>1. r \in Open /\ StepOf(r) /\ (Ran(Accounts, r) \/ GaveUp(r) \/ Chose(Accounts, r) \/ Commit(r))
      BY <1>8, <2>0, ExecuteStands
    <2>2. CASE q # r
      <3>1. /\ outcome[q] = "open" /\ task'[q] = task[q] /\ pc'[q] = pc[q]
            /\ \A a \in Accounts : owner[a] = q => owner'[a] = q
        BY <2>0, <2>1, <2>2 DEF StepOf
      <3> HIDE DEF Good
      <3> QED
        BY <1>3, <3>1
    <2>3. CASE GaveUp(r)
      BY <1>6, <2>3 DEF GaveUp, Rollback
    <2>4. CASE Commit(r)
      BY <1>6, <2>4 DEF Commit
    <2>5. CASE q = r /\ (Ran(Accounts, r) \/ Chose(Accounts, r))
      <3> DEFINE z == Upcoming(q)  l == StandingOf(Accounts, q)  m == StandingOf(Accounts, q)'  n == pc[q]
      <3>1. outcome[q] = "open" /\ task'[q] = task[q] /\ n \in Nat \ {0} /\ z = s[n]
        <4>1. outcome[q] = "open" /\ task'[q] = task[q]
          BY <2>1, <2>5 DEF Ran, Advance, Chose, Open
        <4>2. n \in Nat \ {0}
          BY <2>1, <2>5, UpcomingStatement DEF TypeOK
        <4> QED
          BY <4>1, <4>2 DEF Upcoming, s
      <3>2. l.own = {x \in Accounts : owner[x] = q} /\ m.own = {x \in Accounts : owner'[x] = q}
        BY DEF StandingOf
      <3>3. /\ n >= 4 => owner[s[3].row] = q
            /\ n >= 5 => owner[s[4].row] = q
            /\ n >= 6 => doc[j] = "active"
        BY <3>1 DEF PayersOpen, Open, j, s
      <3>4. l.own \subseteq m.own /\ (Ran(Accounts, q) /\ z.op = "lock" /\ z.row \in Accounts => z.row \in m.own)
        <4>1. CASE Ran(Accounts, q)
          <5>1. Does(Accounts, z, l, m)
            BY <4>1 DEF Ran
          <5> HIDE DEF z, l, m
          <5> QED
            BY <5>1, OwnGrows
        <4>2. CASE Chose(Accounts, q)
          <5>1. m = l /\ z.op = "when"
            BY <4>2 DEF Chose
          <5> HIDE DEF z, l, m
          <5> QED
            BY <5>1
        <4> QED
          BY <2>5, <4>1, <4>2
      <3>5. \A a \in Accounts : owner[a] = q => owner'[a] = q
        BY <3>2, <3>4
      <3>6. n \in 1..5 => Ran(Accounts, q) /\ pc'[q] = n + 1
        <4> SUFFICES ASSUME n \in 1..5 PROVE Ran(Accounts, q) /\ pc'[q] = n + 1
          OBVIOUS
        <4>1. z.op # "when"
          BY <1>1, <3>1
        <4>2. Ran(Accounts, q)
          BY <2>5, <4>1 DEF Chose
        <4> QED
          BY <4>2 DEF Ran, Advance, TypeOK
      <3>7. pc'[q] >= 4 => owner'[s[3].row] = q
        <4>1. CASE n >= 4
          BY <1>1, <3>3, <3>5, <4>1
        <4>2. CASE n = 3
          BY <1>1, <3>1, <3>2, <3>4, <3>6, <4>2
        <4>3. CASE n \in {1, 2}
          BY <3>6, <4>3
        <4> QED
          BY <3>1, <4>1, <4>2, <4>3
      <3>8. pc'[q] >= 5 => owner'[s[4].row] = q
        <4>1. CASE n >= 5
          BY <1>1, <3>3, <3>5, <4>1
        <4>2. CASE n = 4
          BY <1>1, <3>1, <3>2, <3>4, <3>6, <4>2
        <4>3. CASE n \in {1, 2, 3}
          BY <3>6, <4>3
        <4> QED
          BY <3>1, <4>1, <4>2, <4>3
      <3>9. pc'[q] >= 6 => doc'[j] = "active"
        <4>0. n >= 5 => owner[LoanAccount[j]] = q
          <5>1. n >= 5 => n >= 4
            BY <3>1
          <5> QED
            BY <1>1, <3>3, <5>1
        <4>1. CASE n >= 6
          <5>1. n >= 5
            BY <3>1, <4>1
          <5> QED
            BY <1>2, <3>3, <4>0, <4>1, <5>1
        <4>2. CASE n = 5
          <5>1. z.op = "expect" /\ z.row = j /\ z.was = "active"
            BY <1>1, <3>1, <4>2
          <5>2. Expect(q)
            BY <1>8, <2>5, <5>1
               DEF Execute, Lock, Funds, WithinLimit, Expect, Find, Insert, Mark, Set, Ensure,
                   Sweep, NetOut, Tally, When, Hold, Floor, TriggerRead, TriggerWrite, Recompute,
                   RecomputeCard, UseLimit, PostGL, Commit, At
          <5>3. doc[j] = "active"
            <6> SUFFICES ASSUME doc[j] # "active" PROVE FALSE
              OBVIOUS
            <6>1. Finish(q, "refused")
              BY <5>1, <5>2 DEF Expect, Require, Rollback
            <6> QED
              BY <6>1 DEF Finish, TypeOK
          <5>4. n >= 5
            BY <4>2
          <5> QED
            BY <1>2, <4>0, <5>3, <5>4
        <4>3. CASE n \in {1, 2, 3, 4}
          BY <3>6, <4>3
        <4> QED
          BY <3>1, <4>1, <4>2, <4>3
      <3> QED
        BY <3>7, <3>8, <3>9
    <2> QED
      BY <2>1, <2>2, <2>3, <2>4, <2>5
  <1>9. Good
    BY <1>4, <1>5, <1>7, <1>8 DEF Next, Done
  <1> QED
    BY <1>9 DEF j, s

-----------------------------------------------------------------------------
\* The posted calls of a kind about a loan.
PostedOn(kind, l) ==
    {r \in Requests : /\ outcome[r] = "posted" /\ task[r] \in LoanCalls
                      /\ LoanCall[task[r]].kind = kind /\ LoanCall[task[r]].l = l}

\* The debt goes with the status; a loan is paid out when it turns active, and
\* charged when its day turns accrued, once each.
DebtFollows ==
    \A l \in LoanSet :
        IF doc[l] = "active" THEN row[LoanAccount[l]].bal < 0 ELSE row[LoanAccount[l]].bal = 0
OnceEach ==
    \A l \in LoanSet :
        /\ doc[l] \in {Absent, "pending"} => PostedOn("disburse", l) = {}
        /\ doc[AccruedToday[l]] = "due" => PostedOn("accrue", l) = {}
        /\ \A kind \in {"disburse", "accrue"} : \A p, q \in PostedOn(kind, l) : p = q
LoansSound == DebtFollows /\ OnceEach /\ ReceivableIsOwed /\ PayersOpen

\* The balances of the loans.
LEMMA LoanBalances ==
    ASSUME TypeOK
    PROVE  \A l \in LoanSet : row[LoanAccount[l]].bal \in Int /\ OpeningRow[LoanAccount[l]].bal \in Int
  <1>1. \A l \in LoanSet : LoanAccount[l] \in Accounts
    BY LoanTypes
  <1> QED
    BY <1>1, RowsAssumption DEF TypeOK, AccountRow

\* When a payment commits, the loan that pays is active.
LEMMA PayerActive ==
    ASSUME TypeOK, PayersOpen, NEW r \in Requests, Commit(r), task[r] \in PaidByLoans
    PROVE  doc[Payer(LoanCall[task[r]])] = "active"
  <1>1. r \in Open /\ Script[task[r]][pc[r]].op = "commit"
    BY DEF Commit, At, Upcoming, Open
  <1>2. pc[r] \in Nat \ {0}
    BY <1>1, UpcomingStatement DEF TypeOK
  <1>3. pc[r] \notin 1..5
    BY <1>1, PayerScript
  <1>4. pc[r] >= 6
    BY <1>2, <1>3
  <1> QED
    BY <1>1, <1>4 DEF PayersOpen

\* No commit parts the debt from the status.
LEMMA DebtKept ==
    ASSUME TypeOK, DebtFollows, PayersOpen, NEW r \in Requests, Commit(r), OnLoans(r)
    PROVE  DebtFollows'
  <1>1. \A m \in LoanSet : m \in OwedRows \cap Docs /\ row[LoanAccount[m]].bal \in Int
    BY LoanTypes, LoanBalances
  <1>2. CASE LoansStay
    BY <1>1, <1>2 DEF LoansStay, DocsBut, DebtFollows
  <1>3. ASSUME NEW l \in LoanSet,
               \/ Opens(r, l) \/ Lends(r, l) \/ Accrues(r, l) \/ \E n \in Nat : Repays(r, l, n)
        PROVE  DebtFollows'
    <2>1. \A m \in LoanSet \ {l} : row'[LoanAccount[m]] = row[LoanAccount[m]]
      BY <1>3 DEF Opens, Lends, Accrues, Repays, Drifts
    <2>2. \A m \in LoanSet \ {l} : doc'[m] = doc[m]
      <3>1. \A m \in LoanSet : AccruedToday[l] # m
        BY LoanTypes
      <3> QED
        BY <1>1, <1>3, <3>1 DEF Opens, Lends, Accrues, Repays, DocsBut
    <2>3. IF doc'[l] = "active" THEN row'[LoanAccount[l]].bal < 0 ELSE row'[LoanAccount[l]].bal = 0
      <3>0. IF doc[l] = "active" THEN row[LoanAccount[l]].bal < 0 ELSE row[LoanAccount[l]].bal = 0
        BY DEF DebtFollows
      <3>1. /\ Principal[l] \in Nat \ {0} /\ Interest[l] \in Nat \ {0} /\ Absent # "active"
            /\ AccruedToday[l] # l
        BY LoanTypes
      <3>2. CASE Opens(r, l)
        BY <3>0, <3>1, <3>2 DEF Opens, Drifts
      <3>3. CASE Lends(r, l)
        BY <1>1, <3>0, <3>1, <3>3 DEF Lends, Drifts
      <3>4. CASE Accrues(r, l)
        <4>1. doc'[l] = doc[l]
          BY <1>1, <3>1, <3>4 DEF Accrues, DocsBut
        <4> QED
          BY <1>1, <3>0, <3>1, <3>4, <4>1 DEF Accrues, Drifts
      <3>5. ASSUME NEW n \in Nat, Repays(r, l, n)
            PROVE  IF doc'[l] = "active" THEN row'[LoanAccount[l]].bal < 0
                                         ELSE row'[LoanAccount[l]].bal = 0
        <4>1. doc[l] = "active"
          BY <1>1, <3>0, <3>5 DEF Repays
        <4>2. CASE row[LoanAccount[l]].bal + n < 0 /\ DocsBut({})
          BY <1>1, <3>5, <4>1, <4>2 DEF Repays, Drifts, DocsBut
        <4>3. CASE row[LoanAccount[l]].bal + n = 0 /\ doc'[l] = "closed"
          BY <3>5, <4>3 DEF Repays, Drifts
        <4> QED
          BY <3>5, <4>2, <4>3 DEF Repays
      <3> QED
        BY <1>3, <3>2, <3>3, <3>4, <3>5
    <2> QED
      BY <2>1, <2>2, <2>3 DEF DebtFollows
  <1>4. ASSUME NEW l \in LoanSet, NEW j \in LoanSet, Refinances(r, l, j),
               task[r] \in PaidByLoans, j = Payer(LoanCall[task[r]])
        PROVE  DebtFollows'
    <2> DEFINE a == LoanAccount[l]  b == LoanAccount[j]
    <2>1. PICK x \in Nat : \A d \in {a, b} :
            row'[d].bal = row[d].bal + (IF d = a THEN x ELSE 0) - (IF d = b THEN x ELSE 0)
      BY <1>4 DEF Refinances
    <2>2. doc[l] = "active" /\ row[a].bal < 0 /\ row[a].bal \in Int /\ row[b].bal \in Int
      BY <1>1, <1>4 DEF Refinances, DebtFollows
    <2>3. doc[j] = "active"
      BY <1>4, PayerActive
    <2>4. row[b].bal < 0
      BY <2>3 DEF DebtFollows
    <2>5. l # j => a # b
      BY LoanTypes
    <2>6. l # j => row'[b].bal < 0
      BY <2>1, <2>2, <2>4, <2>5
    <2>7. l = j => row'[a].bal < 0
      BY <2>1, <2>2
    <2>8. CASE row'[a].bal < 0 /\ DocsBut({})
      <3>1. \A m \in LoanSet : doc'[m] = doc[m]
        BY <1>1, <2>8 DEF DocsBut
      <3>2. \A m \in LoanSet \ {l, j} : row'[LoanAccount[m]] = row[LoanAccount[m]]
        BY <1>4 DEF Refinances
      <3> QED
        BY <2>2, <2>3, <2>6, <2>8, <3>1, <3>2 DEF DebtFollows
    <2>9. CASE row'[a].bal = 0 /\ doc'[l] = "closed" /\ DocsBut({l})
      <3>1. l # j
        BY <2>7, <2>9
      <3>2. \A m \in LoanSet \ {l} : doc'[m] = doc[m]
        BY <1>1, <2>9 DEF DocsBut
      <3>3. \A m \in LoanSet \ {l, j} : row'[LoanAccount[m]] = row[LoanAccount[m]]
        BY <1>4 DEF Refinances
      <3> QED
        BY <2>3, <2>6, <2>9, <3>1, <3>2, <3>3 DEF DebtFollows
    <2> QED
      BY <1>4, <2>8, <2>9 DEF Refinances
  <1> QED
    BY <1>2, <1>3, <1>4 DEF OnLoans

\* The request that commits, if it is a call about the loan, is added.
LEMMA PostedGrows ==
    ASSUME TypeOK, NEW r \in Requests, Commit(r), NEW kind, NEW l
    PROVE  /\ PostedOn(kind, l)' =
                PostedOn(kind, l) \cup {q \in {r} : /\ task[r] \in LoanCalls
                                                    /\ LoanCall[task[r]].kind = kind
                                                    /\ LoanCall[task[r]].l = l}
           /\ r \notin PostedOn(kind, l)
  <1>1. /\ outcome[r] = "open" /\ task' = task
        /\ \A q \in Requests : outcome'[q] = IF q = r THEN "posted" ELSE outcome[q]
    BY CommitIsPosted
  <1> QED
    BY <1>1 DEF PostedOn

\* No loan is paid out, or charged for the day, again.
LEMMA OnceEachKept ==
    ASSUME TypeOK, OnceEach, NEW r \in Requests, Commit(r), OnLoans(r)
    PROVE  OnceEach'
  <1>1. ASSUME NEW m \in LoanSet
        PROVE  /\ doc'[m] \in {Absent, "pending"} => PostedOn("disburse", m)' = {}
               /\ doc'[AccruedToday[m]] = "due" => PostedOn("accrue", m)' = {}
               /\ \A kind \in {"disburse", "accrue"} : \A p, q \in PostedOn(kind, m)' : p = q
    <2> DEFINE c == LoanCall[task[r]]  l == c.l  mine == task[r] \in LoanCalls /\ l = m
    <2>1. \A kind \in {"disburse", "accrue"} :
            PostedOn(kind, m)' =
                PostedOn(kind, m) \cup {q \in {r} : mine /\ c.kind = kind}
      BY PostedGrows
    <2>2. /\ m \in OwedRows \cap Docs /\ AccruedToday[m] \in OwedRows \cap Docs
          /\ "active" # "pending" /\ Absent # "active" /\ Absent # "closed"
          /\ \A k \in LoanSet : AccruedToday[k] # m /\ AccruedToday[m] # k
          /\ \A k \in LoanSet : k # m => AccruedToday[k] # AccruedToday[m]
      BY LoanTypes
    <2>3. doc'[m] \in {Absent, "pending"} => doc[m] \in {Absent, "pending"}
      <3>1. CASE ~mine
        <4>1. doc'[m] = doc[m]
          BY <2>2, <3>1 DEF OnLoans, LoansStay, Opens, Lends, Accrues, Repays, Refinances, DocsBut
        <4> QED
          BY <4>1
      <3>2. CASE mine
        BY <2>2, <3>2 DEF OnLoans, Opens, Lends, Accrues, Repays, Refinances, DocsBut
      <3> QED
        BY <3>1, <3>2
    <2>4. doc'[AccruedToday[m]] = "due" => doc[AccruedToday[m]] = "due"
      BY <2>2 DEF OnLoans, LoansStay, Opens, Lends, Accrues, Repays, Refinances, DocsBut
    <2>5. CASE mine /\ c.kind = "disburse"
      <3>1. doc[m] = "pending" /\ doc'[m] = "active"
        BY <2>5 DEF OnLoans, Lends
      <3>2. PostedOn("disburse", m) = {}
        BY <3>1 DEF OnceEach
      <3>3. PostedOn("disburse", m)' = {r} /\ PostedOn("accrue", m)' = PostedOn("accrue", m)
        BY <2>1, <2>5, <3>2
      <3> QED
        BY <2>2, <2>4, <3>1, <3>3 DEF OnceEach
    <2>6. CASE mine /\ c.kind = "accrue"
      <3>1. doc[AccruedToday[m]] = "due" /\ doc'[AccruedToday[m]] = "accrued"
        BY <2>6 DEF OnLoans, Accrues
      <3>2. PostedOn("accrue", m) = {}
        BY <3>1 DEF OnceEach
      <3>3. PostedOn("accrue", m)' = {r} /\ PostedOn("disburse", m)' = PostedOn("disburse", m)
        BY <2>1, <2>6, <3>2
      <3> QED
        BY <2>3, <3>1, <3>3 DEF OnceEach
    <2>7. CASE ~(mine /\ c.kind \in {"disburse", "accrue"})
      <3>1. /\ PostedOn("disburse", m)' = PostedOn("disburse", m)
            /\ PostedOn("accrue", m)' = PostedOn("accrue", m)
        BY <2>1, <2>7
      <3> QED
        BY <2>3, <2>4, <3>1 DEF OnceEach
    <2> QED
      BY <2>5, <2>6, <2>7
  <1> QED
    BY <1>1 DEF OnceEach

\* What is owed, and what the core was told.
OwedMore == [l \in LoanSet |-> OpeningRow[LoanAccount[l]].bal - row[LoanAccount[l]].bal]
LoanTold ==
    [r \in Requests |->
        IF outcome[r] = "posted" /\ task[r] \in LoanCalls \ PaidByLoans THEN gl[r] ELSE 0]

\* They are whole numbers.
LEMMA OwedType ==
    ASSUME TypeOK
    PROVE  WholeOn(LoanSet, OwedMore) /\ WholeOn(Requests, LoanTold)
  BY LoanBalances DEF TypeOK, WholeOn, OwedMore, LoanTold

\* The loans and the core move together.
LEMMA ReceivableKept ==
    ASSUME TypeOK, TypeOK', ReceivableIsOwed, NEW r \in Requests, Commit(r), OnLoans(r)
    PROVE  ReceivableIsOwed'
  <1> DEFINE f == OwedMore  g == OwedMore'  u == LoanTold  v == LoanTold'
             n == IF task[r] \in LoanCalls \ PaidByLoans THEN gl[r] ELSE 0
  <1>0. /\ IsFiniteSet(LoanSet) /\ IsFiniteSet(Requests)
        /\ SumOver(Requests, u) = SumOver(LoanSet, f)
    BY LoanRows DEF ReceivableIsOwed, OwedSince, OwedMore, LoanTold, PostedFor
  <1>1. WholeOn(LoanSet, f) /\ WholeOn(Requests, u)
    BY OwedType
  <1>2. WholeOn(LoanSet, g) /\ WholeOn(Requests, v)
    <2>1. \A l \in LoanSet : LoanAccount[l] \in Accounts
      BY LoanTypes
    <2>2. \A l \in LoanSet : row'[LoanAccount[l]].bal \in Int /\ OpeningRow[LoanAccount[l]].bal \in Int
      BY <2>1, RowsAssumption DEF TypeOK, AccountRow
    <2>3. \A q \in Requests : gl'[q] \in Int
      BY DEF TypeOK
    <2> QED
      BY <2>2, <2>3 DEF WholeOn, OwedMore, LoanTold
  <1>3. /\ outcome[r] = "open" /\ task' = task /\ gl' = gl
        /\ \A q \in Requests : outcome'[q] = IF q = r THEN "posted" ELSE outcome[q]
    BY CommitIsPosted
  <1>4. v[r] = n /\ u[r] = 0 /\ \A q \in Requests \ {r} : u[q] = v[q]
    BY <1>3 DEF LoanTold
  <1>5. gl[r] \in Int /\ n \in Int
    BY DEF TypeOK
  <1> HIDE DEF u, v
  <1>6. SumOver(Requests, v) = SumOver(Requests, u) + n
    <2>1. SumOver(Requests, v) = SumOver(Requests, u) + (v[r] - u[r])
      BY <1>0, <1>1, <1>2, <1>4, SumChange
    <2> QED
      BY <1>4, <1>5, <2>1
  <1>7. SumOver(LoanSet, f) \in Int
    BY <1>0, <1>1, SumType
  <1>8. SumOver(LoanSet, g) = SumOver(LoanSet, f) + n
    <2>1. ASSUME NEW l \in LoanSet, Drifts(l, -n)
          PROVE  SumOver(LoanSet, g) = SumOver(LoanSet, f) + n
      <3>1. \A m \in LoanSet \ {l} : f[m] = g[m]
        BY <2>1 DEF Drifts, OwedMore
      <3>2. /\ f[l] = OpeningRow[LoanAccount[l]].bal - row[LoanAccount[l]].bal
            /\ g[l] = OpeningRow[LoanAccount[l]].bal - row'[LoanAccount[l]].bal
        BY DEF OwedMore
      <3>3. row'[LoanAccount[l]].bal = row[LoanAccount[l]].bal + (-n)
        BY <2>1 DEF Drifts
      <3>4. row[LoanAccount[l]].bal \in Int /\ OpeningRow[LoanAccount[l]].bal \in Int
        BY LoanBalances
      <3> HIDE DEF f, g, n
      <3>5. g[l] - f[l] = n
        BY <1>5, <3>2, <3>3, <3>4
      <3>6. SumOver(LoanSet, g) = SumOver(LoanSet, f) + (g[l] - f[l])
        BY <1>0, <1>1, <1>2, <3>1, SumChange
      <3> QED
        BY <3>5, <3>6
    <2>2. ASSUME n = 0, \A m \in LoanSet : row'[LoanAccount[m]].bal = row[LoanAccount[m]].bal
          PROVE  SumOver(LoanSet, g) = SumOver(LoanSet, f) + n
      <3>1. \A m \in LoanSet : f[m] = g[m]
        BY <2>2 DEF OwedMore
      <3> HIDE DEF f, g, n
      <3>2. SumOver(LoanSet, f) = SumOver(LoanSet, g)
        BY <1>0, <1>1, <3>1, SumSame
      <3> QED
        BY <1>7, <2>2, <3>2
    <2>5. ASSUME n = 0, NEW l \in LoanSet, NEW j \in LoanSet, Refinances(r, l, j)
          PROVE  SumOver(LoanSet, g) = SumOver(LoanSet, f) + n
      <3> DEFINE a == LoanAccount[l]  b == LoanAccount[j]
      <3>1. PICK x \in Nat : \A d \in {a, b} :
              row'[d].bal = row[d].bal + (IF d = a THEN x ELSE 0) - (IF d = b THEN x ELSE 0)
        BY <2>5 DEF Refinances
      <3>2. \A m \in LoanSet \ {l, j} : f[m] = g[m]
        BY <2>5 DEF Refinances, OwedMore
      <3>3. /\ f[l] = OpeningRow[a].bal - row[a].bal /\ g[l] = OpeningRow[a].bal - row'[a].bal
            /\ f[j] = OpeningRow[b].bal - row[b].bal /\ g[j] = OpeningRow[b].bal - row'[b].bal
        BY DEF OwedMore
      <3>4. /\ row[a].bal \in Int /\ OpeningRow[a].bal \in Int
            /\ row[b].bal \in Int /\ OpeningRow[b].bal \in Int
        BY LoanBalances
      <3>5. l # j => a # b
        BY LoanTypes
      <3>6. l # j => row'[a].bal = row[a].bal + x /\ row'[b].bal = row[b].bal - x
        BY <3>1, <3>4, <3>5
      <3>7. l = j => row'[a].bal = row[a].bal
        BY <3>1, <3>4
      <3> HIDE DEF f, g, n
      <3>8. CASE l = j
        <4>1. \A m \in LoanSet : f[m] = g[m]
          BY <3>2, <3>3, <3>7, <3>8
        <4>2. SumOver(LoanSet, f) = SumOver(LoanSet, g)
          BY <1>0, <1>1, <4>1, SumSame
        <4> QED
          BY <1>7, <2>5, <4>2
      <3>9. CASE l # j
        <4> DEFINE h == [m \in LoanSet |-> IF m = l THEN g[l] ELSE f[m]]
        <4>1. WholeOn(LoanSet, h) /\ h[l] = g[l] /\ h[j] = f[j]
          BY <1>1, <1>2, <3>9 DEF WholeOn
        <4>2. (\A m \in LoanSet \ {l} : f[m] = h[m]) /\ (\A m \in LoanSet \ {j} : h[m] = g[m])
          BY <3>2, <4>1
        <4> HIDE DEF h
        <4>3. SumOver(LoanSet, h) = SumOver(LoanSet, f) + (h[l] - f[l])
          BY <1>0, <1>1, <4>1, <4>2, SumChange
        <4>4. SumOver(LoanSet, g) = SumOver(LoanSet, h) + (g[j] - h[j])
          BY <1>0, <1>2, <4>1, <4>2, SumChange
        <4>5. h[l] - f[l] = -x /\ g[j] - h[j] = x
          BY <3>3, <3>4, <3>6, <3>9, <4>1
        <4> QED
          BY <1>7, <2>5, <4>3, <4>4, <4>5
      <3> QED
        BY <3>8, <3>9
    <2> HIDE DEF f, g
    <2>3. CASE task[r] \notin LoanCalls
      BY <2>2, <2>3 DEF OnLoans, LoansStay
    <2>4. CASE task[r] \in LoanCalls
      <3> DEFINE l == LoanCall[task[r]].l
      <3>0. l \in LoanSet
        BY <2>4 DEF OnLoans
      <3>1. CASE Opens(r, l)
        <4>0. n = 0 \/ n = gl[r]
          OBVIOUS
        <4> HIDE DEF n
        <4>1. n = 0
          BY <3>1, <4>0 DEF Opens
        <4>2. \A m \in LoanSet : row'[LoanAccount[m]].bal = row[LoanAccount[m]].bal
          BY LoanBalances, <3>1 DEF Opens, Drifts
        <4> QED
          BY <2>2, <4>1, <4>2
      <3>2. CASE task[r] \notin PaidByLoans /\ Lends(r, l)
        BY <2>1, <2>4, <3>0, <3>2 DEF Lends
      <3>3. CASE task[r] \notin PaidByLoans /\ Accrues(r, l)
        BY <2>1, <2>4, <3>0, <3>3 DEF Accrues
      <3>4. ASSUME NEW k \in Nat, task[r] \notin PaidByLoans, Repays(r, l, k)
            PROVE  SumOver(LoanSet, g) = SumOver(LoanSet, f) + n
        <4>0. n = gl[r]
          BY <2>4, <3>4
        <4>3. gl[r] = -k
          BY <3>4 DEF Repays
        <4> HIDE DEF n
        <4>1. -n = k
          BY <4>0, <4>3
        <4>2. Drifts(l, -n)
          BY <3>4, <4>1 DEF Repays
        <4> QED
          BY <2>1, <3>0, <4>2
      <3>5. CASE /\ task[r] \in PaidByLoans /\ Payer(LoanCall[task[r]]) \in LoanSet
                 /\ Refinances(r, l, Payer(LoanCall[task[r]]))
        <4>1. n = 0
          BY <3>5
        <4> QED
          BY <2>5, <3>0, <3>5, <4>1
      <3> QED
        BY <2>4, <3>1, <3>2, <3>3, <3>4, <3>5 DEF OnLoans, PaidByLoans
    <2> QED
      BY <2>3, <2>4
  <1>9. SumOver(LoanSet, g) = SumOver(Requests, v)
    BY <1>0, <1>6, <1>8
  <1> QED
    BY <1>9 DEF ReceivableIsOwed, OwedSince, OwedMore, LoanTold, PostedFor, v

\* How often a loan was paid out or charged: not at all, or once.
LEMMA TimesOnce ==
    ASSUME OnceEach, NEW l \in LoanSet, NEW kind \in {"disburse", "accrue"}
    PROVE  /\ Times(kind, l) \in {0, 1}
           /\ Times(kind, l) = Cardinality(PostedOn(kind, l))
           /\ PostedOn(kind, l) = {} => Times(kind, l) = 0
  <1> DEFINE P == PostedOn(kind, l)
  <1>1. Times(kind, l) = Cardinality(P)
    BY DEF Times, PostedOn
  <1>2. \A p, q \in P : p = q
    BY DEF OnceEach
  <1> HIDE DEF P
  <1>3. CASE P = {}
    BY <1>1, <1>3, FS_EmptySet DEF P
  <1>4. CASE P # {}
    <2>1. PICK p \in P : P = {p}
      BY <1>2, <1>4
    <2>2. Cardinality({p}) = 1
      BY FS_Singleton
    <2> QED
      BY <1>1, <1>4, <2>1, <2>2 DEF P
  <1> QED
    BY <1>3, <1>4

\* The properties hold at first.
LEMMA LoansSoundInit == ASSUME Init PROVE LoansSound
  <1>1. row = OpeningRow /\ doc = OpeningDoc /\ \A r \in Requests : outcome[r] = "idle"
    BY DEF Init
  <1>2. DebtFollows
    BY <1>1, LoanRows DEF DebtFollows
  <1>3. OnceEach /\ \A kind, l : PostedOn(kind, l) = {}
    BY <1>1 DEF OnceEach, PostedOn
  <1>4. \A l \in LoanSet : /\ OpeningRow[LoanAccount[l]].bal \in Int
                           /\ Principal[l] \in Nat /\ Interest[l] \in Nat
    <2>1. \A l \in LoanSet : LoanAccount[l] \in Accounts /\ Principal[l] \in Nat /\ Interest[l] \in Nat
      BY LoanTypes
    <2> QED
      BY <2>1, RowsAssumption DEF AccountRow
  <1>5. ReceivableIsOwed
    <2>1. (\A l \in LoanSet : OwedMore[l] = 0) /\ (\A r \in Requests : LoanTold[r] = 0)
      BY <1>1, <1>4 DEF OwedMore, LoanTold
    <2>2. SumOver(LoanSet, OwedMore) = 0 /\ SumOver(Requests, LoanTold) = 0
      BY <2>1, LoanRows, SumZero
    <2> QED
      BY <2>2 DEF ReceivableIsOwed, OwedSince, OwedMore, LoanTold, PostedFor
  <1>6. PayersOpen
    BY <1>1 DEF PayersOpen, Open
  <1> QED
    BY <1>2, <1>3, <1>5, <1>6 DEF LoansSound

\* Every step keeps them.
LEMMA LoansSoundNext ==
    ASSUME LoansApart, NEW H, \A t \in Tasks : H[t] = LoanEnd(t),
           StandsInv(OwedRows, H), TypeOK', LoansSound, [Next]_vars
    PROVE  LoansSound'
  <1>0. TypeOK /\ Unlocked
    BY DEF StandsInv
  <1>5. PayersOpen'
    <2>1. \A r \in Requests : Commit(r) => OnLoans(r)
      BY CommitOnLoans
    <2> QED
      BY <1>0, <2>1, PayersKept DEF LoansSound
  <1>1. ASSUME NEW r \in Requests, Commit(r) PROVE LoansSound'
    <2>1. OnLoans(r)
      BY <1>1, CommitOnLoans
    <2>2. OnceEach'
      BY <1>0, <1>1, <2>1, OnceEachKept DEF LoansSound
    <2> QED
      BY <1>0, <1>1, <1>5, <2>1, <2>2, DebtKept, ReceivableKept DEF LoansSound
  <1>2. CASE UNCHANGED << row, doc, journal >> /\ PostedStay
    <2>1. DebtFollows'
      BY <1>2 DEF LoansSound, DebtFollows
    <2>2. \A kind, l : PostedOn(kind, l)' = PostedOn(kind, l)
      BY <1>2 DEF PostedStay, PostedOn
    <2>3. OnceEach'
      BY <1>2, <2>2 DEF LoansSound, OnceEach
    <2>4. ReceivableIsOwed'
      <3>1. OwedMore' = OwedMore /\ LoanTold' = LoanTold
        BY <1>2 DEF OwedMore, LoanTold, PostedStay
      <3> QED
        BY <3>1 DEF LoansSound, ReceivableIsOwed, OwedSince, OwedMore, LoanTold, PostedFor
    <2> QED
      BY <1>5, <2>1, <2>3, <2>4 DEF LoansSound
  <1>3. (\E r \in Requests : Commit(r)) \/ UNCHANGED << row, doc, journal >>
    BY OnlyCommits
  <1>4. (\E r \in Requests : Commit(r)) \/ PostedStay
    BY <1>0, OnlyCommitsPost
  <1> QED
    BY <1>1, <1>2, <1>3, <1>4

\* The properties of the loans hold for any loans and any number of requests,
\* next to calls of other rails that keep off the loans, and whatever accounts
\* pay: those of loans, too.
THEOREM LoansAreSound == LoansApart => (Spec => []LoansSound)
  <1> SUFFICES ASSUME LoansApart PROVE Spec => []LoansSound
    OBVIOUS
  <1> DEFINE H == [t \in Tasks |-> LoanEnd(t)]
  <1>1. \A t \in Tasks : H[t] = LoanEnd(t) /\ EndsIn(OwedRows, t, H[t])
    BY LoansEnd
  <1>2. OwedRows \in SUBSET Rows
    BY LoanTypes
  <1> HIDE DEF H
  <1>3. /\ Init => StandsInv(OwedRows, H)
        /\ StandsInv(OwedRows, H) /\ [Next]_vars => StandsInv(OwedRows, H)'
    BY <1>1, <1>2, StandsInit, StandsNext
  <1>4. StandsInv(OwedRows, H)' => TypeOK'
    BY DEF StandsInv
  <1>5. StandsInv(OwedRows, H) /\ LoansSound /\ [Next]_vars => LoansSound'
    BY <1>1, <1>3, <1>4, LoansSoundNext
  <1> QED
    BY <1>3, <1>5, LoansSoundInit, PTL DEF Spec

\* Whichever of a disbursement, a repayment and the day's interest comes first, a
\* loan is active just while money is owed on it; it is paid out once and charged
\* once for the day: each decides under the lock of the loan's account, and a
\* payment by a loan's account looks at that loan again under the lock of it.
THEOREM StatusTellsDebtAlways == LoansApart => (Spec => []StatusTellsDebt)
  <1>1. LoansSound => StatusTellsDebt
    <2> SUFFICES ASSUME LoansSound PROVE StatusTellsDebt
      OBVIOUS
    <2>1. \A l \in LoanSet : Times("disburse", l) <= 1 /\ Times("accrue", l) <= 1
      <3>1. \A l \in LoanSet : Times("disburse", l) \in {0, 1} /\ Times("accrue", l) \in {0, 1}
        BY TimesOnce DEF LoansSound
      <3> QED
        BY <3>1
    <2> QED
      BY <2>1 DEF LoansSound, DebtFollows, StatusTellsDebt
  <1> QED
    BY <1>1, LoansAreSound, PTL

\* What the customers owe is what the core's Receivable was told, and more than
\* that by just what the core was told of the payments by loans' accounts.
THEOREM ReceivableIsOwedAlways == LoansApart => (Spec => []ReceivableIsOwed)
  <1>1. LoansSound => ReceivableIsOwed
    BY DEF LoansSound
  <1> QED
    BY <1>1, LoansAreSound, PTL

-----------------------------------------------------------------------------
(* The wires and their recalls, whatever calls there are. *)
WireDocs == Wires \cup Recalls
WClr == LynxRail.clearing
WStl == LynxRail.settlement

\* The types of what the scripts name.
LEMMA WireTypes ==
    /\ WireDocs \in SUBSET Docs /\ WireDocs \in SUBSET Rows
    /\ WClr \in Accounts /\ WStl \in Accounts /\ WClr # WStl
    /\ NoEntries \in [Accounts -> Int] /\ NoEntries[WClr] = 0 /\ NoEntries[WStl] = 0
    /\ Outbound \subseteq Wires /\ Inbound \subseteq Wires /\ OutboundRecalls \subseteq Recalls
    /\ Wires \subseteq WireDocs /\ Recalls \subseteq WireDocs
    /\ Outbound \cap Inbound = {} /\ Wires \cap Recalls = {}
    /\ \A w \in Wires : /\ WireAccount[w] \in Accounts \ {WClr, WStl}
                        /\ WireAmt[w] \in Int
    /\ \A k \in Recalls : WireOf[k] \in Wires /\ RecallAmt[k] = WireAmt[WireOf[k]]
    /\ \A k \in OutboundRecalls : WireOf[k] \in Outbound
    /\ \A w \in Outbound : OpenRecall[w] \notin WireDocs
  <1>1. WClr \in Accounts /\ WStl \in Accounts
    BY LynxAssumption DEF Rail, WClr, WStl
  <1>2. NoEntries \in [Accounts -> Int] /\ NoEntries[WClr] = 0 /\ NoEntries[WStl] = 0
    BY <1>1 DEF NoEntries
  <1>3. \A k \in Recalls : WireOf[k] \in Wires /\ RecallAmt[k] = WireAmt[WireOf[k]]
    BY LynxAssumption DEF RecallAmt
  <1>4. WireDocs \in SUBSET Docs /\ WireDocs \in SUBSET Rows
    BY LynxAssumption DEF WireDocs, Rows
  <1>5. \A w \in Wires : WireAccount[w] \in Accounts \ {WClr, WStl} /\ WireAmt[w] \in Int
    <2>1. \A w \in Wires : WireAccount[w] \in Accounts /\ WireAmt[w] \in Nat
      BY LynxAssumption
    <2>2. \A w \in Wires : WireAccount[w] \notin {WClr, WStl}
      BY WireRows DEF WClr, WStl
    <2> QED
      BY <2>1, <2>2
  <1>6. WClr # WStl /\ Wires \cap Recalls = {} /\ \A w \in Outbound : OpenRecall[w] \notin WireDocs
    BY WireRows DEF WClr, WStl, WireDocs
  <1> QED
    BY <1>1, <1>2, <1>3, <1>4, <1>5, <1>6, LynxAssumption DEF WireDocs, Wires, OutboundRecalls

\* The statuses are strings, and none of them is Absent.
LEMMA WireStatuses ==
    /\ \A v \in {"sent", "settled", "rejected", "recalled", "requested", "accepted"} :
          v \in STRING /\ v # Absent
    /\ Absent \in STRING
  BY WireRows, RowsAssumption

\* The entries of a movement on the rail's accounts.
LEMMA MovingOnRail ==
    ASSUME NEW a \in Accounts \ {WClr, WStl}, NEW n \in Int
    PROVE  /\ Moving(a, WClr, n) \in [Accounts -> Int] /\ Moving(WClr, a, n) \in [Accounts -> Int]
           /\ Moving(a, WStl, n) \in [Accounts -> Int] /\ Moving(WStl, a, n) \in [Accounts -> Int]
           /\ Moving(WClr, WStl, n) \in [Accounts -> Int]
           /\ Moving(a, WClr, n)[WClr] = n /\ Moving(a, WClr, n)[WStl] = 0
           /\ Moving(WClr, a, n)[WClr] = -n /\ Moving(WClr, a, n)[WStl] = 0
           /\ Moving(a, WStl, n)[WClr] = 0 /\ Moving(a, WStl, n)[WStl] = n
           /\ Moving(WStl, a, n)[WClr] = 0 /\ Moving(WStl, a, n)[WStl] = -n
           /\ Moving(WClr, WStl, n)[WClr] = -n /\ Moving(WClr, WStl, n)[WStl] = n
  <1>1. WClr \in Accounts /\ WStl \in Accounts /\ WClr # WStl /\ NoEntries \in [Accounts -> Int]
    BY WireTypes
  <1>2. \A x, y : Moving(x, y, n) \in [Accounts -> Int]
    BY <1>1, ShiftedType DEF Moving
  <1>3. \A x, y, b \in Accounts :
          Moving(x, y, n)[b] = (IF b = y THEN n ELSE 0) - (IF b = x THEN n ELSE 0)
    BY DEF Moving, Shifted, NoEntries
  <1>4. a \in Accounts /\ a # WClr /\ a # WStl
    OBVIOUS
  <1> QED
    BY <1>1, <1>2, <1>3, <1>4

\* The standings with these rows locked, with these entries on the rail's two
\* accounts, and the core told of the network's.
Wired(D, b, s) ==
    {l \in Standing(WireDocs) : l.own = D /\ l.posts[WClr] = b /\ l.posts[WStl] = s /\ l.told + s = 0}
Went(d, v, w) == {l \in Standing(WireDocs) : l.was[d] = v /\ l.now[d] = w}
Stays(k, p, g) == Stood(WireDocs, k, p, g)
Begun == Stays(Clean(WireDocs), NoEntries, 0)

\* A docket, and what its standings have in common.
LEMMA StaysWired ==
    ASSUME NEW k, NEW p, NEW s, p[WStl] = s, NEW g, g + s = 0
    PROVE  /\ Stays(k, p, g) \subseteq Wired(k.own, p[WClr], s)
           /\ \A d : Stays(k, p, g) \subseteq Went(d, k.was[d], k.now[d])
  BY DEF Stays, Stood, Wired, Went

\* One row marked, of those in view.
LEMMA OneMarked ==
    ASSUME NEW d \in WireDocs, NEW v \in STRING, NEW u \in STRING
    PROVE  LET k == Marked(Clean(WireDocs), d, v, u) IN
           k \in Docket(WireDocs) /\ k.own = {d} /\ k.was[d] = v /\ k.now[d] = u
  <1>1. Clean(WireDocs) \in Docket(WireDocs) /\ Clean(WireDocs).own = {}
    BY CleanType DEF Clean
  <1> QED
    BY <1>1, MarkedAt

\* Two of them, or one of them twice.
LEMMA TwoMarked ==
    ASSUME NEW d \in WireDocs, NEW v \in STRING, NEW u \in STRING,
           NEW e \in WireDocs, NEW x \in STRING, NEW y \in STRING
    PROVE  LET k == Marked(Marked(Clean(WireDocs), d, v, u), e, x, y) IN
           /\ k \in Docket(WireDocs) /\ k.own = {d, e} /\ k.was[d] = v /\ k.now[e] = y
           /\ d # e => k.now[d] = u /\ k.was[e] = x
  <1>1. PICK m : m = Marked(Clean(WireDocs), d, v, u)
    OBVIOUS
  <1>0. /\ d \in WireDocs /\ v \in STRING /\ u \in STRING
        /\ e \in WireDocs /\ x \in STRING /\ y \in STRING
    OBVIOUS
  <1>2. m.own = {d} /\ m.was[d] = v /\ m.now[d] = u
    BY <1>0, <1>1, OneMarked
  <1>7. m \in Docket(WireDocs)
    BY <1>0, <1>1, OneMarked
  <1> DEFINE k == Marked(m, e, x, y)
  <1>8. m.was \in [WireDocs -> STRING] /\ m.now \in [WireDocs -> STRING]
    BY <1>7 DEF Docket
  <1>3. k \in Docket(WireDocs)
    BY <1>0, <1>7, MarkedType
  <1>4. /\ k.own = m.own \cup {e} /\ k.now[e] = y
        /\ k.was[e] = IF e \in m.own THEN m.was[e] ELSE x
    BY <1>0, <1>8 DEF Marked
  <1>5. d # e => k.was[d] = m.was[d] /\ k.now[d] = m.now[d]
    <2>1. \A c \in WireDocs \ {e} : k.was[c] = m.was[c] /\ k.now[c] = m.now[c]
      BY <1>0, <1>7, MarkedAt
    <2> HIDE DEF k
    <2> QED
      BY <1>0, <2>1
  <1> HIDE DEF k
  <1>6. /\ k \in Docket(WireDocs) /\ k.own = {d, e} /\ k.was[d] = v /\ k.now[e] = y
        /\ d # e => k.now[d] = u /\ k.was[e] = x
    BY <1>2, <1>3, <1>4, <1>5
  <1> QED
    BY <1>1, <1>6 DEF k

\* A verb of the rail, the first that moves money.
LEMMA VerbLeads ==
    ASSUME NEW k, NEW x \in Accounts, NEW y \in Accounts, NEW n \in Int, NEW g \in Int
    PROVE  Leads(WireDocs, TwoLegs(x, y, n) \o Core(g), Stays(k, NoEntries, 0),
                 Stays(k, Moving(x, y, n), g))
  <1>1. WireDocs \in SUBSET Docs /\ NoEntries \in [Accounts -> Int] /\ 0 \in Int /\ 0 + g = g
    BY WireTypes
  <1>2. Leads(WireDocs, TwoLegs(x, y, n) \o Core(g), Stood(WireDocs, k, NoEntries, 0),
              Stood(WireDocs, k, Shifted(NoEntries, x, y, n), 0 + g))
    BY <1>1, MovesLeads
  <1> QED
    BY <1>1, <1>2 DEF Stays, Moving

\* What leads to an end, and then commits.
LEMMA CommitLeads ==
    ASSUME NEW s, NEW F, NEW G, NEW H, Leads(WireDocs, s, F, G), G \subseteq H,
           H \in SUBSET Standing(WireDocs)
    PROVE  Leads(WireDocs, s \o Completed, F, H)
  <1>1. Leads(WireDocs, s, F, H)
    BY LeadsAlso
  <1>2. Leads(WireDocs, Completed, H, H)
    BY WireTypes, CompletedLeads
  <1> QED
    BY <1>1, <1>2, LeadsOn

\* What a call may commit.
SentEnd(w) == Wired({w}, WireAmt[w], 0) \cap Went(w, Absent, "sent")
SettledEnd(w) == Wired({w}, -WireAmt[w], WireAmt[w]) \cap Went(w, "sent", "settled")
RejectedEnd(w) == Wired({w}, -WireAmt[w], 0) \cap Went(w, "sent", "rejected")
ReceivedEnd(w) == Wired({w}, 0, -WireAmt[w]) \cap Went(w, Absent, "settled")
AskedEnd(k) == Wired({k}, 0, 0) \cap Went(k, Absent, "requested")
RefusedEnd(k) == Wired({k}, 0, 0) \cap Went(k, "requested", "rejected")
AcceptedEnd(k) ==
    Wired({k, WireOf[k]}, 0, -RecallAmt[k]) \cap Went(k, "requested", "accepted")
        \cap {l \in Standing(WireDocs) : l.now[WireOf[k]] = "recalled"}
KeptEnd(w, k) == Wired({w, k}, 0, 0) \cap Went(w, "settled", "settled")
HonouredEnd(w, k) ==
    KeptEnd(w, k) \cup (Wired({w, k}, 0, WireAmt[w]) \cap Went(w, "settled", "recalled"))

\* initiate_wire.
LEMMA InitiateLeads ==
    ASSUME NEW c, c.w \in Outbound
    PROVE  Leads(WireDocs, Initiate(c), Begun, SentEnd(c.w))
  <1> DEFINE w == c.w  a == WireAccount[w]  n == WireAmt[w]
             k == Marked(Clean(WireDocs), w, Absent, "sent")  p == Moving(a, WClr, n)
             G == Stays(Clean(WireDocs), p, 0)  I == Stays(k, p, 0)
  <1>0. /\ WireDocs \in SUBSET Docs /\ w \in WireDocs /\ a \in Accounts \ {WClr, WStl} /\ n \in Int
        /\ WClr \in Accounts /\ Absent \in STRING /\ "sent" \in STRING
    BY WireTypes, WireStatuses
  <1>1. k.own = {w} /\ k.was[w] = Absent /\ k.now[w] = "sent"
    BY <1>0, OneMarked
  <1>2. Leads(WireDocs, << OnDoc("find", w, Blank, Blank) >>, Begun, Begun)
    BY <1>0, BesideLeads DEF Begun, Stays, DocOps
  <1>3. Leads(WireDocs, Funded(a, n), Begun, Begun)
    BY <1>0, FundedLeads DEF Begun, Stays
  <1>4. Leads(WireDocs, HoldFor(LynxRail, a, n, 0), Begun, G)
    BY <1>0, 0 \in Int, VerbLeads DEF HoldFor, Begun, WClr
  <1>5. Leads(WireDocs, Refreshed(a), G, G)
    BY <1>0, RefreshedLeads DEF Stays
  <1>6. Leads(WireDocs, << OnDoc("insert", w, Absent, "sent") >>, G, I)
    <2>1. Clean(WireDocs) \in Docket(WireDocs) /\ w \notin Clean(WireDocs).own
      BY CleanType DEF Clean
    <2>2. \A q : Leads(WireDocs, << OnDoc("insert", w, Absent, "sent") >>,
                      Stood(WireDocs, Clean(WireDocs), q, 0), Stood(WireDocs, k, q, 0))
      BY <1>0, <2>1, MarkLeads
    <2> HIDE DEF k, p
    <2> QED
      BY <2>2 DEF Stays
  <1>7. I \subseteq SentEnd(w) /\ SentEnd(w) \in SUBSET Standing(WireDocs)
    <2>1. p[WClr] = n /\ p[WStl] = 0
      BY <1>0, MovingOnRail, ZenonT(40)
    <2>2. 0 + 0 = 0
      OBVIOUS
    <2> HIDE DEF k, p
    <2> QED
      <3>1. I \subseteq Wired({w}, n, 0)
        <4>1. Stays(k, p, 0) \subseteq Wired(k.own, p[WClr], 0)
          BY <2>1, <2>2, StaysWired
        <4> QED
          BY <1>1, <2>1, <4>1
      <3>2. I \subseteq Went(w, k.was[w], k.now[w])
        BY <2>1, <2>2, StaysWired
      <3> QED
        BY <1>1, <3>1, <3>2 DEF SentEnd, Wired
  <1> DEFINE s1 == << OnDoc("find", w, Blank, Blank) >> \o Funded(a, n)
             s2 == s1 \o HoldFor(LynxRail, a, n, 0)  s3 == s2 \o Refreshed(a)
             s4 == s3 \o << OnDoc("insert", w, Absent, "sent") >>
  <1> HIDE DEF G, I
  <1>8. Leads(WireDocs, s1, Begun, Begun)
    BY <1>2, <1>3, LeadsOn
  <1> HIDE DEF s1
  <1>9. Leads(WireDocs, s2, Begun, G)
    BY <1>4, <1>8, LeadsOn
  <1> HIDE DEF s2
  <1>10. Leads(WireDocs, s3, Begun, G)
    BY <1>5, <1>9, LeadsOn
  <1> HIDE DEF s3
  <1>11. Leads(WireDocs, s4, Begun, I)
    BY <1>6, <1>10, LeadsOn
  <1> HIDE DEF s4
  <1>12. Leads(WireDocs, s4 \o Completed, Begun, SentEnd(w))
    BY <1>7, <1>11, CommitLeads
  <1> QED
    BY <1>12 DEF Initiate, s1, s2, s3, s4

\* network_settle.
LEMMA SettleWireLeads ==
    ASSUME NEW c, c.w \in Outbound
    PROVE  Leads(WireDocs, SettleWire(c), Begun, SettledEnd(c.w))
  <1> DEFINE w == c.w  n == WireAmt[w]
             k == Marked(Clean(WireDocs), w, "sent", "settled")  p == Moving(WClr, WStl, n)
             G == Stays(k, NoEntries, 0)  I == Stays(k, p, -n)
  <1>0. /\ WireDocs \in SUBSET Docs /\ w \in WireDocs /\ n \in Int /\ -n \in Int
        /\ WireAccount[w] \in Accounts \ {WClr, WStl}
        /\ WClr \in Accounts /\ WStl \in Accounts /\ "settled" \in STRING /\ "sent" \in STRING
    BY WireTypes, WireStatuses
  <1>1. k.own = {w} /\ k.was[w] = "sent" /\ k.now[w] = "settled"
    BY <1>0, OneMarked
  <1>2. Leads(WireDocs, << OnDoc("mark", w, "sent", "settled") >>, Begun, G)
    <2>1. Clean(WireDocs) \in Docket(WireDocs) /\ w \notin Clean(WireDocs).own
      BY CleanType DEF Clean
    <2> QED
      BY <1>0, <2>1, MarkLeads DEF Stays, Begun
  <1>3. Leads(WireDocs, ReleaseTo(LynxRail, LynxRail.settlement, n, -n), G, I)
    BY <1>0, VerbLeads DEF ReleaseTo, WClr, WStl
  <1>4. I \subseteq SettledEnd(w) /\ SettledEnd(w) \in SUBSET Standing(WireDocs)
    <2>1. p[WClr] = -n /\ p[WStl] = n
      BY <1>0, MovingOnRail
    <2>2. -n + n = 0
      BY <1>0
    <2> HIDE DEF k, p
    <2> QED
      <3>1. I \subseteq Wired({w}, -n, n)
        <4>1. Stays(k, p, -n) \subseteq Wired(k.own, p[WClr], n)
          BY <2>1, <2>2, StaysWired
        <4> QED
          BY <1>1, <2>1, <4>1
      <3>2. I \subseteq Went(w, k.was[w], k.now[w])
        BY <2>1, <2>2, StaysWired
      <3> QED
        BY <1>1, <3>1, <3>2 DEF SettledEnd, Wired
  <1> DEFINE s == << OnDoc("mark", w, "sent", "settled") >>
                     \o ReleaseTo(LynxRail, LynxRail.settlement, n, -n)
  <1> HIDE DEF G, I
  <1>5. Leads(WireDocs, s, Begun, I)
    BY <1>2, <1>3, LeadsOn
  <1> HIDE DEF s
  <1>6. Leads(WireDocs, s \o Completed, Begun, SettledEnd(w))
    BY <1>4, <1>5, CommitLeads
  <1> QED
    BY <1>6 DEF SettleWire, s

\* network_inbound.
LEMMA InboundWireLeads ==
    ASSUME NEW c, c.w \in Inbound
    PROVE  Leads(WireDocs, InboundWire(c), Begun, ReceivedEnd(c.w))
  <1> DEFINE w == c.w  a == WireAccount[w]  n == WireAmt[w]
             k == Marked(Clean(WireDocs), w, Absent, "settled")  p == Moving(WStl, a, n)
             G == Stays(Clean(WireDocs), p, n)  I == Stays(k, p, n)
  <1>0. /\ WireDocs \in SUBSET Docs /\ w \in WireDocs /\ a \in Accounts \ {WClr, WStl} /\ n \in Int
        /\ WStl \in Accounts /\ Absent \in STRING /\ "settled" \in STRING
    BY WireTypes, WireStatuses
  <1>1. k.own = {w} /\ k.was[w] = Absent /\ k.now[w] = "settled"
    BY <1>0, OneMarked
  <1>2. Leads(WireDocs, AcceptInbound(LynxRail, a, n, n), Begun, G)
    BY <1>0, VerbLeads DEF AcceptInbound, Begun, WStl
  <1>3. Leads(WireDocs, Refreshed(a), G, G)
    BY <1>0, RefreshedLeads DEF Stays
  <1>4. Leads(WireDocs, << OnDoc("insert", w, Absent, "settled") >>, G, I)
    <2>1. Clean(WireDocs) \in Docket(WireDocs) /\ w \notin Clean(WireDocs).own
      BY CleanType DEF Clean
    <2> QED
      BY <1>0, <2>1, MarkLeads DEF Stays
  <1>5. I \subseteq ReceivedEnd(w) /\ ReceivedEnd(w) \in SUBSET Standing(WireDocs)
    <2>1. p[WClr] = 0 /\ p[WStl] = -n
      <3>1. p[WClr] = 0
        <4>1. a \in Accounts \ {WClr, WStl} /\ n \in Int
          BY <1>0
        <4> HIDE DEF a, n
        <4> QED
          BY <4>1, MovingOnRail
      <3>2. p[WStl] = -n
        <4>1. a \in Accounts \ {WClr, WStl} /\ n \in Int
          BY <1>0
        <4> HIDE DEF a, n
        <4> QED
          BY <4>1, MovingOnRail
      <3> QED
        BY <3>1, <3>2
    <2>2. n + (-n) = 0
      BY <1>0
    <2> HIDE DEF k, p
    <2> QED
      <3>1. I \subseteq Wired({w}, 0, -n)
        <4>1. Stays(k, p, n) \subseteq Wired(k.own, p[WClr], -n)
          BY <2>1, <2>2, StaysWired
        <4> QED
          BY <1>1, <2>1, <4>1
      <3>2. I \subseteq Went(w, k.was[w], k.now[w])
        BY <2>1, <2>2, StaysWired
      <3> QED
        BY <1>1, <3>1, <3>2 DEF ReceivedEnd, Wired
  <1> DEFINE s1 == AcceptInbound(LynxRail, a, n, n) \o Refreshed(a)
             s2 == s1 \o << OnDoc("insert", w, Absent, "settled") >>
  <1> HIDE DEF G, I
  <1>6. Leads(WireDocs, s1, Begun, G)
    BY <1>2, <1>3, LeadsOn
  <1> HIDE DEF s1
  <1>7. Leads(WireDocs, s2, Begun, I)
    BY <1>4, <1>6, LeadsOn
  <1> HIDE DEF s2
  <1>8. Leads(WireDocs, s2 \o Completed, Begun, ReceivedEnd(w))
    BY <1>5, <1>7, CommitLeads
  <1> QED
    BY <1>8 DEF InboundWire, s1, s2

\* A row of another table, and the first row of these that a call marks.
LEMMA WireBeside ==
    ASSUME NEW k, NEW p, NEW g, NEW op \in DocOps, NEW x, NEW v, NEW w,
           x \notin WireDocs \/ op \in {"find", "expect"}
    PROVE  Leads(WireDocs, << OnDoc(op, x, v, w) >>, Stays(k, p, g), Stays(k, p, g))
  BY WireTypes, BesideLeads DEF Stays

\* The first change of one of them, which takes its lock.
LEMMA WireMarks ==
    ASSUME NEW d \in WireDocs, NEW v, NEW u, NEW op \in {"insert", "mark"}, NEW p, NEW g
    PROVE  Leads(WireDocs, << OnDoc(op, d, v, u) >>, Stays(Clean(WireDocs), p, g),
                 Stays(Marked(Clean(WireDocs), d, v, u), p, g))
  <1>1. Clean(WireDocs) \in Docket(WireDocs) /\ d \notin Clean(WireDocs).own
    BY CleanType DEF Clean
  <1> QED
    BY <1>1, WireTypes, MarkLeads DEF Stays

\* request_recall.
LEMMA RequestRecallLeads ==
    ASSUME NEW c, c.w \in Outbound, c.k \in Recalls
    PROVE  Leads(WireDocs, RequestRecall(c), Begun, AskedEnd(c.k))
  <1> DEFINE w == c.w  d == c.k  x == OpenRecall[w]
             k == Marked(Clean(WireDocs), d, Absent, "requested")
             I == Stays(k, NoEntries, 0)
             s1 == << OnDoc("expect", w, "settled", Blank) >>
             s2 == << OnDoc("expect", x, Absent, Blank) >>
             s3 == << OnDoc("insert", x, Absent, "requested") >>
             s4 == << OnDoc("insert", d, Absent, "requested") >>
  <1>0. d \in WireDocs /\ x \notin WireDocs /\ Absent \in STRING /\ "requested" \in STRING
    BY WireTypes, WireStatuses
  <1>1. k.own = {d} /\ k.was[d] = Absent /\ k.now[d] = "requested"
    BY <1>0, OneMarked
  <1>2. Leads(WireDocs, s1, Begun, Begun)
    BY WireBeside DEF Begun, DocOps
  <1>3. Leads(WireDocs, s2, Begun, Begun)
    BY WireBeside DEF Begun, DocOps
  <1>4. Leads(WireDocs, s3, Begun, Begun)
    BY <1>0, WireBeside DEF Begun, DocOps, DocWrites
  <1>5. Leads(WireDocs, s4, Begun, I)
    BY <1>0, WireMarks DEF Begun
  <1>6. I \subseteq AskedEnd(d) /\ AskedEnd(d) \in SUBSET Standing(WireDocs)
    <2>1. NoEntries[WClr] = 0 /\ NoEntries[WStl] = 0 /\ 0 + 0 = 0
      BY WireTypes
    <2> HIDE DEF k
    <2>2. I \subseteq Wired({d}, 0, 0)
      BY <1>1, <2>1, StaysWired
    <2>3. I \subseteq Went(d, k.was[d], k.now[d])
      BY <2>1, StaysWired
    <2> QED
      BY <1>1, <2>2, <2>3 DEF AskedEnd, Wired
  <1>7. RequestRecall(c) = ((s1 \o s2) \o (s3 \o s4)) \o Completed
    BY FourOnes DEF RequestRecall
  <1> HIDE DEF I, s1, s2, s3, s4
  <1>8. Leads(WireDocs, s1 \o s2, Begun, Begun)
    BY <1>2, <1>3, LeadsOn
  <1>9. Leads(WireDocs, s3 \o s4, Begun, I)
    BY <1>4, <1>5, LeadsOn
  <1>10. Leads(WireDocs, (s1 \o s2) \o (s3 \o s4), Begun, I)
    BY <1>8, <1>9, LeadsOn
  <1>11. Leads(WireDocs, ((s1 \o s2) \o (s3 \o s4)) \o Completed, Begun, AskedEnd(d))
    BY <1>6, <1>10, CommitLeads
  <1> QED
    BY <1>7, <1>11

\* network_recall_resolve, as far as the recall goes.
LEMMA ResolvedLeads ==
    ASSUME NEW d \in OutboundRecalls, NEW u
    PROVE  Leads(WireDocs, Resolve(d, u), Begun,
                 Stays(Marked(Clean(WireDocs), d, "requested", u), NoEntries, 0))
  <1> DEFINE x == OpenRecall[WireOf[d]]  I == Stays(Marked(Clean(WireDocs), d, "requested", u), NoEntries, 0)
             s1 == << OnDoc("mark", d, "requested", u) >>
             s2 == << OnDoc("set", x, Blank, Absent) >>
  <1>0. d \in WireDocs /\ x \notin WireDocs
    BY WireTypes
  <1>1. Leads(WireDocs, s1, Begun, I)
    BY <1>0, WireMarks DEF Begun
  <1>2. Leads(WireDocs, s2, I, I)
    BY <1>0, WireBeside DEF DocOps, DocWrites
  <1>3. Resolve(d, u) = s1 \o s2
    BY TwoOnes DEF Resolve
  <1> HIDE DEF I, s1, s2
  <1>4. Leads(WireDocs, s1 \o s2, Begun, I)
    BY <1>1, <1>2, LeadsOn
  <1> QED
    BY <1>3, <1>4 DEF I

\* A recall the network refuses.
LEMMA RecallRejectedLeads ==
    ASSUME NEW c, c.k \in OutboundRecalls
    PROVE  Leads(WireDocs, RecallRejected(c), Begun, RefusedEnd(c.k))
  <1> DEFINE d == c.k  k == Marked(Clean(WireDocs), d, "requested", "rejected")
             I == Stays(k, NoEntries, 0)
  <1>0. d \in WireDocs /\ "rejected" \in STRING /\ "requested" \in STRING
    BY WireTypes, WireStatuses
  <1>1. k.own = {d} /\ k.was[d] = "requested" /\ k.now[d] = "rejected"
    BY <1>0, OneMarked
  <1>2. Leads(WireDocs, Resolve(d, "rejected"), Begun, I)
    BY ResolvedLeads
  <1>3. I \subseteq RefusedEnd(d) /\ RefusedEnd(d) \in SUBSET Standing(WireDocs)
    <2>1. NoEntries[WClr] = 0 /\ NoEntries[WStl] = 0 /\ 0 + 0 = 0
      BY WireTypes
    <2> HIDE DEF k
    <2>2. I \subseteq Wired({d}, 0, 0)
      BY <1>1, <2>1, StaysWired
    <2>3. I \subseteq Went(d, k.was[d], k.now[d])
      BY <2>1, StaysWired
    <2> QED
      BY <1>1, <2>2, <2>3 DEF RefusedEnd, Wired
  <1> HIDE DEF I
  <1> QED
    BY <1>2, <1>3, CommitLeads DEF RecallRejected
\* A recall the network accepts: the wire is recalled whatever its status was.
LEMMA RecallAcceptedLeads ==
    ASSUME NEW c, c.k \in OutboundRecalls
    PROVE  Leads(WireDocs, RecallAccepted(c), Begun, AcceptedEnd(c.k))
  <1> DEFINE d == c.k  w == WireOf[d]  a == WireAccount[w]  n == WireAmt[w]
             k == Marked(Clean(WireDocs), d, "requested", "accepted")  p == Moving(WStl, a, n)
             F == Stays(k, NoEntries, 0)  G == Stays(k, p, n)
             I == UNION {Stays(Marked(k, w, v, "recalled"), p, n) : v \in STRING}
  <1>0. /\ WireDocs \in SUBSET Docs /\ d \in WireDocs /\ w \in WireDocs /\ d # w
        /\ a \in Accounts \ {WClr, WStl} /\ n \in Int /\ WStl \in Accounts
        /\ RecallAmt[d] = n
        /\ "requested" \in STRING /\ "accepted" \in STRING /\ "recalled" \in STRING
    BY WireTypes, WireStatuses
  <1>1. k \in Docket(WireDocs) /\ k.own = {d}
    BY <1>0, OneMarked
  <1>2. Leads(WireDocs, Resolve(d, "accepted"), Begun, F)
    BY ResolvedLeads
  <1>3. Leads(WireDocs, AcceptInbound(LynxRail, a, n, n), F, G)
    BY <1>0, VerbLeads DEF AcceptInbound, WStl
  <1>4. Leads(WireDocs, Refreshed(a), G, G)
    BY <1>0, RefreshedLeads DEF Stays
  <1>5. Leads(WireDocs, << OnDoc("set", w, Blank, "recalled") >>, G, I)
    <2>1. w \in WireDocs \ k.own
      BY <1>0, <1>1
    <2> HIDE DEF k, w, p
    <2> QED
      BY <1>0, <1>1, <2>1, OverwriteLeads DEF Stays
  <1>6. I \subseteq AcceptedEnd(d) /\ AcceptedEnd(d) \in SUBSET Standing(WireDocs)
    <2>1. p[WClr] = 0 /\ p[WStl] = -n
      <3>1. p[WClr] = 0
        <4>1. a \in Accounts \ {WClr, WStl} /\ n \in Int
          BY <1>0
        <4> HIDE DEF a, n
        <4> QED
          BY <4>1, MovingOnRail
      <3>2. p[WStl] = -n
        <4>1. a \in Accounts \ {WClr, WStl} /\ n \in Int
          BY <1>0
        <4> HIDE DEF a, n
        <4> QED
          BY <4>1, MovingOnRail
      <3> QED
        BY <3>1, <3>2
    <2>2. n + (-n) = 0
      BY <1>0
    <2>3. ASSUME NEW v \in STRING
          PROVE  Stays(Marked(k, w, v, "recalled"), p, n) \subseteq AcceptedEnd(d)
      <3> DEFINE m == Marked(k, w, v, "recalled")  S == Stays(m, p, n)
      <3>1. m.own = {d, w} /\ m.was[d] = "requested" /\ m.now[w] = "recalled" /\ m.now[d] = "accepted"
        <4> HIDE DEF w, d
        <4>1. /\ d \in WireDocs /\ "requested" \in STRING /\ "accepted" \in STRING
              /\ w \in WireDocs /\ v \in STRING /\ "recalled" \in STRING /\ d # w
          BY <1>0, <2>3
        <4>2. m.own = {d, w}
          <5>1. m.own = k.own \cup {w}
            BY DEF Marked
          <5> HIDE DEF m, k
          <5> QED
            BY <1>1, <5>1
        <4>3. m.was[d] = "requested"
          BY <4>1, TwoMarked
        <4>4. m.now[w] = "recalled"
          BY <4>1, TwoMarked
        <4>5. m.now[d] = "accepted"
          BY <4>1, TwoMarked
        <4> QED
          BY <4>2, <4>3, <4>4, <4>5
      <3> HIDE DEF m, p
      <3>2. S \subseteq Wired({d, w}, 0, -n)
        <4>1. S \subseteq Wired(m.own, p[WClr], -n)
          BY <2>1, <2>2, StaysWired
        <4> QED
          BY <2>1, <3>1, <4>1
      <3>3. S \subseteq Went(d, m.was[d], m.now[d]) /\ S \subseteq Went(w, m.was[w], m.now[w])
        BY <2>1, <2>2, StaysWired
      <3>4. \A l \in S : l.now[w] = "recalled" /\ l \in Standing(WireDocs)
        BY <3>1, <3>3 DEF Went
      <3>5. S \subseteq Went(d, "requested", "accepted")
        BY <3>1, <3>3
      <3>6. AcceptedEnd(d) = Wired({d, w}, 0, -n) \cap Went(d, "requested", "accepted")
                                \cap {l \in Standing(WireDocs) : l.now[w] = "recalled"}
        BY <1>0 DEF AcceptedEnd
      <3> HIDE DEF S, w, d, n
      <3>7. S \subseteq AcceptedEnd(d)
        BY <3>2, <3>4, <3>5, <3>6
      <3> QED
        BY <3>7 DEF S, m
    <2>4. AcceptedEnd(d) \in SUBSET Standing(WireDocs)
      BY DEF AcceptedEnd, Wired
    <2> HIDE DEF k, p, w, d
    <2> QED
      BY <2>3, <2>4
  <1> DEFINE s1 == Resolve(d, "accepted") \o AcceptInbound(LynxRail, a, n, n)
             s2 == s1 \o Refreshed(a)
             s3 == s2 \o << OnDoc("set", w, Blank, "recalled") >>
  <1> HIDE DEF F, G, I
  <1>7. Leads(WireDocs, s1, Begun, G)
    BY <1>2, <1>3, LeadsOn
  <1> HIDE DEF s1
  <1>8. Leads(WireDocs, s2, Begun, G)
    BY <1>4, <1>7, LeadsOn
  <1> HIDE DEF s2
  <1>9. Leads(WireDocs, s3, Begun, I)
    BY <1>5, <1>8, LeadsOn
  <1> HIDE DEF s3
  <1>10. Leads(WireDocs, s3 \o Completed, Begun, AcceptedEnd(d))
    BY <1>6, <1>9, CommitLeads
  <1> QED
    BY <1>10 DEF RecallAccepted, s1, s2, s3

\* A wire that brought money and a recall of it that is turned down.
LEMMA KeptLeads ==
    ASSUME NEW w \in Wires, NEW d \in Recalls
    PROVE  /\ Leads(WireDocs, << OnDoc("insert", d, Absent, "rejected") >>,
                    Stays(Marked(Clean(WireDocs), w, "settled", "settled"), NoEntries, 0),
                    KeptEnd(w, d))
           /\ KeptEnd(w, d) \in SUBSET Standing(WireDocs)
  <1> DEFINE k == Marked(Clean(WireDocs), w, "settled", "settled")
             m == Marked(k, d, Absent, "rejected")  I == Stays(m, NoEntries, 0)
             s == << OnDoc("insert", d, Absent, "rejected") >>
  <1>0. /\ WireDocs \in SUBSET Docs /\ d \in WireDocs /\ w \in WireDocs /\ w # d
        /\ Absent \in STRING /\ "settled" \in STRING /\ "rejected" \in STRING
    BY WireTypes, WireStatuses
  <1>1. k \in Docket(WireDocs) /\ k.own = {w}
    BY <1>0, OneMarked
  <1>2. m.own = {w, d} /\ m.was[w] = "settled" /\ m.now[w] = "settled"
    BY <1>0, TwoMarked, SMTT(30)
  <1>3. Leads(WireDocs, s, Stays(k, NoEntries, 0), I)
    <2>1. d \notin k.own
      BY <1>0, <1>1
    <2> HIDE DEF k
    <2> QED
      BY <1>0, <1>1, <2>1, MarkLeads DEF Stays
  <1>4. I \subseteq KeptEnd(w, d)
    <2>1. NoEntries[WClr] = 0 /\ NoEntries[WStl] = 0 /\ 0 + 0 = 0
      BY WireTypes
    <2> HIDE DEF m
    <2>2. I \subseteq Wired({w, d}, 0, 0)
      BY <1>2, <2>1, StaysWired
    <2>3. I \subseteq Went(w, m.was[w], m.now[w])
      BY <2>1, StaysWired
    <2> QED
      BY <1>2, <2>2, <2>3 DEF KeptEnd
  <1>5. KeptEnd(w, d) \in SUBSET Standing(WireDocs)
    BY DEF KeptEnd, Wired
  <1> HIDE DEF I, k, s
  <1>6. Leads(WireDocs, s, Stays(k, NoEntries, 0), KeptEnd(w, d))
    BY <1>3, <1>4, LeadsAlso
  <1> QED
    BY <1>5, <1>6 DEF k, s

\* network_inbound_recall, declined.
LEMMA DeclineRecallLeads ==
    ASSUME NEW c, c.w \in Inbound, c.k \in Recalls
    PROVE  Leads(WireDocs, DeclineRecall(c), Begun, KeptEnd(c.w, c.k))
  <1> DEFINE w == c.w  d == c.k
             G == Stays(Marked(Clean(WireDocs), w, "settled", "settled"), NoEntries, 0)
             s1 == << OnDoc("mark", w, "settled", "settled") >>
             s2 == << OnDoc("insert", d, Absent, "rejected") >>
  <1>0. w \in WireDocs /\ w \in Wires /\ d \in Recalls
    BY WireTypes
  <1>1. Leads(WireDocs, s1, Begun, G)
    BY <1>0, WireMarks DEF Begun
  <1>2. Leads(WireDocs, s2, G, KeptEnd(w, d)) /\ KeptEnd(w, d) \in SUBSET Standing(WireDocs)
    BY <1>0, KeptLeads
  <1>3. DeclineRecall(c) = (s1 \o s2) \o Completed
    BY TwoOnes DEF DeclineRecall
  <1> HIDE DEF G, s1, s2
  <1>4. Leads(WireDocs, s1 \o s2, Begun, KeptEnd(w, d))
    BY <1>1, <1>2, LeadsOn
  <1>5. Leads(WireDocs, (s1 \o s2) \o Completed, Begun, KeptEnd(w, d))
    BY <1>2, <1>4, CommitLeads
  <1> QED
    BY <1>3, <1>5
\* The network takes back what it brought.
LEMMA TakenBackLeads ==
    ASSUME NEW w \in Wires, NEW d \in Recalls
    PROVE  LET a == WireAccount[w]  n == WireAmt[w] IN
           Leads(WireDocs,
                 << Do("floor", a, 0) >> \o Clawback(a, n) \o Refreshed(a)
                     \o << OnDoc("set", w, Blank, "recalled"), OnDoc("insert", d, Absent, "accepted") >>,
                 Stays(Marked(Clean(WireDocs), w, "settled", "settled"), NoEntries, 0),
                 HonouredEnd(w, d))
  <1> DEFINE a == WireAccount[w]  n == WireAmt[w]  p == Moving(a, WStl, n)
             k == Marked(Clean(WireDocs), w, "settled", "settled")
             m == Marked(k, w, Blank, "recalled")  z == Marked(m, d, Absent, "accepted")
             F == Stays(k, NoEntries, 0)  G == Stays(k, p, -n)  H == Stays(m, p, -n)
             I == Stays(z, p, -n)
  <1>0. /\ WireDocs \in SUBSET Docs /\ d \in WireDocs /\ w \in WireDocs /\ w # d
        /\ a \in Accounts \ {WClr, WStl} /\ a \in Accounts /\ n \in Int /\ -n \in Int /\ WStl \in Accounts
        /\ Absent \in STRING /\ "settled" \in STRING /\ "accepted" \in STRING
        /\ "recalled" \in STRING
    BY WireTypes, WireStatuses
  <1>1. k \in Docket(WireDocs) /\ k.own = {w} /\ k.was[w] = "settled"
    BY <1>0, OneMarked
  <1>2. /\ m \in Docket(WireDocs) /\ m.own = {w}
        /\ m.was[w] = "settled" /\ m.now[w] = "recalled"
    <2> HIDE DEF k
    <2> QED
      BY <1>0, <1>1, MarkedAgain
  <1> HIDE DEF k
  <1>3. z.own = {w, d} /\ z.was[w] = "settled" /\ z.now[w] = "recalled"
    <2>1. m.was \in [WireDocs -> STRING] /\ m.now \in [WireDocs -> STRING]
      BY <1>2 DEF Docket
    <2> HIDE DEF m
    <2> QED
      BY <1>0, <1>2, <2>1 DEF Marked
  <1> HIDE DEF m
  <1> DEFINE s1 == << Do("floor", a, 0) >>  s2 == Clawback(a, n)
             s4 == << OnDoc("set", w, Blank, "recalled") >>
             s5 == << OnDoc("insert", d, Absent, "accepted") >>
  <1>4. Leads(WireDocs, s1, F, F)
    BY <1>0, WatchLeads DEF Stays
  <1>5. Leads(WireDocs, s2, F, G)
    BY <1>0, VerbLeads DEF Clawback, WStl
  <1>6. Leads(WireDocs, Refreshed(a), G, G)
    BY <1>0, RefreshedLeads DEF Stays
  <1>7. Leads(WireDocs, s4, G, H)
    <2>1. w \in k.own
      BY <1>1
    <2> HIDE DEF p
    <2> QED
      BY <1>0, <1>1, <2>1, SetLeads DEF Stays, m
  <1>8. Leads(WireDocs, s5, H, I)
    <2>1. d \notin m.own
      BY <1>0, <1>2
    <2> HIDE DEF p
    <2> QED
      BY <1>0, <1>2, <2>1, MarkLeads DEF Stays
  <1>9. I \subseteq HonouredEnd(w, d)
    <2>1. p[WClr] = 0 /\ p[WStl] = n
      <3>1. p[WClr] = 0
        <4>1. a \in Accounts \ {WClr, WStl} /\ n \in Int
          BY <1>0
        <4> HIDE DEF a, n
        <4> QED
          BY <4>1, MovingOnRail
      <3>2. p[WStl] = n
        <4>1. a \in Accounts \ {WClr, WStl} /\ n \in Int
          BY <1>0
        <4> HIDE DEF a, n
        <4> QED
          BY <4>1, MovingOnRail
      <3> QED
        BY <3>1, <3>2
    <2>2. -n + n = 0
      BY <1>0
    <2> HIDE DEF z, p
    <2>3. I \subseteq Wired({w, d}, 0, n)
      <3>1. I \subseteq Wired(z.own, p[WClr], n)
        BY <2>1, <2>2, StaysWired
      <3> QED
        BY <1>3, <2>1, <3>1
    <2>4. I \subseteq Went(w, z.was[w], z.now[w])
      BY <2>1, <2>2, StaysWired
    <2> QED
      BY <1>3, <2>3, <2>4 DEF HonouredEnd
  <1>10. << OnDoc("set", w, Blank, "recalled"), OnDoc("insert", d, Absent, "accepted") >> = s4 \o s5
    BY TwoOnes
  <1> DEFINE t1 == s1 \o s2  t2 == t1 \o Refreshed(a)  t3 == s4 \o s5
  <1> HIDE DEF F, G, H, I, s1, s2, s4, s5
  <1>11. Leads(WireDocs, t3, G, I)
    BY <1>7, <1>8, LeadsOn
  <1>12. Leads(WireDocs, t1, F, G)
    BY <1>4, <1>5, LeadsOn
  <1> HIDE DEF t1, t3
  <1>13. Leads(WireDocs, t2, F, G)
    BY <1>6, <1>12, LeadsOn
  <1> HIDE DEF t2
  <1>14. Leads(WireDocs, t2 \o t3, F, I)
    BY <1>11, <1>13, LeadsOn
  <1>15. Leads(WireDocs, t2 \o t3, F, HonouredEnd(w, d))
    BY <1>9, <1>14, LeadsAlso
  <1> QED
    BY <1>10, <1>15 DEF t1, t2, t3, s1, s2, F, k

\* network_inbound_recall, honoured when there is money to give back.
LEMMA HonourRecallLeads ==
    ASSUME NEW c, c.w \in Inbound, c.k \in Recalls
    PROVE  Leads(WireDocs, HonourRecall(c), Begun, HonouredEnd(c.w, c.k))
  <1> DEFINE w == c.w  d == c.k  a == WireAccount[w]  n == WireAmt[w]
             G == Stays(Marked(Clean(WireDocs), w, "settled", "settled"), NoEntries, 0)
             H == HonouredEnd(w, d)
             s1 == << OnDoc("mark", w, "settled", "settled") >>  s2 == << Do("lock", a, 0) >>
             body == << OnDoc("insert", d, Absent, "rejected") >>
             other == << Do("floor", a, 0) >> \o Clawback(a, n) \o Refreshed(a)
                          \o << OnDoc("set", w, Blank, "recalled"), OnDoc("insert", d, Absent, "accepted") >>
             s3 == IfElse(a, "short", n, body, other)
  <1>0. w \in WireDocs /\ w \in Wires /\ d \in Recalls /\ a \in Accounts /\ WireDocs \in SUBSET Docs
    BY WireTypes
  <1>1. Leads(WireDocs, s1, Begun, G)
    BY <1>0, WireMarks DEF Begun
  <1>2. Leads(WireDocs, s2, G, G)
    BY <1>0, WatchLeads DEF Stays
  <1>3. Leads(WireDocs, other, G, H)
    BY <1>0, TakenBackLeads
  <1>4. Leads(WireDocs, body, G, KeptEnd(w, d)) /\ KeptEnd(w, d) \subseteq H
    BY <1>0, KeptLeads DEF HonouredEnd
  <1>5. G \in SUBSET Standing(WireDocs) /\ H \in SUBSET Standing(WireDocs)
    BY StoodType DEF Stays, HonouredEnd, KeptEnd, Wired
  <1>8. HonourRecall(c) = ((s1 \o s2) \o s3) \o Completed
    <2>1. << OnDoc("mark", w, "settled", "settled"), Do("lock", a, 0) >> = s1 \o s2
      BY TwoOnes
    <2> HIDE DEF s1, s2
    <2> QED
      BY <2>1 DEF HonourRecall
  <1> HIDE DEF G, H, s1, s2, body, other
  <1>6. Leads(WireDocs, body, G, H)
    BY <1>4, LeadsAlso
  <1>7. Leads(WireDocs, s3, G, H)
    BY <1>3, <1>5, <1>6, BranchElse
  <1> HIDE DEF s3
  <1>9. Leads(WireDocs, s1 \o s2, Begun, G)
    BY <1>1, <1>2, LeadsOn
  <1>10. Leads(WireDocs, (s1 \o s2) \o s3, Begun, H)
    BY <1>7, <1>9, LeadsOn
  <1>11. Leads(WireDocs, ((s1 \o s2) \o s3) \o Completed, Begun, H)
    BY <1>5, <1>10, CommitLeads
  <1> QED
    BY <1>8, <1>11 DEF H

\* admin_reject_stale_inner: what it writes without a guard, it has locked.
LEMMA RejectStaleLeads ==
    ASSUME NEW c, c.w \in Outbound
    PROVE  Leads(WireDocs, RejectStale(c), Begun, RejectedEnd(c.w))
  <1> DEFINE w == c.w  a == WireAccount[w]  n == WireAmt[w]  p == Moving(WClr, a, n)
             k == Marked(Clean(WireDocs), w, "sent", "sent")  m == Marked(k, w, Blank, "rejected")
             F == Stays(k, NoEntries, 0)  G == Stays(k, p, 0)  I == Stays(m, p, 0)
             s1 == << OnDoc("expect", w, "sent", Blank) >>  s2 == << OnDoc("mark", w, "sent", "sent") >>
             s3 == << Do("floor", a, 0) >>  s4 == RefundTo(LynxRail, a, n, 0)
             s5 == << OnDoc("set", w, Blank, "rejected") >>
  <1>0. /\ WireDocs \in SUBSET Docs /\ w \in WireDocs
        /\ a \in Accounts \ {WClr, WStl} /\ a \in Accounts /\ n \in Int /\ WClr \in Accounts
        /\ "sent" \in STRING /\ "rejected" \in STRING /\ 0 \in Int
    BY WireTypes, WireStatuses
  <1>1. k \in Docket(WireDocs) /\ k.own = {w} /\ k.was[w] = "sent"
    BY <1>0, OneMarked
  <1>2. m.own = {w} /\ m.was[w] = "sent" /\ m.now[w] = "rejected"
    <2> HIDE DEF k
    <2> QED
      BY <1>0, <1>1, MarkedAgain
  <1>3. Leads(WireDocs, s1, Begun, Begun)
    BY WireBeside DEF Begun, DocOps
  <1>4. Leads(WireDocs, s2, Begun, F)
    BY <1>0, WireMarks DEF Begun
  <1>5. Leads(WireDocs, s3, F, F)
    BY <1>0, WatchLeads DEF Stays
  <1>6. Leads(WireDocs, s4, F, G)
    BY <1>0, VerbLeads DEF RefundTo, WClr
  <1>7. Leads(WireDocs, Refreshed(a), G, G)
    BY <1>0, RefreshedLeads DEF Stays
  <1>8. Leads(WireDocs, s5, G, I)
    <2>1. w \in k.own
      BY <1>1
    <2> HIDE DEF p, k
    <2> QED
      BY <1>0, <1>1, <2>1, SetLeads DEF Stays
  <1>9. I \subseteq RejectedEnd(w) /\ RejectedEnd(w) \in SUBSET Standing(WireDocs)
    <2>1. p[WClr] = -n /\ p[WStl] = 0 /\ 0 + 0 = 0
      <3>1. p[WClr] = -n
        <4>1. a \in Accounts \ {WClr, WStl} /\ n \in Int
          BY <1>0
        <4> HIDE DEF a, n
        <4> QED
          BY <4>1, MovingOnRail
      <3>2. p[WStl] = 0
        <4>1. a \in Accounts \ {WClr, WStl} /\ n \in Int
          BY <1>0
        <4> HIDE DEF a, n
        <4> QED
          BY <4>1, MovingOnRail
      <3> QED
        BY <3>1, <3>2
    <2> HIDE DEF m, p
    <2>2. I \subseteq Wired({w}, -n, 0)
      <3>1. I \subseteq Wired(m.own, p[WClr], 0)
        BY <2>1, StaysWired
      <3> QED
        BY <1>2, <2>1, <3>1
    <2>3. I \subseteq Went(w, m.was[w], m.now[w])
      BY <2>1, StaysWired
    <2> QED
      BY <1>2, <2>2, <2>3 DEF RejectedEnd, Wired
  <1>10. RejectStale(c) = (((s1 \o (s2 \o s3)) \o s4) \o Refreshed(a)) \o s5 \o Completed
    <2>1. << OnDoc("expect", w, "sent", Blank), OnDoc("mark", w, "sent", "sent"), Do("floor", a, 0) >>
              = s1 \o (s2 \o s3)
      BY ThreeOnes
    <2> HIDE DEF s1, s2, s3
    <2> QED
      BY <2>1 DEF RejectStale
  <1> DEFINE t1 == s1 \o (s2 \o s3)  t2 == t1 \o s4  t3 == t2 \o Refreshed(a)  t4 == t3 \o s5
  <1> HIDE DEF F, G, I, s1, s2, s3, s4, s5
  <1>11. Leads(WireDocs, s2 \o s3, Begun, F)
    BY <1>4, <1>5, LeadsOn
  <1>12. Leads(WireDocs, t1, Begun, F)
    BY <1>3, <1>11, LeadsOn
  <1> HIDE DEF t1
  <1>13. Leads(WireDocs, t2, Begun, G)
    BY <1>6, <1>12, LeadsOn
  <1> HIDE DEF t2
  <1>14. Leads(WireDocs, t3, Begun, G)
    BY <1>7, <1>13, LeadsOn
  <1> HIDE DEF t3
  <1>15. Leads(WireDocs, t4, Begun, I)
    BY <1>8, <1>14, LeadsOn
  <1> HIDE DEF t4
  <1>16. Leads(WireDocs, t4 \o Completed, Begun, RejectedEnd(w))
    BY <1>9, <1>15, CommitLeads
  <1> QED
    BY <1>10, <1>16 DEF t1, t2, t3, t4
-----------------------------------------------------------------------------
\* Other rails' calls, where there are any, keep off the wires, their recalls and
\* the rail's two accounts.
WiresApart ==
    \A t \in Tasks \ LynxCalls :
        /\ KeepsOff(WireDocs, t)
        /\ \A i \in 1..Len(Script[t]) :
             Script[t][i].op = "write" => Script[t][i].row \notin {WClr, WStl}

Bystanding == {l \in Standing(WireDocs) : l.own = {} /\ l.posts[WClr] = 0 /\ l.posts[WStl] = 0}

WireEnd(t) ==
    LET c == LynxCall[t] IN
    IF t \notin LynxCalls THEN Bystanding
    ELSE CASE c.kind = "initiate"       -> SentEnd(c.w)
           [] c.kind = "settle wire"    -> SettledEnd(c.w)
           [] c.kind = "inbound wire"   -> ReceivedEnd(c.w)
           [] c.kind = "request recall" -> AskedEnd(c.k)
           [] c.kind = "accepted"       -> AcceptedEnd(c.k)
           [] c.kind = "rejected"       -> RefusedEnd(c.k)
           [] c.kind = "honour recall"  -> HonouredEnd(c.w, c.k)
           [] c.kind = "decline recall" -> KeptEnd(c.w, c.k)
           [] c.kind = "reject stale"   -> RejectedEnd(c.w)

\* The call of a task.
LEMMA WireCallFields ==
    ASSUME NEW t \in LynxCalls
    PROVE  LET c == LynxCall[t] IN
           /\ t \in Tasks /\ Script[t] = LynxScript(c)
           /\ c.kind \in LynxKinds /\ c.w \in Wires /\ c.k \in Recalls
           /\ c.kind \in {"initiate", "settle wire", "request recall", "reject stale"} => c.w \in Outbound
           /\ c.kind \in {"inbound wire", "honour recall", "decline recall"} => c.w \in Inbound
           /\ c.kind \in {"request recall", "honour recall", "decline recall"} => WireOf[c.k] = c.w
           /\ c.kind \in {"accepted", "rejected"} => c.k \in OutboundRecalls
  <1>1. LynxCall[t] \in WireCall
    BY LynxAssumption
  <1>2. t \in Tasks /\ Script[t] = LynxScript(LynxCall[t])
    BY LynxScripts
  <1> QED
    BY <1>1, <1>2, WireRows DEF WireCall

\* A call of another rail ends where it began, as far as the wires go.
LEMMA BystandersEnd ==
    ASSUME WiresApart, NEW t \in Tasks \ LynxCalls
    PROVE  EndsIn(WireDocs, t, Bystanding)
  <1>1. {Fresh(WireDocs)} \subseteq Bystanding
    <2>1. Fresh(WireDocs) \in Stood(WireDocs, Clean(WireDocs), NoEntries, 0)
      BY WireTypes, FreshStood
    <2> QED
      BY <2>1, WireTypes DEF Stood, Clean, Bystanding
  <1>2. ASSUME NEW i \in 1..Len(Script[t]), Script[t][i].op # "when",
               NEW l \in Bystanding, NEW m \in Standing(WireDocs), Does(WireDocs, Script[t][i], l, m)
        PROVE  m \in Bystanding
    <2> DEFINE s == Script[t][i]
    <2>1. Aside(WireDocs, s) /\ (s.op = "write" => s.row \notin {WClr, WStl})
      BY <1>2 DEF WiresApart, KeepsOff, Aside
    <2>2. l \in Standing(WireDocs) /\ l.own = {} /\ l.posts[WClr] = 0 /\ l.posts[WStl] = 0
          /\ l.posts \in [Accounts -> Int] /\ WClr \in Accounts /\ WStl \in Accounts
      BY WireTypes DEF Bystanding, Standing
    <2> HIDE DEF s
    <2>3. SameLocks(l, m)
      BY <1>2, <2>1, <2>2, AsideStands DEF s
    <2>4. Does(WireDocs, s, l, m)
      BY <1>2 DEF s
    <2>5. m.posts = l.posts \/ m.posts = PostsAfter(s, l)
      BY <2>1, <2>4 DEF Does, Aside
    <2>6. m.posts[WClr] = 0 /\ m.posts[WStl] = 0
      BY <2>1, <2>2, <2>5 DEF PostsAfter
    <2> QED
      BY <2>2, <2>3, <2>6 DEF Bystanding, SameLocks
  <1>3. Bystanding \in SUBSET Standing(WireDocs)
    BY DEF Bystanding
  <1> QED
    BY <1>1, <1>2, <1>3, WireTypes, AlwaysEnds

\* How the script of each task ends.
LEMMA WiresEnd ==
    ASSUME WiresApart, NEW t \in Tasks
    PROVE  EndsIn(WireDocs, t, WireEnd(t))
  <1>1. CASE t \notin LynxCalls
    BY <1>1, BystandersEnd DEF WireEnd
  <1>2. CASE t \in LynxCalls
    <2> DEFINE c == LynxCall[t]  H == WireEnd(t)  X == WireDocs
    <2>1. /\ Script[t] = LynxScript(c) /\ c.kind \in LynxKinds /\ c.k \in Recalls
          /\ c.kind \in {"initiate", "settle wire", "request recall", "reject stale"} => c.w \in Outbound
          /\ c.kind \in {"inbound wire", "honour recall", "decline recall"} => c.w \in Inbound
          /\ c.kind \in {"accepted", "rejected"} => c.k \in OutboundRecalls
      BY <1>2, WireCallFields
    <2>2. H = CASE c.kind = "initiate"       -> SentEnd(c.w)
                [] c.kind = "settle wire"    -> SettledEnd(c.w)
                [] c.kind = "inbound wire"   -> ReceivedEnd(c.w)
                [] c.kind = "request recall" -> AskedEnd(c.k)
                [] c.kind = "accepted"       -> AcceptedEnd(c.k)
                [] c.kind = "rejected"       -> RefusedEnd(c.k)
                [] c.kind = "honour recall"  -> HonouredEnd(c.w, c.k)
                [] c.kind = "decline recall" -> KeptEnd(c.w, c.k)
                [] c.kind = "reject stale"   -> RejectedEnd(c.w)
      BY <1>2 DEF WireEnd
    <2> HIDE DEF c, H
    <2>3. Leads(X, LynxScript(c), Begun, H)
      <3>1. CASE c.kind = "initiate"
        <4>1. LynxScript(c) = Initiate(c) /\ H = SentEnd(c.w)
          BY <2>2, <3>1 DEF LynxScript
        <4> QED
          BY <2>1, <3>1, <4>1, InitiateLeads
      <3>2. CASE c.kind = "settle wire"
        <4>1. LynxScript(c) = SettleWire(c) /\ H = SettledEnd(c.w)
          BY <2>2, <3>2 DEF LynxScript
        <4> QED
          BY <2>1, <3>2, <4>1, SettleWireLeads
      <3>3. CASE c.kind = "inbound wire"
        <4>1. LynxScript(c) = InboundWire(c) /\ H = ReceivedEnd(c.w)
          BY <2>2, <3>3 DEF LynxScript
        <4> QED
          BY <2>1, <3>3, <4>1, InboundWireLeads
      <3>4. CASE c.kind = "request recall"
        <4>1. LynxScript(c) = RequestRecall(c) /\ H = AskedEnd(c.k)
          BY <2>2, <3>4 DEF LynxScript
        <4> QED
          BY <2>1, <3>4, <4>1, RequestRecallLeads
      <3>5. CASE c.kind = "accepted"
        <4>1. LynxScript(c) = RecallAccepted(c) /\ H = AcceptedEnd(c.k)
          BY <2>2, <3>5 DEF LynxScript
        <4> QED
          BY <2>1, <3>5, <4>1, RecallAcceptedLeads
      <3>6. CASE c.kind = "rejected"
        <4>1. LynxScript(c) = RecallRejected(c) /\ H = RefusedEnd(c.k)
          BY <2>2, <3>6 DEF LynxScript
        <4> QED
          BY <2>1, <3>6, <4>1, RecallRejectedLeads
      <3>7. CASE c.kind = "honour recall"
        <4>1. LynxScript(c) = HonourRecall(c) /\ H = HonouredEnd(c.w, c.k)
          BY <2>2, <3>7 DEF LynxScript
        <4> QED
          BY <2>1, <3>7, <4>1, HonourRecallLeads
      <3>8. CASE c.kind = "decline recall"
        <4>1. LynxScript(c) = DeclineRecall(c) /\ H = KeptEnd(c.w, c.k)
          BY <2>2, <3>8 DEF LynxScript
        <4> QED
          BY <2>1, <3>8, <4>1, DeclineRecallLeads
      <3>9. CASE c.kind = "reject stale"
        <4>1. LynxScript(c) = RejectStale(c) /\ H = RejectedEnd(c.w)
          BY <2>2, <3>9 DEF LynxScript
        <4> QED
          BY <2>1, <3>9, <4>1, RejectStaleLeads
      <3> QED
        BY <2>1, <3>1, <3>2, <3>3, <3>4, <3>5, <3>6, <3>7, <3>8, <3>9 DEF LynxKinds
    <2>4. Leads(X, LynxScript(c), {Fresh(X)}, H)
      <3>1. {Fresh(X)} \subseteq Begun /\ H \subseteq H
        BY WireTypes, FreshStood DEF Begun, Stays
      <3> HIDE DEF X
      <3> QED
        BY <2>3, <3>1, LeadsAlso
    <2> QED
      BY <2>1, <2>4 DEF EndsIn, H
  <1> QED
    BY <1>1, <1>2
-----------------------------------------------------------------------------
\* Of the wires and recalls only D may change, and the rail's accounts get b and s.
WiresBut(D) == \A d \in WireDocs \ D : doc'[d] = doc[d]
BooksMove(b, s) == journal'[WClr] = journal[WClr] + b /\ journal'[WStl] = journal[WStl] + s
Wiring(r, D, b, s) == WiresBut(D) /\ BooksMove(b, s) /\ gl[r] + s = 0
GoesTo(d, v, w) == doc[d] = v /\ doc'[d] = w

\* What a commit does to the wires and the rail's books.
OnWires(r) ==
    LET c == LynxCall[task[r]]  w == c.w  k == c.k  n == WireAmt[w] IN
    IF task[r] \notin LynxCalls THEN WiresBut({}) /\ BooksMove(0, 0)
    ELSE \/ w \in Outbound /\ GoesTo(w, Absent, "sent") /\ Wiring(r, {w}, n, 0)
         \/ w \in Outbound /\ GoesTo(w, "sent", "settled") /\ Wiring(r, {w}, -n, n)
         \/ w \in Outbound /\ GoesTo(w, "sent", "rejected") /\ Wiring(r, {w}, -n, 0)
         \/ w \in Inbound /\ GoesTo(w, Absent, "settled") /\ Wiring(r, {w}, 0, -n)
         \/ /\ c.kind = "request recall" /\ w = WireOf[k] /\ k \in OutboundRecalls
            /\ GoesTo(k, Absent, "requested") /\ Wiring(r, {k}, 0, 0)
         \/ k \in OutboundRecalls /\ GoesTo(k, "requested", "rejected") /\ Wiring(r, {k}, 0, 0)
         \/ /\ k \in OutboundRecalls /\ GoesTo(k, "requested", "accepted")
            /\ doc'[WireOf[k]] = "recalled" /\ Wiring(r, {k, WireOf[k]}, 0, -RecallAmt[k])
         \/ /\ w \in Inbound /\ k \in Recalls \ OutboundRecalls
            /\ \/ GoesTo(w, "settled", "settled") /\ Wiring(r, {w, k}, 0, 0)
               \/ GoesTo(w, "settled", "recalled") /\ Wiring(r, {w, k}, 0, n)

\* A commit does one of these.
LEMMA CommitOnWires ==
    ASSUME WiresApart, NEW H, \A t \in Tasks : H[t] = WireEnd(t),
           StandsInv(WireDocs, H), NEW r \in Requests, Commit(r)
    PROVE  OnWires(r)
  <1> DEFINE X == WireDocs  l == StandingOf(X, r)  t == task[r]  c == LynxCall[t]
             w == c.w  k == c.k  n == WireAmt[w]
  <1>1. /\ t \in Tasks /\ l \in WireEnd(t) /\ l \in Standing(X)
        /\ \A d \in X : IF d \in l.own THEN doc[d] = l.was[d] /\ doc'[d] = l.now[d]
                                       ELSE doc'[d] = doc[d]
        /\ \A a \in Accounts : journal'[a] = journal[a] + l.posts[a]
    <2>1. \A u \in Tasks : EndsIn(X, u, H[u])
      BY WiresEnd
    <2>2. X \cap Docs = X /\ X \in SUBSET Rows
      BY WireTypes
    <2> HIDE DEF X, l
    <2>3. /\ t \in Tasks /\ l \in H[t] /\ l \in Standing(X)
          /\ \A d \in X \cap Docs : IF d \in l.own THEN doc[d] = l.was[d] /\ doc'[d] = l.now[d]
                                                   ELSE doc'[d] = doc[d]
          /\ \A a \in Accounts : journal'[a] = journal[a] + l.posts[a]
      BY <2>1, <2>2, CommitStands DEF X, l
    <2> QED
      BY <2>2, <2>3
  <1>2. l.told = gl[r]
    BY DEF StandingOf
  <1> HIDE DEF l
  <1>3. CASE t \notin LynxCalls
    <2>1. l.own = {} /\ l.posts[WClr] = 0 /\ l.posts[WStl] = 0
      BY <1>1, <1>3 DEF WireEnd, Bystanding
    <2> QED
      BY <1>1, <1>3, <2>1, WireTypes DEF OnWires, WiresBut, BooksMove
  <1>4. CASE t \in LynxCalls
    <2>1. /\ c.kind \in LynxKinds /\ w \in Wires /\ k \in Recalls
          /\ c.kind \in {"initiate", "settle wire", "request recall", "reject stale"} => w \in Outbound
          /\ c.kind \in {"inbound wire", "honour recall", "decline recall"} => w \in Inbound
          /\ c.kind \in {"request recall", "honour recall", "decline recall"} => WireOf[k] = w
          /\ c.kind \in {"accepted", "rejected"} => k \in OutboundRecalls
      BY <1>4, WireCallFields
    <2>2. WireEnd(t) = CASE c.kind = "initiate"       -> SentEnd(w)
                         [] c.kind = "settle wire"    -> SettledEnd(w)
                         [] c.kind = "inbound wire"   -> ReceivedEnd(w)
                         [] c.kind = "request recall" -> AskedEnd(k)
                         [] c.kind = "accepted"       -> AcceptedEnd(k)
                         [] c.kind = "rejected"       -> RefusedEnd(k)
                         [] c.kind = "honour recall"  -> HonouredEnd(w, k)
                         [] c.kind = "decline recall" -> KeptEnd(w, k)
                         [] c.kind = "reject stale"   -> RejectedEnd(w)
      BY <1>4 DEF WireEnd
    <2>3. w \in X /\ k \in X
      BY <2>1, WireTypes
    <2>4. \A D, b, s : l \in Wired(D, b, s) => Wiring(r, D, b, s) /\ l.own = D
      BY <1>1, <1>2, WireTypes DEF Wired, Wiring, WiresBut, BooksMove
    <2>5. \A d \in X : \A u, v : d \in l.own /\ l \in Went(d, u, v) => GoesTo(d, u, v)
      BY <1>1 DEF Went, GoesTo
    <2>6. OnWires(r) <=>
            \/ w \in Outbound /\ GoesTo(w, Absent, "sent") /\ Wiring(r, {w}, n, 0)
            \/ w \in Outbound /\ GoesTo(w, "sent", "settled") /\ Wiring(r, {w}, -n, n)
            \/ w \in Outbound /\ GoesTo(w, "sent", "rejected") /\ Wiring(r, {w}, -n, 0)
            \/ w \in Inbound /\ GoesTo(w, Absent, "settled") /\ Wiring(r, {w}, 0, -n)
            \/ /\ c.kind = "request recall" /\ w = WireOf[k] /\ k \in OutboundRecalls
               /\ GoesTo(k, Absent, "requested") /\ Wiring(r, {k}, 0, 0)
            \/ k \in OutboundRecalls /\ GoesTo(k, "requested", "rejected") /\ Wiring(r, {k}, 0, 0)
            \/ /\ k \in OutboundRecalls /\ GoesTo(k, "requested", "accepted")
               /\ doc'[WireOf[k]] = "recalled" /\ Wiring(r, {k, WireOf[k]}, 0, -RecallAmt[k])
            \/ /\ w \in Inbound /\ k \in Recalls \ OutboundRecalls
               /\ \/ GoesTo(w, "settled", "settled") /\ Wiring(r, {w, k}, 0, 0)
                  \/ GoesTo(w, "settled", "recalled") /\ Wiring(r, {w, k}, 0, n)
      BY <1>4 DEF OnWires
    <2>7. w \in Inbound /\ WireOf[k] = w => k \in Recalls \ OutboundRecalls
      BY <2>1, WireTypes
    <2>8. w \in Outbound /\ WireOf[k] = w => k \in OutboundRecalls
      BY <2>1 DEF OutboundRecalls
    <2> HIDE DEF X, c, w, k, n
    <2>10. CASE c.kind = "initiate"
      <3>1. l \in SentEnd(w) /\ w \in Outbound
        BY <1>1, <2>1, <2>2, <2>10
      <3>2. Wiring(r, {w}, n, 0) /\ l.own = {w} /\ GoesTo(w, Absent, "sent")
        BY <2>3, <2>4, <2>5, <3>1 DEF SentEnd, n
      <3> QED
        BY <2>6, <3>1, <3>2
    <2>11. CASE c.kind = "settle wire"
      <3>1. l \in SettledEnd(w) /\ w \in Outbound
        BY <1>1, <2>1, <2>2, <2>11
      <3>2. Wiring(r, {w}, -n, n) /\ l.own = {w} /\ GoesTo(w, "sent", "settled")
        BY <2>3, <2>4, <2>5, <3>1 DEF SettledEnd, n
      <3> QED
        BY <2>6, <3>1, <3>2
    <2>12. CASE c.kind = "inbound wire"
      <3>1. l \in ReceivedEnd(w) /\ w \in Inbound
        BY <1>1, <2>1, <2>2, <2>12
      <3>2. Wiring(r, {w}, 0, -n) /\ l.own = {w} /\ GoesTo(w, Absent, "settled")
        BY <2>3, <2>4, <2>5, <3>1 DEF ReceivedEnd, n
      <3> QED
        BY <2>6, <3>1, <3>2
    <2>13. CASE c.kind = "request recall"
      <3>1. l \in AskedEnd(k) /\ WireOf[k] = w /\ k \in OutboundRecalls
        BY <1>1, <2>1, <2>2, <2>8, <2>13
      <3>2. Wiring(r, {k}, 0, 0) /\ l.own = {k} /\ GoesTo(k, Absent, "requested")
        BY <2>3, <2>4, <2>5, <3>1 DEF AskedEnd
      <3> QED
        BY <2>6, <2>13, <3>1, <3>2
    <2>14. CASE c.kind = "accepted"
      <3>1. l \in AcceptedEnd(k) /\ k \in OutboundRecalls
        BY <1>1, <2>1, <2>2, <2>14
      <3>2. /\ Wiring(r, {k, WireOf[k]}, 0, -RecallAmt[k]) /\ l.own = {k, WireOf[k]}
            /\ GoesTo(k, "requested", "accepted") /\ l.now[WireOf[k]] = "recalled"
        BY <2>3, <2>4, <2>5, <3>1 DEF AcceptedEnd
      <3>3. doc'[WireOf[k]] = "recalled"
        <4>1. WireOf[k] \in X
          BY <2>1, WireTypes DEF X
        <4> QED
          BY <1>1, <3>2, <4>1
      <3> QED
        BY <2>6, <3>1, <3>2, <3>3
    <2>15. CASE c.kind = "rejected"
      <3>1. l \in RefusedEnd(k) /\ k \in OutboundRecalls
        BY <1>1, <2>1, <2>2, <2>15
      <3>2. Wiring(r, {k}, 0, 0) /\ l.own = {k} /\ GoesTo(k, "requested", "rejected")
        BY <2>3, <2>4, <2>5, <3>1 DEF RefusedEnd
      <3> QED
        BY <2>6, <3>1, <3>2
    <2>16. CASE c.kind = "honour recall"
      <3>1. l \in HonouredEnd(w, k) /\ w \in Inbound /\ k \in Recalls \ OutboundRecalls
        BY <1>1, <2>1, <2>2, <2>7, <2>16
      <3>2. CASE l \in KeptEnd(w, k)
        <4>1. Wiring(r, {w, k}, 0, 0) /\ l.own = {w, k} /\ GoesTo(w, "settled", "settled")
          BY <2>3, <2>4, <2>5, <3>2 DEF KeptEnd
        <4> QED
          BY <2>6, <3>1, <4>1
      <3>3. CASE l \in Wired({w, k}, 0, n) \cap Went(w, "settled", "recalled")
        <4>1. Wiring(r, {w, k}, 0, n) /\ l.own = {w, k} /\ GoesTo(w, "settled", "recalled")
          BY <2>3, <2>4, <2>5, <3>3
        <4> QED
          BY <2>6, <3>1, <4>1
      <3> QED
        BY <3>1, <3>2, <3>3 DEF HonouredEnd, n
    <2>17. CASE c.kind = "decline recall"
      <3>1. l \in KeptEnd(w, k) /\ w \in Inbound /\ k \in Recalls \ OutboundRecalls
        BY <1>1, <2>1, <2>2, <2>7, <2>17
      <3>2. Wiring(r, {w, k}, 0, 0) /\ l.own = {w, k} /\ GoesTo(w, "settled", "settled")
        BY <2>3, <2>4, <2>5, <3>1 DEF KeptEnd
      <3> QED
        BY <2>6, <3>1, <3>2
    <2>18. CASE c.kind = "reject stale"
      <3>1. l \in RejectedEnd(w) /\ w \in Outbound
        BY <1>1, <2>1, <2>2, <2>18
      <3>2. Wiring(r, {w}, -n, 0) /\ l.own = {w} /\ GoesTo(w, "sent", "rejected")
        BY <2>3, <2>4, <2>5, <3>1 DEF RejectedEnd, n
      <3> QED
        BY <2>6, <3>1, <3>2
    <2> QED
      BY <2>1, <2>10, <2>11, <2>12, <2>13, <2>14, <2>15, <2>16, <2>17, <2>18 DEF LynxKinds
  <1> QED
    BY <1>3, <1>4
-----------------------------------------------------------------------------
(* The sums. *)
Amounts(f, A, S, statuses) == [d \in S |-> IF f[d] \in statuses THEN A[d] ELSE 0]
AmountAt(f, A, S, statuses) == SumOver(S, Amounts(f, A, S, statuses))

\* A sum of amounts is a whole number, and no other status rows are in it.
LEMMA AmountStays ==
    ASSUME NEW S, IsFiniteSet(S), NEW A, \A d \in S : A[d] \in Int, NEW statuses, NEW f, NEW g,
           \A d \in S : f[d] \in statuses <=> g[d] \in statuses
    PROVE  /\ AmountAt(g, A, S, statuses) = AmountAt(f, A, S, statuses)
           /\ AmountAt(f, A, S, statuses) \in Int
  <1> DEFINE u == Amounts(f, A, S, statuses)  v == Amounts(g, A, S, statuses)
  <1>1. WholeOn(S, u) /\ WholeOn(S, v) /\ \A d \in S : u[d] = v[d]
    BY DEF WholeOn, Amounts
  <1> HIDE DEF u, v
  <1>2. SumOver(S, u) = SumOver(S, v) /\ SumOver(S, u) \in Int
    BY <1>1, SumSame, SumType
  <1> QED
    BY <1>2 DEF AmountAt, u, v

\* What one row adds to it.
LEMMA AmountMoves ==
    ASSUME NEW S, IsFiniteSet(S), NEW A, \A d \in S : A[d] \in Int, NEW statuses, NEW f, NEW g,
           NEW e \in S, \A d \in S \ {e} : f[d] = g[d]
    PROVE  AmountAt(g, A, S, statuses)
             = AmountAt(f, A, S, statuses) + ((IF g[e] \in statuses THEN A[e] ELSE 0)
                                                - (IF f[e] \in statuses THEN A[e] ELSE 0))
  <1> DEFINE u == Amounts(f, A, S, statuses)  v == Amounts(g, A, S, statuses)
  <1>1. /\ WholeOn(S, u) /\ WholeOn(S, v) /\ \A d \in S \ {e} : u[d] = v[d]
        /\ v[e] = (IF g[e] \in statuses THEN A[e] ELSE 0)
        /\ u[e] = (IF f[e] \in statuses THEN A[e] ELSE 0)
    BY DEF WholeOn, Amounts
  <1> HIDE DEF u, v
  <1>2. SumOver(S, v) = SumOver(S, u) + (v[e] - u[e])
    BY <1>1, SumChange
  <1> QED
    BY <1>1, <1>2 DEF AmountAt, u, v

\* What the books are about: the wires on their way, those that went, those
\* that came, and the recalls that took one back.
OnTheWay(f) == AmountAt(f, WireAmt, Outbound, {"sent"})
Gone(f) == AmountAt(f, WireAmt, Outbound, {"settled", "recalled"})
Came(f) == AmountAt(f, WireAmt, Inbound, {"settled"})
Back(f) == AmountAt(f, RecallAmt, OutboundRecalls, {"accepted"})

\* WiresTieToBooks, of any statuses, entries and sum of what the core was told.
Books(f, j, p) ==
    /\ j[WClr] = OnTheWay(f) - OnTheWay(OpeningDoc)
    /\ j[WStl] = (Gone(f) - Gone(OpeningDoc)) - (Came(f) - Came(OpeningDoc))
                   - (Back(f) - Back(OpeningDoc))
    /\ p = -j[WStl]

\* The property says this of the state, and of the next one.
LEMMA TieIsBooks ==
    /\ WiresTieToBooks <=> Books(doc, journal, PostedFor(LynxCalls))
    /\ WiresTieToBooks' <=> Books(doc', journal', PostedFor(LynxCalls)')
  <1>1. WiresTieToBooks <=> Books(doc, journal, PostedFor(LynxCalls))
    BY DEF WiresTieToBooks, Books, OnTheWay, Gone, Came, Back, AmountAt, Amounts, Gained,
           TotalAt, TotalAtFirst, WClr, WStl
  <1>2. WiresTieToBooks' <=> Books(doc', journal', PostedFor(LynxCalls)')
    BY DEF WiresTieToBooks, Books, OnTheWay, Gone, Came, Back, AmountAt, Amounts, Gained,
           TotalAt, TotalAtFirst, WClr, WStl
  <1> QED
    BY <1>1, <1>2

\* The four sums are over finite sets of whole numbers.
LEMMA WireSums ==
    /\ IsFiniteSet(Outbound) /\ IsFiniteSet(Inbound) /\ IsFiniteSet(OutboundRecalls)
    /\ \A w \in Outbound : WireAmt[w] \in Int
    /\ \A w \in Inbound : WireAmt[w] \in Int
    /\ \A k \in OutboundRecalls : RecallAmt[k] \in Int
    /\ \A f : OnTheWay(f) \in Int /\ Gone(f) \in Int /\ Came(f) \in Int /\ Back(f) \in Int
  <1>1. IsFiniteSet(Outbound) /\ IsFiniteSet(Inbound) /\ IsFiniteSet(OutboundRecalls)
    <2>1. IsFiniteSet(Recalls) /\ OutboundRecalls \subseteq Recalls
      BY WireRows, WireTypes
    <2> QED
      BY <2>1, WireRows, FS_Subset
  <1>2. /\ \A w \in Outbound : WireAmt[w] \in Int
        /\ \A w \in Inbound : WireAmt[w] \in Int
    BY WireTypes
  <1>3. \A k \in OutboundRecalls : RecallAmt[k] \in Int
    BY <1>2, WireTypes
  <1>4. ASSUME NEW f PROVE OnTheWay(f) \in Int /\ Gone(f) \in Int /\ Came(f) \in Int /\ Back(f) \in Int
    <2>1. OnTheWay(f) \in Int /\ Gone(f) \in Int
      BY <1>1, <1>2, AmountStays DEF OnTheWay, Gone
    <2>2. Came(f) \in Int /\ Back(f) \in Int
      BY <1>1, <1>2, <1>3, AmountStays DEF Came, Back
    <2> QED
      BY <2>1, <2>2
  <1> QED
    BY <1>1, <1>2, <1>3, <1>4

\* What a wire that went adds to them,
LEMMA OutboundMoves ==
    ASSUME NEW f, NEW g, NEW w \in Outbound, \A d \in Outbound \ {w} : f[d] = g[d]
    PROVE  /\ OnTheWay(g) = OnTheWay(f) + ((IF g[w] = "sent" THEN WireAmt[w] ELSE 0)
                                             - (IF f[w] = "sent" THEN WireAmt[w] ELSE 0))
           /\ Gone(g) = Gone(f) + ((IF g[w] \in {"settled", "recalled"} THEN WireAmt[w] ELSE 0)
                                     - (IF f[w] \in {"settled", "recalled"} THEN WireAmt[w] ELSE 0))
  <1>1. \A s : AmountAt(g, WireAmt, Outbound, s)
                 = AmountAt(f, WireAmt, Outbound, s) + ((IF g[w] \in s THEN WireAmt[w] ELSE 0)
                                                          - (IF f[w] \in s THEN WireAmt[w] ELSE 0))
    <2>1. IsFiniteSet(Outbound) /\ \A d \in Outbound : WireAmt[d] \in Int
      BY WireSums
    <2> QED
      BY <2>1, AmountMoves
  <1>2. \A v : v \in {"sent"} <=> v = "sent"
    OBVIOUS
  <1> QED
    BY <1>1, <1>2 DEF OnTheWay, Gone

\* one that came,
LEMMA InboundMoves ==
    ASSUME NEW f, NEW g, NEW w \in Inbound, \A d \in Inbound \ {w} : f[d] = g[d]
    PROVE  Came(g) = Came(f) + ((IF g[w] = "settled" THEN WireAmt[w] ELSE 0)
                                  - (IF f[w] = "settled" THEN WireAmt[w] ELSE 0))
  <1>1. \A s : AmountAt(g, WireAmt, Inbound, s)
                 = AmountAt(f, WireAmt, Inbound, s) + ((IF g[w] \in s THEN WireAmt[w] ELSE 0)
                                                         - (IF f[w] \in s THEN WireAmt[w] ELSE 0))
    <2>1. IsFiniteSet(Inbound) /\ \A d \in Inbound : WireAmt[d] \in Int
      BY WireSums
    <2> QED
      BY <2>1, AmountMoves
  <1>2. \A v : v \in {"settled"} <=> v = "settled"
    OBVIOUS
  <1> QED
    BY <1>1, <1>2 DEF Came

\* and a recall.
LEMMA RecallMoves ==
    ASSUME NEW f, NEW g, NEW k \in OutboundRecalls, \A d \in OutboundRecalls \ {k} : f[d] = g[d]
    PROVE  Back(g) = Back(f) + ((IF g[k] = "accepted" THEN RecallAmt[k] ELSE 0)
                                  - (IF f[k] = "accepted" THEN RecallAmt[k] ELSE 0))
  <1>1. \A s : AmountAt(g, RecallAmt, OutboundRecalls, s)
                 = AmountAt(f, RecallAmt, OutboundRecalls, s)
                     + ((IF g[k] \in s THEN RecallAmt[k] ELSE 0)
                          - (IF f[k] \in s THEN RecallAmt[k] ELSE 0))
    BY WireSums, AmountMoves
  <1>2. \A v : v \in {"accepted"} <=> v = "accepted"
    OBVIOUS
  <1> QED
    BY <1>1, <1>2 DEF Back

\* Rows that stay as they were add nothing.
LEMMA WiresStay ==
    ASSUME NEW f, NEW g
    PROVE  /\ (\A d \in Outbound : f[d] = g[d]) => OnTheWay(g) = OnTheWay(f) /\ Gone(g) = Gone(f)
           /\ (\A d \in Inbound : f[d] = g[d]) => Came(g) = Came(f)
           /\ (\A d \in OutboundRecalls : f[d] = g[d]) => Back(g) = Back(f)
  <1>1. (\A d \in Outbound : f[d] = g[d])
          => \A s : AmountAt(g, WireAmt, Outbound, s) = AmountAt(f, WireAmt, Outbound, s)
    BY WireSums, AmountStays
  <1>2. (\A d \in Inbound : f[d] = g[d])
          => \A s : AmountAt(g, WireAmt, Inbound, s) = AmountAt(f, WireAmt, Inbound, s)
    BY WireSums, AmountStays
  <1>3. (\A d \in OutboundRecalls : f[d] = g[d])
          => \A s : AmountAt(g, RecallAmt, OutboundRecalls, s) = AmountAt(f, RecallAmt, OutboundRecalls, s)
    BY WireSums, AmountStays
  <1> QED
    BY <1>1, <1>2, <1>3 DEF OnTheWay, Gone, Came, Back

\* The books keep step with the sums.
LEMMA BooksFollow ==
    ASSUME NEW f, NEW j, NEW p \in Int, Books(f, j, p), NEW g, NEW h, NEW q,
           NEW a \in Int, NEW b \in Int, NEW c \in Int, NEW e \in Int, NEW i \in Int,
           OnTheWay(g) = OnTheWay(f) + a, Gone(g) = Gone(f) + b,
           Came(g) = Came(f) + c, Back(g) = Back(f) + e,
           h[WClr] = j[WClr] + a, h[WStl] = j[WStl] + (b - c - e),
           q = p + i, i + (b - c - e) = 0
    PROVE  Books(g, h, q)
  <1>1. /\ OnTheWay(f) \in Int /\ Gone(f) \in Int /\ Came(f) \in Int /\ Back(f) \in Int
        /\ OnTheWay(OpeningDoc) \in Int /\ Gone(OpeningDoc) \in Int
        /\ Came(OpeningDoc) \in Int /\ Back(OpeningDoc) \in Int
    BY WireSums
  <1> QED
    BY <1>1 DEF Books
\* What the core was told of, by these calls.
ToldOf(calls) ==
    [r \in Requests |-> IF outcome[r] = "posted" /\ task[r] \in calls THEN gl[r] ELSE 0]

\* A commit adds what it told it.
LEMMA ToldGrows ==
    ASSUME TypeOK, TypeOK', IsFiniteSet(Requests), NEW calls, NEW r \in Requests, Commit(r)
    PROVE  /\ PostedFor(calls) \in Int
           /\ PostedFor(calls)' = PostedFor(calls) + (IF task[r] \in calls THEN gl[r] ELSE 0)
  <1> DEFINE u == ToldOf(calls)  v == ToldOf(calls)'
  <1>1. WholeOn(Requests, u) /\ WholeOn(Requests, v)
    BY DEF TypeOK, WholeOn, ToldOf
  <1>2. /\ outcome[r] = "open" /\ task' = task /\ gl' = gl
        /\ \A q \in Requests : outcome'[q] = IF q = r THEN "posted" ELSE outcome[q]
    BY CommitIsPosted
  <1>3. /\ v[r] = (IF task[r] \in calls THEN gl[r] ELSE 0) /\ u[r] = 0
        /\ \A q \in Requests \ {r} : u[q] = v[q]
    BY <1>2 DEF ToldOf
  <1>4. gl[r] \in Int
    BY DEF TypeOK
  <1>5. PostedFor(calls) = SumOver(Requests, u) /\ PostedFor(calls)' = SumOver(Requests, v)
    BY DEF PostedFor, ToldOf
  <1> HIDE DEF u, v
  <1>6. SumOver(Requests, v) = SumOver(Requests, u) + (v[r] - u[r])
    BY <1>1, <1>3, SumChange
  <1>7. SumOver(Requests, u) \in Int
    BY <1>1, SumType
  <1> QED
    BY <1>3, <1>4, <1>5, <1>6, <1>7

\* Wires and recalls that are asked for and accepted are of wires that had settled,
RecallsFollow ==
    \A k \in OutboundRecalls :
        doc[k] \in {"requested", "accepted"} => doc[WireOf[k]] \in {"settled", "recalled"}

\* and so is a recall that a request is about to ask for.
Asked ==
    \A r \in Open :
        task[r] \in LynxCalls /\ LynxCall[task[r]].kind = "request recall" /\ pc[r] # 1
            => doc[LynxCall[task[r]].w] \in {"settled", "recalled"}

WiresSound == WiresTieToBooks /\ RecallsFollow /\ Asked

\* Nothing else happens to a wire that went once it has settled.
LEMMA SettledStays ==
    ASSUME RecallsFollow, NEW r \in Requests, OnWires(r),
           NEW w \in Outbound, doc[w] \in {"settled", "recalled"}
    PROVE  doc'[w] \in {"settled", "recalled"}
  <1> DEFINE c == LynxCall[task[r]]
  <1>0. /\ w \in WireDocs /\ w \notin Recalls /\ w \notin Inbound
        /\ \A k \in OutboundRecalls : k \in Recalls
        /\ doc[w] # Absent /\ doc[w] # "sent"
    BY WireTypes, WireRows
  <1>1. CASE doc'[w] = doc[w]
    BY <1>1
  <1>2. CASE doc'[w] # doc[w]
    <2>1. \A D : WiresBut(D) => w \in D
      BY <1>0, <1>2 DEF WiresBut
    <2>2. task[r] \in LynxCalls
      BY <2>1 DEF OnWires
    <2>3. \A d, u, v : GoesTo(d, u, v) /\ d = w => doc[w] = u
      BY DEF GoesTo
    <2>4. /\ c.k \in OutboundRecalls /\ doc'[WireOf[c.k]] = "recalled"
          /\ w \in {c.k, WireOf[c.k]}
      BY <1>0, <2>1, <2>2, <2>3 DEF OnWires, Wiring
    <2> QED
      BY <1>0, <2>4
  <1> QED
    BY <1>1, <1>2
\* Recalls stay of wires that had settled.
LEMMA RecallsKept ==
    ASSUME RecallsFollow, Asked, NEW r \in Open, r \in Requests, OnWires(r),
           task[r] \in LynxCalls /\ LynxCall[task[r]].kind = "request recall" => pc[r] # 1
    PROVE  RecallsFollow'
  <1> DEFINE c == LynxCall[task[r]]
  <1> SUFFICES ASSUME NEW k \in OutboundRecalls, doc'[k] \in {"requested", "accepted"}
               PROVE  doc'[WireOf[k]] \in {"settled", "recalled"}
    BY DEF RecallsFollow
  <1>0. /\ k \in WireDocs /\ WireOf[k] \in Outbound /\ k \notin Wires
        /\ Outbound \subseteq Wires /\ Inbound \subseteq Wires
        /\ \A l \in OutboundRecalls : WireOf[l] \in Outbound
    BY WireTypes
  <1>1. SUFFICES doc[WireOf[k]] \in {"settled", "recalled"}
    BY <1>0, SettledStays
  <1>2. CASE doc[k] \in {"requested", "accepted"}
    BY <1>2 DEF RecallsFollow
  <1>3. CASE doc[k] \notin {"requested", "accepted"}
    <2>1. \A D : WiresBut(D) => k \in D
      BY <1>0, <1>3 DEF WiresBut
    <2>2. task[r] \in LynxCalls
      BY <2>1 DEF OnWires
    <2>3. \A d, u, v : GoesTo(d, u, v) /\ d = k => doc[k] = u /\ doc'[k] = v
      BY DEF GoesTo
    <2>4. c.kind = "request recall" /\ c.w = WireOf[k]
      BY <1>0, <1>3, <2>1, <2>2, <2>3 DEF OnWires, Wiring
    <2> QED
      BY <2>2, <2>4 DEF Asked
  <1> QED
    BY <1>2, <1>3

\* The books stay tied to the wires.
LEMMA BooksKept ==
    ASSUME TypeOK, TypeOK', WiresTieToBooks, RecallsFollow, NEW r \in Requests, Commit(r), OnWires(r)
    PROVE  WiresTieToBooks'
  <1> DEFINE c == LynxCall[task[r]]  w == c.w  k == c.k  n == WireAmt[w]
             p == PostedFor(LynxCalls)  q == PostedFor(LynxCalls)'  f == doc  g == doc'
             i == IF task[r] \in LynxCalls THEN gl[r] ELSE 0
  <1>1. p \in Int /\ q = p + i /\ Books(f, journal, p) /\ i \in Int
    <2>1. p \in Int /\ q = p + i
      BY WireRows, ToldGrows
    <2> QED
      BY <2>1, TieIsBooks DEF TypeOK
  <1> SUFFICES Books(g, journal', q)
    BY TieIsBooks
  <1> HIDE DEF p, q
  <1>2. ASSUME NEW a \in Int, NEW b \in Int, NEW d \in Int, NEW e \in Int,
               OnTheWay(g) = OnTheWay(f) + a, Gone(g) = Gone(f) + b,
               Came(g) = Came(f) + d, Back(g) = Back(f) + e,
               BooksMove(a, b - d - e), i + (b - d - e) = 0
        PROVE  Books(g, journal', q)
    BY <1>1, <1>2, BooksFollow DEF BooksMove
  <1> HIDE DEF f, g, i
  <1>3. /\ \A D : WiresBut(D) => \A d \in WireDocs \ D : g[d] = f[d]
        /\ \A d, u, v : GoesTo(d, u, v) => f[d] = u /\ g[d] = v
    BY DEF WiresBut, GoesTo, f, g
  <1>4. /\ Outbound \subseteq WireDocs /\ Inbound \subseteq WireDocs /\ OutboundRecalls \subseteq WireDocs
        /\ Outbound \cap Inbound = {} /\ Outbound \cap OutboundRecalls = {}
        /\ Inbound \cap OutboundRecalls = {}
        /\ \A l \in Recalls : l \notin Outbound /\ l \notin Inbound
    BY WireTypes
  <1>5. ASSUME NEW D, WiresBut(D)
        PROVE  /\ D \cap Outbound = {} => OnTheWay(g) = OnTheWay(f) /\ Gone(g) = Gone(f)
               /\ D \cap Inbound = {} => Came(g) = Came(f)
               /\ D \cap OutboundRecalls = {} => Back(g) = Back(f)
    <2>1. \A d \in WireDocs \ D : f[d] = g[d]
      BY <1>3, <1>5
    <2> QED
      BY <1>4, <2>1, WiresStay
  <1>6. /\ OnTheWay(f) \in Int /\ Gone(f) \in Int /\ Came(f) \in Int /\ Back(f) \in Int
        /\ 0 \in Int
    BY WireSums
  <1>7. ASSUME NEW x \in Outbound, NEW D, WiresBut(D), D \cap Outbound \subseteq {x}
        PROVE  /\ OnTheWay(g) = OnTheWay(f) + ((IF g[x] = "sent" THEN WireAmt[x] ELSE 0)
                                                 - (IF f[x] = "sent" THEN WireAmt[x] ELSE 0))
               /\ Gone(g) = Gone(f) + ((IF g[x] \in {"settled", "recalled"} THEN WireAmt[x] ELSE 0)
                                         - (IF f[x] \in {"settled", "recalled"} THEN WireAmt[x] ELSE 0))
    <2>1. \A d \in Outbound \ {x} : f[d] = g[d]
      BY <1>3, <1>4, <1>7
    <2> QED
      BY <2>1, OutboundMoves
  <1>8. ASSUME task[r] \notin LynxCalls PROVE Books(g, journal', q)
    <2>1. WiresBut({}) /\ BooksMove(0, 0) /\ i = 0
      BY <1>8 DEF OnWires, i
    <2>2. OnTheWay(g) = OnTheWay(f) /\ Gone(g) = Gone(f) /\ Came(g) = Came(f) /\ Back(g) = Back(f)
      BY <1>5, <2>1
    <2>3. /\ OnTheWay(g) = OnTheWay(f) + 0 /\ Gone(g) = Gone(f) + 0
          /\ Came(g) = Came(f) + 0 /\ Back(g) = Back(f) + 0
          /\ 0 - 0 - 0 = 0 /\ i + (0 - 0 - 0) = 0
      BY <1>6, <2>1, <2>2
    <2> QED
      BY <1>2, <1>6, <2>1, <2>3
  <1>9. ASSUME task[r] \in LynxCalls, w \in Outbound, NEW a \in Int, NEW b \in Int,
               Wiring(r, {w}, a, b),
               OnTheWay(g) = OnTheWay(f) + a, Gone(g) = Gone(f) + b
        PROVE  Books(g, journal', q)
    <2>1. WiresBut({w}) /\ BooksMove(a, b) /\ i + b = 0
      BY <1>9 DEF Wiring, i
    <2>2. Came(g) = Came(f) + 0 /\ Back(g) = Back(f) + 0
      BY <1>4, <1>5, <1>6, <1>9, <2>1
    <2>3. b - 0 - 0 = b
      OBVIOUS
    <2> QED
      BY <1>2, <1>6, <1>9, <2>1, <2>2, <2>3
  <1>10. ASSUME task[r] \in LynxCalls, w \in Inbound, NEW D, NEW b \in Int, NEW d \in Int,
                Wiring(r, D, 0, b), D \cap Outbound = {}, D \cap OutboundRecalls = {},
                Came(g) = Came(f) + d, b + d = 0
         PROVE  Books(g, journal', q)
    <2>1. WiresBut(D) /\ BooksMove(0, b) /\ i + b = 0
      BY <1>10 DEF Wiring, i
    <2>2. OnTheWay(g) = OnTheWay(f) + 0 /\ Gone(g) = Gone(f) + 0 /\ Back(g) = Back(f) + 0
      BY <1>5, <1>6, <1>10, <2>1
    <2>3. 0 - d - 0 = b
      BY <1>10
    <2> QED
      BY <1>2, <1>6, <1>10, <2>1, <2>2, <2>3
  <1>11. ASSUME task[r] \in LynxCalls, NEW D, NEW b \in Int, NEW e \in Int,
                Wiring(r, D, 0, b), D \cap Inbound = {},
                OnTheWay(g) = OnTheWay(f), Gone(g) = Gone(f), Back(g) = Back(f) + e, b + e = 0
         PROVE  Books(g, journal', q)
    <2>1. WiresBut(D) /\ BooksMove(0, b) /\ i + b = 0
      BY <1>11 DEF Wiring, i
    <2>2. OnTheWay(g) = OnTheWay(f) + 0 /\ Gone(g) = Gone(f) + 0 /\ Came(g) = Came(f) + 0
      BY <1>5, <1>6, <1>11, <2>1
    <2>3. 0 - 0 - e = b
      BY <1>11
    <2> QED
      BY <1>2, <1>6, <1>11, <2>1, <2>2, <2>3
  <1>12. /\ w \in Outbound \/ w \in Inbound => n \in Int /\ -n \in Int
         /\ k \in OutboundRecalls => /\ RecallAmt[k] \in Int /\ -RecallAmt[k] \in Int
                                     /\ WireOf[k] \in Outbound
    BY WireSums, WireTypes
  <1>20. CASE task[r] \in LynxCalls
    <2>1. CASE w \in Outbound /\ GoesTo(w, Absent, "sent") /\ Wiring(r, {w}, n, 0)
      <3>1. /\ f[w] = Absent /\ g[w] = "sent" /\ WiresBut({w}) /\ Absent # "sent"
            /\ Absent \notin {"settled", "recalled"} /\ "sent" \notin {"settled", "recalled"}
        BY <1>3, <2>1, WireStatuses DEF Wiring
      <3>2. OnTheWay(g) = OnTheWay(f) + (n - 0) /\ Gone(g) = Gone(f) + (0 - 0)
        BY <1>7, <2>1, <3>1
      <3> HIDE DEF n
      <3>3. OnTheWay(g) = OnTheWay(f) + n /\ Gone(g) = Gone(f) + 0
        BY <1>12, <2>1, <3>2
      <3> QED
        BY <1>6, <1>9, <1>12, <1>20, <2>1, <3>3
    <2>2. CASE w \in Outbound /\ GoesTo(w, "sent", "settled") /\ Wiring(r, {w}, -n, n)
      <3>1. f[w] = "sent" /\ g[w] = "settled" /\ WiresBut({w})
        BY <1>3, <2>2 DEF Wiring
      <3>2. OnTheWay(g) = OnTheWay(f) + (0 - n) /\ Gone(g) = Gone(f) + (n - 0)
        BY <1>7, <2>2, <3>1
      <3> HIDE DEF n
      <3>3. OnTheWay(g) = OnTheWay(f) + (-n) /\ Gone(g) = Gone(f) + n
        BY <1>12, <2>2, <3>2
      <3> QED
        BY <1>6, <1>9, <1>12, <1>20, <2>2, <3>3
    <2>3. CASE w \in Outbound /\ GoesTo(w, "sent", "rejected") /\ Wiring(r, {w}, -n, 0)
      <3>1. f[w] = "sent" /\ g[w] = "rejected" /\ WiresBut({w})
        BY <1>3, <2>3 DEF Wiring
      <3>2. OnTheWay(g) = OnTheWay(f) + (0 - n) /\ Gone(g) = Gone(f) + (0 - 0)
        BY <1>7, <2>3, <3>1
      <3> HIDE DEF n
      <3>3. OnTheWay(g) = OnTheWay(f) + (-n) /\ Gone(g) = Gone(f) + 0
        BY <1>12, <2>3, <3>2
      <3> QED
        BY <1>6, <1>9, <1>12, <1>20, <2>3, <3>3
    <2>4. CASE w \in Inbound /\ GoesTo(w, Absent, "settled") /\ Wiring(r, {w}, 0, -n)
      <3>1. f[w] = Absent /\ g[w] = "settled" /\ WiresBut({w}) /\ Absent # "settled"
        BY <1>3, <2>4, WireStatuses DEF Wiring
      <3>2. \A d \in Inbound \ {w} : f[d] = g[d]
        BY <1>3, <1>4, <3>1
      <3>3. Came(g) = Came(f) + (n - 0)
        BY <2>4, <3>1, <3>2, InboundMoves
      <3>4. {w} \cap Outbound = {} /\ {w} \cap OutboundRecalls = {}
        BY <1>4, <2>4
      <3> HIDE DEF n
      <3>5. Came(g) = Came(f) + n /\ -n + n = 0
        BY <1>12, <2>4, <3>3
      <3> QED
        BY <1>6, <1>10, <1>12, <1>20, <2>4, <3>4, <3>5
    <2>5. CASE /\ k \in OutboundRecalls /\ Wiring(r, {k}, 0, 0)
               /\ GoesTo(k, Absent, "requested") \/ GoesTo(k, "requested", "rejected")
      <3>1. f[k] # "accepted" /\ g[k] # "accepted" /\ WiresBut({k})
        BY <1>3, <2>5, WireStatuses DEF Wiring
      <3>2. \A d \in OutboundRecalls \ {k} : f[d] = g[d]
        BY <1>3, <1>4, <3>1
      <3>3. Back(g) = Back(f) + (0 - 0)
        BY <2>5, <3>1, <3>2, RecallMoves
      <3>4. {k} \cap Outbound = {} /\ {k} \cap Inbound = {}
        BY <1>4, <2>5
      <3>5. OnTheWay(g) = OnTheWay(f) /\ Gone(g) = Gone(f) /\ Back(g) = Back(f) + 0 /\ 0 + 0 = 0
        BY <1>5, <3>1, <3>3, <3>4
      <3> QED
        BY <1>6, <1>11, <1>20, <2>5, <3>4, <3>5
    <2>6. CASE /\ k \in OutboundRecalls /\ GoesTo(k, "requested", "accepted")
               /\ doc'[WireOf[k]] = "recalled" /\ Wiring(r, {k, WireOf[k]}, 0, -RecallAmt[k])
      <3> DEFINE x == WireOf[k]  y == RecallAmt[k]  D == {k, x}
      <3>1. f[k] = "requested" /\ g[k] = "accepted" /\ WiresBut(D) /\ x \in Outbound
        BY <1>3, <1>12, <2>6 DEF Wiring
      <3>2. f[x] \in {"settled", "recalled"} /\ g[x] = "recalled"
        BY <2>6, <3>1 DEF RecallsFollow, f, g
      <3>3. D \cap Outbound \subseteq {x} /\ D \cap Inbound = {} /\ D \cap OutboundRecalls \subseteq {k}
        BY <1>4, <2>6, <3>1
      <3>4. \A d \in OutboundRecalls \ {k} : f[d] = g[d]
        BY <1>3, <1>4, <3>1, <3>3
      <3>5. Back(g) = Back(f) + (y - 0)
        BY <2>6, <3>1, <3>4, RecallMoves, ZenonT(40)
      <3>6. /\ OnTheWay(g) = OnTheWay(f) + (0 - 0)
            /\ Gone(g) = Gone(f) + (WireAmt[x] - WireAmt[x])
        BY <1>7, <3>1, <3>2, <3>3
      <3>7. WireAmt[x] \in Int /\ y \in Int /\ -y \in Int
        BY <1>12, <2>6, <3>1, WireTypes
      <3>8. Wiring(r, D, 0, -y)
        BY <2>6
      <3> HIDE DEF x, y, D
      <3>9. OnTheWay(g) = OnTheWay(f) /\ Gone(g) = Gone(f) /\ Back(g) = Back(f) + y /\ -y + y = 0
        BY <1>6, <3>5, <3>6, <3>7
      <3> QED
        BY <1>11, <1>20, <3>3, <3>7, <3>8, <3>9
    <2>7. CASE /\ w \in Inbound /\ k \in Recalls \ OutboundRecalls
               /\ GoesTo(w, "settled", "settled") /\ Wiring(r, {w, k}, 0, 0)
      <3>1. f[w] = "settled" /\ g[w] = "settled" /\ WiresBut({w, k})
        BY <1>3, <2>7 DEF Wiring
      <3>2. {w, k} \cap Outbound = {} /\ {w, k} \cap OutboundRecalls = {} /\ k \notin Inbound
        BY <1>4, <2>7
      <3>3. \A d \in Inbound \ {w} : f[d] = g[d]
        BY <1>3, <1>4, <3>1, <3>2
      <3>4. Came(g) = Came(f) + (n - n)
        BY <2>7, <3>1, <3>3, InboundMoves
      <3> HIDE DEF n
      <3>5. Came(g) = Came(f) + 0 /\ 0 + 0 = 0
        BY <1>12, <2>7, <3>4
      <3> QED
        BY <1>6, <1>10, <1>20, <2>7, <3>2, <3>5
    <2>8. CASE /\ w \in Inbound /\ k \in Recalls \ OutboundRecalls
               /\ GoesTo(w, "settled", "recalled") /\ Wiring(r, {w, k}, 0, n)
      <3>1. f[w] = "settled" /\ g[w] = "recalled" /\ WiresBut({w, k})
        BY <1>3, <2>8 DEF Wiring
      <3>2. {w, k} \cap Outbound = {} /\ {w, k} \cap OutboundRecalls = {} /\ k \notin Inbound
        BY <1>4, <2>8
      <3>3. \A d \in Inbound \ {w} : f[d] = g[d]
        BY <1>3, <1>4, <3>1, <3>2
      <3>4. Came(g) = Came(f) + (0 - n)
        BY <2>8, <3>1, <3>3, InboundMoves
      <3> HIDE DEF n
      <3>5. Came(g) = Came(f) + (-n) /\ n + (-n) = 0
        BY <1>12, <2>8, <3>4
      <3> QED
        BY <1>6, <1>10, <1>12, <1>20, <2>8, <3>2, <3>5
    <2> QED
      BY <1>20, <2>1, <2>2, <2>3, <2>4, <2>5, <2>6, <2>7, <2>8, ZenonT(40) DEF OnWires
  <1> QED
    BY <1>8, <1>20
\* request_recall looks at the wire first,
LEMMA RecallAsks == ASSUME NEW c PROVE RequestRecall(c)[1] = OnDoc("expect", c.w, "settled", Blank)
  <1> DEFINE x == OpenRecall[c.w]
  <1>1. RequestRecall(c) =
          << OnDoc("expect", c.w, "settled", Blank), OnDoc("expect", x, Absent, Blank),
             OnDoc("insert", x, Absent, "requested"), OnDoc("insert", c.k, Absent, "requested") >>
            \o << Do("commit", NoOne, 0) >>
    BY DEF RequestRecall, Completed
  <1> QED
    BY <1>1, HeadOfFive

\* in any call.
LEMMA AsksFirst ==
    ASSUME NEW t \in LynxCalls, LynxCall[t].kind = "request recall"
    PROVE  LET s == Script[t][1] IN
           s.op = "expect" /\ s.row = LynxCall[t].w /\ s.was = "settled"
  <1> DEFINE c == LynxCall[t]
  <1>1. Script[t] = LynxScript(c)
    BY WireCallFields
  <1>2. LynxScript(c) = RequestRecall(c)
    BY DEF LynxScript
  <1>3. Script[t][1] = OnDoc("expect", c.w, "settled", Blank)
    <2> HIDE DEF c
    <2> QED
      BY <1>1, <1>2, RecallAsks
  <1> DEFINE a == OnDoc("expect", c.w, "settled", Blank)
  <1>4. a.op = "expect" /\ a.row = c.w /\ a.was = "settled"
    BY DEF OnDoc, Stmt
  <1> HIDE DEF a
  <1> QED
    BY <1>3, <1>4 DEF a

\* What a request has asked stays answered.
LEMMA AskedKept ==
    ASSUME TypeOK, Unlocked, Asked, [Next]_vars,
           \A w \in Outbound : doc[w] \in {"settled", "recalled"} => doc'[w] \in {"settled", "recalled"}
    PROVE  Asked'
  <1> SUFFICES ASSUME NEW q \in Requests, outcome'[q] = "open", task'[q] \in LynxCalls,
                      LynxCall[task'[q]].kind = "request recall", pc'[q] # 1
               PROVE  doc'[LynxCall[task'[q]].w] \in {"settled", "recalled"}
    BY DEF Asked, Open
  <1>1. LynxCall[task'[q]].w \in Outbound
    BY WireCallFields
  <1>2. CASE outcome[q] = "open" /\ task'[q] = task[q] /\ pc[q] # 1
    BY <1>1, <1>2 DEF Asked, Open
  <1>3. CASE UNCHANGED vars
    BY <1>2, <1>3 DEF vars
  <1>4. ASSUME NEW r \in Requests, NEW t \in Tasks, Begin(r, t)
        PROVE  doc'[LynxCall[task'[q]].w] \in {"settled", "recalled"}
    <2>1. q # r
      BY <1>4 DEF Begin, TypeOK
    <2> QED
      BY <1>2, <1>4, <2>1 DEF Begin, TypeOK
  <1>5. ASSUME NEW r \in Requests, NEW how, how # "open", Finish(r, how)
        PROVE  doc'[LynxCall[task'[q]].w] \in {"settled", "recalled"}
    <2>1. q # r
      BY <1>5 DEF Finish, TypeOK
    <2> QED
      BY <1>2, <1>5, <2>1 DEF Finish, TypeOK
  <1>6. ASSUME NEW r \in Requests, Abort(r)
        PROVE  doc'[LynxCall[task'[q]].w] \in {"settled", "recalled"}
    <2>1. Finish(r, "failed")
      BY <1>6 DEF Abort, Rollback
    <2> QED
      BY <1>5, <2>1
  <1>7. ASSUME NEW r \in Requests, Execute(r)
        PROVE  doc'[LynxCall[task'[q]].w] \in {"settled", "recalled"}
    <2>1. {} \in SUBSET Rows
      OBVIOUS
    <2>2. r \in Open /\ StepOf(r) /\ (Ran({}, r) \/ GaveUp(r) \/ Chose({}, r) \/ Commit(r))
      BY <1>7, <2>1, ExecuteStands
    <2>3. CASE q # r
      BY <1>2, <2>2, <2>3 DEF StepOf
    <2>4. CASE GaveUp(r)
      BY <1>5, <2>4 DEF GaveUp, Rollback
    <2>5. CASE Commit(r)
      BY <1>5, <2>5 DEF Commit
    <2>6. CASE q = r /\ (Ran({}, r) \/ Chose({}, r))
      <3>1. outcome[q] = "open" /\ task'[q] = task[q]
        BY <2>2, <2>6 DEF Ran, Advance, Chose, Open
      <3>2. CASE pc[q] # 1
        BY <1>2, <3>1, <3>2
      <3>3. CASE pc[q] = 1
        <4> DEFINE s == Upcoming(q)
        <4>1. s.op = "expect" /\ s.row = LynxCall[task[q]].w /\ s.was = "settled"
          BY <3>1, <3>3, AsksFirst DEF Upcoming
        <4>2. Expect(q)
          BY <1>7, <2>6, <4>1
             DEF Execute, Lock, Funds, WithinLimit, Expect, Find, Insert, Mark, Set, Ensure,
                 Sweep, NetOut, Tally, When, Hold, Floor, TriggerRead, TriggerWrite, Recompute,
                 RecomputeCard, UseLimit, PostGL, Commit, At
        <4>3. CASE doc[LynxCall[task[q]].w] = "settled"
          BY <1>1, <3>1, <4>3
        <4>4. CASE doc[LynxCall[task[q]].w] # "settled"
          <5>1. Finish(q, "refused")
            BY <4>1, <4>2, <4>4 DEF Expect, Require, Rollback
          <5> QED
            BY <1>5, <5>1
        <4> QED
          BY <4>3, <4>4
      <3> QED
        BY <3>2, <3>3
    <2> QED
      BY <2>2, <2>3, <2>4, <2>5, <2>6
  <1> QED
    BY <1>3, <1>4, <1>6, <1>7 DEF Next, Done
\* The properties hold at first.
LEMMA WiresSoundInit == ASSUME Init PROVE WiresSound
  <1>1. /\ doc = OpeningDoc /\ journal = NoEntries /\ \A r \in Requests : outcome[r] = "idle"
    BY DEF Init
  <1>2. RecallsFollow
    BY <1>1, WireRows DEF RecallsFollow
  <1>3. Asked
    BY <1>1 DEF Asked, Open
  <1>4. PostedFor(LynxCalls) = 0
    <2> DEFINE u == ToldOf(LynxCalls)
    <2>1. \A r \in Requests : u[r] = 0
      BY <1>1 DEF ToldOf
    <2> HIDE DEF u
    <2>2. SumOver(Requests, u) = 0
      BY <2>1, WireRows, SumZero
    <2> QED
      BY <2>2 DEF PostedFor, ToldOf, u
  <1>5. Books(doc, journal, PostedFor(LynxCalls))
    <2>1. journal[WClr] = 0 /\ journal[WStl] = 0
      BY <1>1, WireTypes
    <2>2. /\ OnTheWay(OpeningDoc) \in Int /\ Gone(OpeningDoc) \in Int
          /\ Came(OpeningDoc) \in Int /\ Back(OpeningDoc) \in Int
      BY WireSums
    <2> DEFINE n == journal[WStl]  p == PostedFor(LynxCalls)
               g == Gone(OpeningDoc)  i == Came(OpeningDoc)  k == Back(OpeningDoc)
    <2>3. (g - g) - (i - i) - (k - k) = 0
      <3> HIDE DEF g, i, k
      <3>1. g \in Int /\ i \in Int /\ k \in Int
        BY <2>2 DEF g, i, k
      <3> QED
        BY <3>1
    <2>4. OnTheWay(OpeningDoc) - OnTheWay(OpeningDoc) = 0
      BY <2>2
    <2>5. p = -n
      <3>1. n = 0 /\ p = 0
        BY <1>4, <2>1
      <3> HIDE DEF n, p
      <3>2. n \in Int
        BY <3>1
      <3>3. -n = 0 - n
        BY <3>2
      <3> QED
        BY <3>1, <3>3
    <2> QED
      BY <1>1, <2>1, <2>3, <2>4, <2>5 DEF Books
  <1>6. WiresTieToBooks
    BY <1>5, TieIsBooks
  <1> QED
    BY <1>2, <1>3, <1>6 DEF WiresSound

\* Every step keeps them.
LEMMA WiresSoundNext ==
    ASSUME WiresApart, NEW H, \A t \in Tasks : H[t] = WireEnd(t),
           StandsInv(WireDocs, H), TypeOK', WiresSound, [Next]_vars
    PROVE  WiresSound'
  <1>0. TypeOK /\ Unlocked /\ WiresTieToBooks /\ RecallsFollow /\ Asked
    BY DEF StandsInv, WiresSound
  <1>1. ASSUME NEW r \in Requests, Commit(r) PROVE OnWires(r)
    BY <1>1, CommitOnWires
  <1>2. (\E r \in Requests : Commit(r)) \/ UNCHANGED << row, doc, journal >>
    BY OnlyCommits
  <1>3. (\E r \in Requests : Commit(r)) \/ PostedStay
    BY <1>0, OnlyCommitsPost
  <1>4. \A w \in Outbound : doc[w] \in {"settled", "recalled"} => doc'[w] \in {"settled", "recalled"}
    BY <1>0, <1>1, <1>2, SettledStays
  <1>5. Asked'
    BY <1>0, <1>4, AskedKept
  <1>6. ASSUME NEW r \in Requests, Commit(r) PROVE WiresTieToBooks' /\ RecallsFollow'
    <2>1. OnWires(r)
      BY <1>1, <1>6
    <2>2. r \in Open /\ Upcoming(r).op = "commit"
      BY <1>6 DEF Commit, At, Open
    <2>3. task[r] \in LynxCalls /\ LynxCall[task[r]].kind = "request recall" => pc[r] # 1
      BY <2>2, AsksFirst DEF Upcoming
    <2>4. WiresTieToBooks'
      BY <1>0, <1>6, <2>1, BooksKept
    <2>5. RecallsFollow'
      BY <1>0, <2>1, <2>2, <2>3, RecallsKept
    <2> QED
      BY <2>4, <2>5
  <1>7. CASE UNCHANGED << row, doc, journal >> /\ PostedStay
    <2>1. RecallsFollow'
      BY <1>0, <1>7 DEF RecallsFollow
    <2>2. PostedFor(LynxCalls)' = PostedFor(LynxCalls)
      <3>1. ToldOf(LynxCalls)' = ToldOf(LynxCalls)
        BY <1>7 DEF PostedStay, ToldOf
      <3> QED
        BY <3>1 DEF PostedFor, ToldOf
    <2>3. WiresTieToBooks'
      BY <1>0, <1>7, <2>2, TieIsBooks
    <2> QED
      BY <1>5, <2>1, <2>3 DEF WiresSound
  <1> QED
    BY <1>2, <1>3, <1>5, <1>6, <1>7 DEF WiresSound

\* The books of the Lynx rail, and the core's Bank, follow the statuses of the
\* wires and of their recalls for any wires, accounts and number of requests, next
\* to calls of other rails that keep off them: a wire is settled or rejected and
\* credited once, and a recall that is accepted moves its money once.
THEOREM WiresTieToBooksAlways == WiresApart => (Spec => []WiresTieToBooks)
  <1> SUFFICES ASSUME WiresApart PROVE Spec => []WiresTieToBooks
    OBVIOUS
  <1> DEFINE H == [t \in Tasks |-> WireEnd(t)]
  <1>1. \A t \in Tasks : H[t] = WireEnd(t) /\ EndsIn(WireDocs, t, H[t])
    BY WiresEnd
  <1>2. WireDocs \in SUBSET Rows
    BY WireTypes
  <1> HIDE DEF H
  <1>3. /\ Init => StandsInv(WireDocs, H)
        /\ StandsInv(WireDocs, H) /\ [Next]_vars => StandsInv(WireDocs, H)'
    BY <1>1, <1>2, StandsInit, StandsNext
  <1>4. StandsInv(WireDocs, H)' => TypeOK'
    BY DEF StandsInv
  <1>5. StandsInv(WireDocs, H) /\ WiresSound /\ [Next]_vars => WiresSound'
    BY <1>1, <1>3, <1>4, WiresSoundNext
  <1>6. WiresSound => WiresTieToBooks
    BY DEF WiresSound
  <1> QED
    BY <1>3, <1>5, <1>6, WiresSoundInit, PTL DEF Spec
=============================================================================
