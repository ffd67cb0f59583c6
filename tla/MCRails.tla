------------------------------ MODULE MCRails ------------------------------
(***************************************************************************)
(* An instance of Lynx, Aft and Loans together, over the accounts of alice *)
(* and bob.                                                                *)
(*                                                                         *)
(* Wires: one to send, one on its way, one settled with a recall asked     *)
(* for, one to come and one that came.  Batches: one cut, holding a credit *)
(* that alice can pay and a debit on bob, one open, holding a credit, and  *)
(* the next; a credit and a debit to originate, one of each settled        *)
(* before, one of each in the files of other banks.  Loans: two active,    *)
(* one approved, one to ask for.                                           *)
(***************************************************************************)
EXTENDS Lynx, Aft, Loans

CONSTANTS alice, bob, cash, lynxClearing, lynxSettlement, aftClearing, aftSettlement,
          owed, lent, other, third,          \* loan accounts
          toSend, onItsWay, gone, toCome, came,             \* wires
          asked, again, theirs,                             \* recalls
          cutBatch, openBatch, nextBatch,
          wage, draw, rent, bill, oldWage, oldDraw, credit, debit,  \* entries
          car, van, boat, house,                            \* loans
          mandate, index, filed, day, Names

TheOpenRecall == [w \in Outbound |-> <<index, w>>]
TheFiled == [e \in Originated |-> <<filed, e>>]
TheAccrued == [l \in LoanSet |-> <<day, l>>]
TheMandateOf == [e \in Debits |-> mandate]

TheDocs == Wires \cup Recalls \cup Batches \cup Entries \cup LoanSet \cup {mandate}
              \cup {TheOpenRecall[w] : w \in Outbound} \cup {TheFiled[e] : e \in Originated}
              \cup {TheAccrued[l] : l \in LoanSet}
TheOpeningDoc ==
    [d \in TheDocs |->
        CASE d = onItsWay -> "sent"
          [] d \in {gone, came, oldWage, oldDraw} -> "settled"
          [] d \in {asked, TheOpenRecall[gone]} -> "requested"
          [] d = cutBatch -> "submitted"
          [] d = openBatch -> "open"
          [] d \in {wage, draw} -> "cut"
          [] d = rent -> "first"
          [] d \in {TheFiled[e] : e \in {wage, draw, oldWage, oldDraw}} -> "filed"
          [] d \in {mandate, car, van} -> "active"
          [] d = boat -> "pending"
          [] d \in {TheAccrued[l] : l \in LoanSet} -> "due"
          [] OTHER -> Absent]

TheWireOf == [k \in Recalls |-> IF k = theirs THEN came ELSE gone]
TheWireAmt == [w \in Wires |-> IF w = onItsWay THEN 2 ELSE 1]
TheWireAccount == [w \in Wires |-> IF w \in {toCome, came} THEN bob ELSE alice]
TheLynxRail == [clearing |-> lynxClearing, settlement |-> lynxSettlement]

TheBatchName == (cutBatch :> "cut") @@ (openBatch :> "first") @@ (nextBatch :> "next")
TheEntryOrder == << wage, rent, draw, bill >>
TheEntryAmt == [e \in Entries |-> IF e \in {wage, draw, oldDraw} THEN 2 ELSE 1]
ThePayer == [e \in Entries |-> IF e \in Credits THEN alice ELSE bob]
ThePayee == [e \in Entries |-> IF e \in Debits THEN alice ELSE bob]
TheAftRail == [clearing |-> aftClearing, settlement |-> aftSettlement]

TheLoanAccount == (car :> owed) @@ (van :> lent) @@ (boat :> other) @@ (house :> third)
ThePrincipal == [l \in LoanSet |-> 2]
TheInterest == [l \in LoanSet |-> 1]
TheAccountId == [a \in Accounts |-> CASE a = owed -> 0 [] a = alice -> 1 [] OTHER -> 2]

TheOverdraft == [a \in Accounts |-> IF a \in {alice, bob} THEN 0 ELSE 100]
TheLimit == [a \in Accounts |-> [m \in Meters |-> 0]]
TheOpeningRow ==
    [a \in Accounts |->
        LET Opened(bal, avail) ==
                [bal |-> bal, avail |-> avail, held |-> 0, used |-> [m \in Meters |-> 0]]
        IN  CASE a = alice -> Opened(3, 3)
              [] a = bob -> Opened(1, 1)
              [] a = owed -> Opened(-2, 98)
              [] a = lent -> Opened(-1, 99)
              [] a \in {other, third} -> Opened(0, 0)
              [] a = lynxClearing -> Opened(2, 0)
              [] OTHER -> Opened(-3, 0)]

Wire(kind, w, k) == [kind |-> kind, w |-> w, k |-> k]
TheLynxCall ==
    [ send |-> Wire("initiate", toSend, asked), settle |-> Wire("settle wire", onItsWay, asked),
      stale |-> Wire("reject stale", onItsWay, asked),
      arrive |-> Wire("inbound wire", toCome, asked),
      ask |-> Wire("request recall", gone, again),
      refund |-> Wire("accepted", gone, asked), refundAgain |-> Wire("accepted", gone, again),
      keep |-> Wire("rejected", gone, asked),
      honour |-> Wire("honour recall", came, theirs),
      decline |-> Wire("decline recall", came, theirs) ]
Entry(kind, e) == [kind |-> kind, e |-> e, b |-> cutBatch]
Batch(kind, b) == [kind |-> kind, e |-> wage, b |-> b]
TheAftCall ==
    [ pay |-> Entry("originate", bill), cut |-> Batch("cut", openBatch),
      settleCut |-> Batch("settle batch", cutBatch), credited |-> Entry("receive", credit),
      debited |-> Entry("receive", debit), bounce |-> Entry("return", oldWage),
      dispute |-> Entry("return", oldDraw), revoke |-> Entry("revoke", bill) ]
Loan(kind, l, a, n) == [kind |-> kind, l |-> l, with |-> a, amt |-> n]
TheLoanCall ==
    [ apply |-> Loan("apply", house, alice, 0), disburse |-> Loan("disburse", boat, alice, 0),
      repay |-> Loan("repay", car, alice, 1), repayAll |-> Loan("repay", car, alice, 3),
      repayVan |-> Loan("repay", van, alice, 2), repayByVan |-> Loan("repay", car, lent, 3),
      repayBySelf |-> Loan("repay", car, owed, 1), accrue |-> Loan("accrue", car, alice, 0) ]

Calls(f) == [t \in DOMAIN f \cap Names |-> f[t]]
TheScript ==
    [t \in Names |-> CASE t \in DOMAIN TheLynxCall -> LynxScript(TheLynxCall[t])
                       [] t \in DOMAIN TheAftCall  -> AftScript(TheAftCall[t])
                       [] t \in DOMAIN TheLoanCall -> LoanScript(TheLoanCall[t])]

Interchangeable == Permutations(Requests)
\* What the configurations substitute: names for the definitions above, which
\* TLC then evaluates once.
SomeLynxCalls == Calls(TheLynxCall)
SomeAftCalls == Calls(TheAftCall)
SomeLoanCalls == Calls(TheLoanCall)
LynxNames == DOMAIN SomeLynxCalls
AftNames == DOMAIN SomeAftCalls
LoanNames == DOMAIN SomeLoanCalls
MCLynxCall == SomeLynxCalls
MCAftCall == SomeAftCalls
MCLoanCall == SomeLoanCalls
MCLynxCalls == LynxNames
MCAftCalls == AftNames
MCLoanCalls == LoanNames
MCScript == TheScript
MCDocs == TheDocs
MCOpeningDoc == TheOpeningDoc
MCOpeningRow == TheOpeningRow
MCOverdraft == TheOverdraft
MCLimit == TheLimit
MCOpenRecall == TheOpenRecall
MCWireOf == TheWireOf
MCWireAmt == TheWireAmt
MCWireAccount == TheWireAccount
MCLynxRail == TheLynxRail
MCBatchName == TheBatchName
MCFiled == TheFiled
MCEntryOrder == TheEntryOrder
MCEntryAmt == TheEntryAmt
MCPayer == ThePayer
MCPayee == ThePayee
MCMandateOf == TheMandateOf
MCAftRail == TheAftRail
MCLoanAccount == TheLoanAccount
MCPrincipal == ThePrincipal
MCInterest == TheInterest
MCAccountId == TheAccountId
MCAccrued == TheAccrued
=============================================================================
