----------------------------- MODULE CardRails -----------------------------
(***************************************************************************)
(* The issuer side of the card network, handlers/cards.rs: authorize,      *)
(* capture, the settlement batch, and the payment of a card from a         *)
(* deposit account, as scripts over the subledger.                         *)
(*                                                                         *)
(* An authorization is a row of `account_holds`, "open" until a capture    *)
(* releases it; a purchase is the `transactions` row a capture inserts,    *)
(* "captured" until a batch tags it settled.  A card's balance is what is  *)
(* owed, so a charge credits the card and debits VISA_CLEARING.            *)
(***************************************************************************)
EXTENDS Subledger, Sums

CONSTANTS
    CardTasks,         \* the tasks of this module
    CardCalls,         \* CardCalls[t]: the call that task t stands for
    Clearing, Bank,    \* the VISA_CLEARING and BANK_SETTLEMENT accounts
    CardAccounts,      \* the credit cards
    Authorizations, Purchases,  \* the status rows
    CardOf, Stake,     \* the card of an authorization, the amount of each row
    IdOrder            \* the order of the account ids

CardCall == [kind : {"authorize", "capture", "settle", "payment"},
             card : CardAccounts, from : Accounts, amt : Nat,
             auth : Authorizations, purchase : Purchases]

\* A capture takes the card and the amount from the hold that it releases.
ASSUME CardCallsAssumption ==
    /\ CardCalls \in [CardTasks -> CardCall]
    /\ Authorizations \cup Purchases \subseteq Docs
    /\ Authorizations \cap Purchases = {}
    /\ CardAccounts \cup {Clearing, Bank} \subseteq Accounts
    /\ IdOrder \in [Accounts -> Nat]
    /\ CardOf \in [Authorizations -> CardAccounts]
    /\ Stake \in [Authorizations \cup Purchases -> Nat]
    /\ \A t \in CardTasks : LET c == CardCalls[t] IN
         /\ c.kind \in {"authorize", "capture"} =>
              c.card = CardOf[c.auth] /\ c.amt = Stake[c.auth]
         /\ c.kind = "capture" => c.amt = Stake[c.purchase]
         /\ c.kind = "payment" => c.from \notin CardAccounts

StakesIn(status, S, statuses) ==
    SumOver(S, [d \in S |-> IF status[d] \in statuses THEN Stake[d] ELSE 0])
HoldsOf(c) == {d \in Authorizations : CardOf[d] = c}

\* The statuses a row can have here.  A card opens within its limit, its
\* available credit and what is held on it as the code derives them.
ASSUME CardRows ==
    /\ \A S \in {Requests, CardAccounts, Authorizations} : IsFiniteSet(S)
    /\ {"open", "released", "captured", "settled"} \subseteq STRING \ {Absent}
    /\ {Clearing, Bank} \cap CardAccounts = {}
    /\ \A c \in CardAccounts : LET x == OpeningRow[c] IN
         /\ x.bal + x.held <= Overdraft[c] /\ x.avail = Overdraft[c] - x.bal - x.held
         /\ x.held = StakesIn(OpeningDoc, HoldsOf(c), {"open"})
-----------------------------------------------------------------------------
(* The scripts. *)

\* The legs of one INSERT of entries; the trigger fires on each in turn.
Leg(a, n, tag) == << Do("read", a, 0), Stmt("write", a, n, Blank, tag) >>

\* The amount of a GL entry is what it adds to the CardReceivable role.
Receivable(n) == << Do("gl", NoOne, n) >>
CommitIt == << Do("commit", NoOne, 0) >>

\* Mutant: the credit is checked before the card's row is locked.
AuthorizeUnlocked(c) ==
    << Do("funds", c.card, c.amt),
       Do("lock", c.card, 0),
       OnDoc("insert", c.auth, Absent, "open"),
       Do("hold", c.card, c.amt),
       Do("recard", c.card, 0) >>
    \o CommitIt

\* No money moves: the hold shrinks the available credit.
Authorize(c) ==
    << Do("lock", c.card, 0),
       Do("funds", c.card, c.amt),
       OnDoc("insert", c.auth, Absent, "open"),
       Do("hold", c.card, c.amt),
       Do("recard", c.card, 0) >>
    \o CommitIt

\* Mutants: VISA_CLEARING is locked first; the hold stays;
\* the interchange entry debits CardReceivable again.
CaptureLocksClearingFirst(c) == << Do("lock", Clearing, 0), Do("lock", c.card, 0) >>
KeepHold(c) == << Do("recard", c.card, 0) >>
BookTwice(c) == Receivable(c.amt) \o Receivable(c.amt)

CaptureLocks(c) == << Do("lock", c.card, 0), Do("lock", Clearing, 0) >>

ReleaseHold(c) == << Do("hold", c.card, -c.amt), Do("recard", c.card, 0) >>

\* The purchase, and a second entry for the interchange it earns.
BookPurchase(c) == Receivable(c.amt) \o Receivable(0)

\* The charge posts, the hold goes.
Capture(c) ==
    << OnDoc("mark", c.auth, "open", "released") >>
    \o CaptureLocks(c)
    \o << OnDoc("insert", c.purchase, Absent, "captured") >>
    \o Leg(c.card, c.amt, Blank) \o Leg(Clearing, -c.amt, Blank)
    \o ReleaseHold(c)
    \o BookPurchase(c)
    \o CommitIt

\* Mutant: the net amount is read before the clearing account is locked.
NetUnlocked(c) ==
    << Do("net", Clearing, 0),
       Do("lock", Clearing, 0),
       Do("lock", Bank, 0) >>

NetClearing(c) ==
    << Do("lock", Clearing, 0),
       Do("lock", Bank, 0),
       Do("net", Clearing, 0) >>

\* The batch pays the network what the clearing account owes it and tags every
\* purchase not yet settled.
Settle(c) ==
    NetClearing(c)
    \o Leg(Clearing, 1, ByNet) \o Leg(Bank, -1, ByNet)
    \o << Stmt("sweep", NoOne, 0, "captured", "settled") >>
    \o Receivable(0)
    \o CommitIt

\* Both the deposit account and the card are debited, and VISA_CLEARING takes
\* the balancing credit of twice the amount; only the first two are locked.
PayCard(c) ==
    (IF IdOrder[c.from] < IdOrder[c.card]
     THEN << Do("lock", c.from, 0), Do("lock", c.card, 0) >>
     ELSE << Do("lock", c.card, 0), Do("lock", c.from, 0) >>)
    \o << Do("funds", c.from, c.amt),
          OnMeter("limit", c.from, c.amt, "withdrawal"),
          Do("floor", c.from, 0) >>
    \o Leg(c.from, -c.amt, Blank) \o Leg(c.card, -c.amt, Blank)
    \o Leg(Clearing, 2 * c.amt, Blank)
    \o << Do("recompute", c.from, 0),
          Do("recard", c.card, 0),
          OnMeter("use", c.from, c.amt, "withdrawal") >>
    \o Receivable(-c.amt)
    \o CommitIt

CardScript(c) ==
    CASE c.kind = "authorize" -> Authorize(c)
      [] c.kind = "capture"   -> Capture(c)
      [] c.kind = "settle"    -> Settle(c)
      [] c.kind = "payment"   -> PayCard(c)

ASSUME CardScriptsAssumption ==
    /\ CardTasks \subseteq Tasks
    /\ \A t \in CardTasks : Script[t] = CardScript(CardCalls[t])
-----------------------------------------------------------------------------
(* Properties. *)

PostedCall(kind) ==
    {r \in Requests : outcome[r] = "posted" /\ task[r] \in CardTasks
                       /\ CardCalls[task[r]].kind = kind}

\* What a card owes plus what is authorized on it never exceeds its limit,
\* whatever authorizations race each other and the captures.
CreditWithinLimit ==
    \A c \in CardAccounts :
        /\ row[c].bal + row[c].held <= Overdraft[c]
        /\ row[c].avail = Overdraft[c] - row[c].bal - row[c].held

\* The credit set aside on a card is that of its open authorizations: a
\* capture gives back what it charges and nothing else does.
HeldIsOpenAuthorizations ==
    \A c \in CardAccounts :
        row[c].held = StakesIn(doc, HoldsOf(c), {"open"})

\* An authorization is charged once, when it is released, however many times
\* the network presents it.
CapturedOnce ==
    \A d \in Authorizations :
        LET charges == {r \in PostedCall("capture") : CardCalls[task[r]].auth = d}
        IN  IF doc[d] = "released" /\ OpeningDoc[d] # "released"
            THEN Cardinality(charges) = 1 ELSE charges = {}

\* The cards' balances and the CardReceivable role of the core move together.
CardsTieToGL ==
    SumOver(CardAccounts, [c \in CardAccounts |-> row[c].bal - OpeningRow[c].bal])
        = SumOver(Requests, [r \in Requests |->
                    IF outcome[r] = "posted" /\ task[r] \in CardTasks THEN gl[r] ELSE 0])

\* VISA_CLEARING carries the purchases not yet settled, and the bank has paid
\* the network for exactly those tagged settled.
SettlementCoversCaptures ==
    /\ row[Clearing].bal - OpeningRow[Clearing].bal
         = -StakesIn(doc, Purchases, {"captured"})
    /\ row[Bank].bal - OpeningRow[Bank].bal
         = -StakesIn(doc, Purchases, {"settled"})

\* Until a card is paid, which credits VISA_CLEARING for no purchase, that is
\* so however captures and batches race.
SettlementUntilPaid == PostedCall("payment") = {} => SettlementCoversCaptures
=============================================================================
