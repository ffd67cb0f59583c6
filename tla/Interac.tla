------------------------------ MODULE Interac ------------------------------
(***************************************************************************)
(* Interac e-Transfers, handlers/interac.rs over rails/interac.rs: a send  *)
(* holds the sender's money in INTERAC_CLEARING until the recipient claims *)
(* it or it goes back, unless the recipient's handle takes deposits        *)
(* automatically.                                                          *)
(*                                                                         *)
(* An e-Transfer is three status rows: its own, that of its security       *)
(* question (Absent or "asked") and the count of wrong answers.  A handle  *)
(* is Absent, "manual" (registered with no account to deposit to) or       *)
(* "auto".                                                                 *)
(***************************************************************************)
EXTENDS Rails

CONSTANTS
    Transfers, Handles,  \* status rows
    Question, Strikes,   \* Question[e], Strikes[e]: the other rows of e
    Amt, From, HandleOf, \* of e: amount, account it is held from, handle
    DepositOf,           \* DepositOf[h]: the account of an automatic deposit
    InteracRail, Cash, EtransferFee,
    InteracCalls,        \* the tasks of this module
    Call                 \* Call[t]: the call that task t stands for

CallKinds == {"send", "claim", "guess", "decline", "cancel", "settled", "turned",
              "inbound", "expire", "register", "deregister"}

\* A claim with the right answer and a guess, a claim with a wrong one, name
\* the account to deposit to; the network's answer is "settled" or "turned".
EtransferCall == [kind : CallKinds, e : Transfers, to : Accounts]

ASSUME InteracAssumption ==
    /\ Call \in [InteracCalls -> EtransferCall]
    /\ {InteracRail.clearing, InteracRail.settlement, Cash} \subseteq SystemAccounts
    /\ InteracRail \in Rail /\ Cash \in Accounts /\ EtransferFee \in Nat
    /\ Transfers \cup Handles \subseteq Docs
    /\ Amt \in [Transfers -> Nat \ {0}] /\ From \in [Transfers -> Accounts]
    /\ HandleOf \in [Transfers -> Handles] /\ DepositOf \in [Handles -> Accounts]
    /\ Question \in [Transfers -> Docs] /\ Strikes \in [Transfers -> Docs]

\* The statuses an e-Transfer has, from its insert on.
EtransferStatuses ==
    {"held", "available", "deposited", "declined", "cancelled", "expired", "failed"}

\* Each row is of one table; a claim and an automatic deposit go to an account of
\* a customer; what comes from the network is held from INTERAC_SETTLEMENT.
ASSUME EtransferRows ==
    /\ InteracRail.clearing # InteracRail.settlement
    /\ EtransferStatuses \subseteq STRING \ {Absent}
    /\ Transfers \cap Handles = {}
    /\ \A e \in Transfers : {Question[e], Strikes[e]} \cap Transfers = {}
    /\ \A h \in Handles : DepositOf[h] \notin SystemAccounts
    /\ \A t \in InteracCalls :
         /\ Call[t].to \notin SystemAccounts
         /\ Call[t].kind = "inbound" => From[Call[t].e] = InteracRail.settlement

-----------------------------------------------------------------------------
(* Sending. *)

\* charge_etransfer_fee: deferred when the sender's balance does not bear it;
\* EXTERNAL_CASH is not locked.
ChargeFee(a) ==
    IF EtransferFee = 0 THEN << >>
    ELSE If(a, "bears", EtransferFee,
            << Do("floor", a, 0) >> \o TwoLegs(a, Cash, EtransferFee)
                \o Refreshed(a) \o Core(0))

\* Mutant: the e-Transfer is inserted and its money stays the sender's.
DispatchUnheld(e, ask, route) ==
    Funded(From[e], Amt[e]) \o Refreshed(From[e])
        \o << OnDoc("insert", e, Absent, "held") >>
        \o ask \o route \o ChargeFee(From[e])

\* The transaction of send_resolved, up to and after its routing.
Dispatch(e, ask, route) ==
    Funded(From[e], Amt[e])
        \o HoldFor(InteracRail, From[e], Amt[e], 0)
        \o Refreshed(From[e])
        \o << OnDoc("insert", e, Absent, "held") >>
        \o ask \o route \o ChargeFee(From[e])

DepositInto(e, a) ==
    ReleaseTo(InteracRail, a, Amt[e], 0) \o Refreshed(a)
        \o << OnDoc("set", e, Blank, "deposited") >>
SetAvailable(e) == << OnDoc("set", e, Blank, "available") >>
AsksQuestion(e) == << OnDoc("set", Question[e], Blank, "asked") >>

\* send_resolved looks the handle up for itself, before it begins.
SendResolved(e, ask) ==
    IfElse(HandleOf[e], "auto", 0,
           Dispatch(e, ask, DepositInto(e, DepositOf[HandleOf[e]])),
           Dispatch(e, ask, SetAvailable(e)))

\* send_etransfer has looked it up already, to know whether to ask for a
\* security question; the request carries one.
Send(c) ==
    << OnDoc("find", c.e, Blank, Blank) >>
        \o IfElse(HandleOf[c.e], "auto", 0,
                  SendResolved(c.e, << >>),
                  SendResolved(c.e, AsksQuestion(c.e)))
        \o Completed

\* network_inbound: from the network into the account of the handle, or into
\* clearing until it is claimed.
NetworkInbound(c) ==
    LET e == c.e  a == DepositOf[HandleOf[e]] IN
        IfElse(HandleOf[e], "auto", 0,
               AcceptInbound(InteracRail, a, Amt[e], Amt[e])
                   \o << OnDoc("insert", e, Absent, "deposited") >> \o Refreshed(a),
               << OnDoc("expect", HandleOf[e], "manual", Blank) >>
                   \o HoldFor(InteracRail, InteracRail.settlement, Amt[e], 0)
                   \o << OnDoc("insert", e, Absent, "available") >>
                   \o AsksQuestion(e))
            \o Completed
-----------------------------------------------------------------------------
(* Resolving. *)

\* Mutant: the status is checked on a plain read.
LockAvailableLate(e) == << OnDoc("expect", e, "available", Blank) >>

\* lock_available: SELECT ... FOR UPDATE, then the status.
LockAvailable(e) == << OnDoc("mark", e, "available", "available") >>

\* A wrong answer counts, and the third one blocks the transfer.
Strike(e) ==
    IfElse(Strikes[e], "two", 0,
           << OnDoc("set", e, Blank, "failed"), OnDoc("set", Strikes[e], Blank, "three") >>,
           IfElse(Strikes[e], "one", 0,
                  << OnDoc("set", Strikes[e], Blank, "two") >>,
                  << OnDoc("set", Strikes[e], Blank, "one") >>))

Claim(c) == LockAvailable(c.e) \o DepositInto(c.e, c.to) \o Completed

\* A transfer without a question has no answer to get wrong.
Guess(c) ==
    LockAvailable(c.e)
        \o IfElse(Question[c.e], "asked", 0, Strike(c.e), DepositInto(c.e, c.to))
        \o Completed

\* Mutant: the account the money returns to is refreshed whatever it is.
GiveBackAnywhere(e, status) ==
    RefundTo(InteracRail, From[e], Amt[e], 0) \o Refreshed(From[e])
        \o << OnDoc("set", e, Blank, status) >>

\* The money returns to where it was held from: a customer, or for an inbound
\* transfer INTERAC_SETTLEMENT, whose available balance is not to be refreshed.
GiveBack(e, status) ==
    RefundTo(InteracRail, From[e], Amt[e], 0)
        \o (IF From[e] \in SystemAccounts THEN << >> ELSE Refreshed(From[e]))
        \o << OnDoc("set", e, Blank, status) >>

Decline(c) == LockAvailable(c.e) \o GiveBack(c.e, "declined") \o Completed
Cancel(c) == LockAvailable(c.e) \o GiveBack(c.e, "cancelled") \o Completed

\* network_settle, for a transfer to another bank.
SettleClaimed(c) ==
    LockAvailable(c.e)
        \o ReleaseTo(InteracRail, InteracRail.settlement, Amt[c.e], 0)
        \o << OnDoc("set", c.e, Blank, "deposited") >> \o Completed
SettleDeclined(c) ==
    LockAvailable(c.e) \o GiveBack(c.e, "declined") \o Completed

\* sweep_expired_inner, for one of the transfers its first read has found due.
Expire(c) ==
    << OnDoc("expect", c.e, "available", Blank) >>
        \o LockAvailable(c.e) \o GiveBack(c.e, "expired") \o Completed

\* register_autodeposit and deregister_autodeposit, one statement each.
Register(c) ==
    << OnDoc("insert", HandleOf[c.e], Absent, "auto") >> \o Completed
Deregister(c) ==
    << OnDoc("mark", HandleOf[c.e], "auto", Absent) >> \o Completed

InteracScript(c) ==
    CASE c.kind = "send"       -> Send(c)
      [] c.kind = "claim"      -> Claim(c)
      [] c.kind = "guess"      -> Guess(c)
      [] c.kind = "decline"    -> Decline(c)
      [] c.kind = "cancel"     -> Cancel(c)
      [] c.kind = "settled"    -> SettleClaimed(c)
      [] c.kind = "turned"     -> SettleDeclined(c)
      [] c.kind = "inbound"    -> NetworkInbound(c)
      [] c.kind = "expire"     -> Expire(c)
      [] c.kind = "register"   -> Register(c)
      [] c.kind = "deregister" -> Deregister(c)

ASSUME InteracScripts ==
    /\ InteracCalls \subseteq Tasks
    /\ \A t \in InteracCalls : Script[t] = InteracScript(Call[t])
-----------------------------------------------------------------------------
(* Properties. *)

\* No wrong answer goes uncounted, so three of them block a transfer however
\* the guesses race.
Count(s) == CASE s = "none" -> 0 [] s = "one" -> 1 [] s = "two" -> 2 [] s = "three" -> 3
WrongAnswersCounted ==
    \A e \in Transfers : doc[Question[e]] = "asked" =>
        Count(doc[Strikes[e]]) - Count(OpeningDoc[Strikes[e]])
            = Cardinality({r \in Requests : outcome[r] = "posted"
                              /\ Call[task[r]].kind = "guess" /\ Call[task[r]].e = e})

\* A transfer held for a claim can be claimed only with the answer to a
\* security question: "Non-autodeposit transfers require a security question".
HeldIsQuestioned ==
    \A e \in Transfers :
        doc[e] = "available" /\ From[e] \notin SystemAccounts => doc[Question[e]] = "asked"

\* Where the status of an e-Transfer says that its money is.
PlaceOf(status) ==
    CASE status = Absent -> "none"
      [] status = "available" -> "escrow"
      [] status = "deposited" -> "delivered"
      [] status \in {"declined", "cancelled", "expired"} -> "returned"
      [] status = "failed" -> "blocked"

AnyPayee == [e \in Transfers |-> Accounts \ {InteracRail.clearing}]

Promised == INSTANCE Escrow WITH
    Payments      <- Transfers,
    Payer         <- From,
    Payees        <- AnyPayee,
    EscrowAccount <- InteracRail.clearing,
    FeeAccount    <- Cash,
    Fee           <- EtransferFee,
    Opening       <- [e \in Transfers |-> PlaceOf(OpeningDoc[e])],
    place         <- [e \in Transfers |-> PlaceOf(doc[e])],
    books         <- journal

\* However sends, claims, guesses, answers of the network and sweeps race and
\* fail, an e-Transfer's money leaves the sender once and leaves the clearing
\* account once, for a payee or back to where it was held from.
ImplementsEscrow == Promised!Spec
=============================================================================
