-------------------------------- MODULE Lynx --------------------------------
(***************************************************************************)
(* Lynx wires, handlers/lynx.rs over rails/lynx.rs: a wire's money leaves  *)
(* the sender for LYNX_CLEARING, and clearing for the network when the     *)
(* network settles it.  Either side may then ask to have a settled wire    *)
(* recalled.                                                               *)
(*                                                                         *)
(* A wire is "sent", "settled", "rejected" or "recalled".  A recall is     *)
(* "requested", "accepted" or "rejected"; the index that admits one        *)
(* requested recall of a wire is a row of its own, OpenRecall[w].          *)
(***************************************************************************)
EXTENDS Rails

CONSTANTS
    Outbound, Inbound,   \* wires
    Recalls, OpenRecall, \* OpenRecall[w]: the index entry of wire w
    WireOf,              \* WireOf[k]: the wire that recall k is about
    WireAmt, WireAccount,\* of w: amount, the customer's account
    LynxRail, LynxCalls, LynxCall

Wires == Outbound \cup Inbound
LynxKinds == {"initiate", "settle wire", "inbound wire", "request recall",
              "accepted", "rejected", "honour recall", "decline recall", "reject stale"}
WireCall == [kind : LynxKinds, w : Wires, k : Recalls]

ASSUME LynxAssumption ==
    /\ LynxCall \in [LynxCalls -> WireCall]
    /\ LynxRail \in Rail
    /\ {LynxRail.clearing, LynxRail.settlement} \subseteq SystemAccounts
    /\ Wires \cup Recalls \subseteq Docs /\ Outbound \cap Inbound = {}
    /\ OpenRecall \in [Outbound -> Docs] /\ WireOf \in [Recalls -> Wires]
    /\ WireAmt \in [Wires -> Nat \ {0}] /\ WireAccount \in [Wires -> Accounts]

OutboundRecalls == {k \in Recalls : WireOf[k] \in Outbound}

\* The tables have rows of their own, a recall that was asked for is of a wire
\* that had settled, and a call is about a wire of the direction its handler
\* looks for.
ASSUME WireRows ==
    /\ \A S \in {Requests, Outbound, Inbound, Recalls} : IsFiniteSet(S)
    /\ {"sent", "settled", "rejected", "recalled", "requested", "accepted"} \subseteq STRING \ {Absent}
    /\ Wires \cap Recalls = {} /\ \A w \in Outbound : OpenRecall[w] \notin Wires \cup Recalls
    /\ LynxRail.clearing # LynxRail.settlement
    /\ \A w \in Wires : WireAccount[w] \notin {LynxRail.clearing, LynxRail.settlement}
    /\ \A k \in OutboundRecalls :
         OpeningDoc[k] \in {"requested", "accepted"} => OpeningDoc[WireOf[k]] \in {"settled", "recalled"}
    /\ \A t \in LynxCalls : LET c == LynxCall[t] IN
         /\ c.kind \in {"initiate", "settle wire", "request recall", "reject stale"} => c.w \in Outbound
         /\ c.kind \in {"inbound wire", "honour recall", "decline recall"} => c.w \in Inbound
         /\ c.kind \in {"request recall", "honour recall", "decline recall"} => WireOf[c.k] = c.w
         /\ c.kind \in {"accepted", "rejected"} => c.k \in OutboundRecalls
-----------------------------------------------------------------------------
(* The role of the core that is followed is Bank. *)

\* Mutant: the sender's available balance stays at zero.
InitiateUnrefreshed(c) ==
    LET a == WireAccount[c.w]  n == WireAmt[c.w] IN
        << OnDoc("find", c.w, Blank, Blank) >>
            \o Funded(a, n) \o HoldFor(LynxRail, a, n, 0)
            \o << OnDoc("insert", c.w, Absent, "sent") >>
            \o Completed

\* initiate_wire.
Initiate(c) ==
    LET a == WireAccount[c.w]  n == WireAmt[c.w] IN
        << OnDoc("find", c.w, Blank, Blank) >>
            \o Funded(a, n) \o HoldFor(LynxRail, a, n, 0) \o Refreshed(a)
            \o << OnDoc("insert", c.w, Absent, "sent") >>
            \o Completed

\* network_settle: finality.
SettleWire(c) ==
    << OnDoc("mark", c.w, "sent", "settled") >>
        \o ReleaseTo(LynxRail, LynxRail.settlement, WireAmt[c.w], -WireAmt[c.w])
        \o Completed

\* network_inbound: the credit comes before the insert that a redelivered wire
\* fails at.
InboundWire(c) ==
    LET a == WireAccount[c.w]  n == WireAmt[c.w] IN
        AcceptInbound(LynxRail, a, n, n) \o Refreshed(a)
            \o << OnDoc("insert", c.w, Absent, "settled") >>
            \o Completed

\* request_recall: the status of the wire and of its recalls are read before the
\* transaction; the index decides between two requests.
RequestRecall(c) ==
    << OnDoc("expect", c.w, "settled", Blank),
       OnDoc("expect", OpenRecall[c.w], Absent, Blank),
       OnDoc("insert", OpenRecall[c.w], Absent, "requested"),
       OnDoc("insert", c.k, Absent, "requested") >>
        \o Completed

\* network_recall_resolve: a resolved recall leaves the index.
Resolve(k, status) ==
    << OnDoc("mark", k, "requested", status),
       OnDoc("set", OpenRecall[WireOf[k]], Blank, Absent) >>

RecallAccepted(c) ==
    LET w == WireOf[c.k]  a == WireAccount[w]  n == WireAmt[w] IN
        Resolve(c.k, "accepted")
            \o AcceptInbound(LynxRail, a, n, n) \o Refreshed(a)
            \o << OnDoc("set", w, Blank, "recalled") >>
            \o Completed
RecallRejected(c) == Resolve(c.k, "rejected") \o Completed

\* rails/lynx.rs clawback: the network takes back what it brought.
Clawback(a, n) == TwoLegs(a, LynxRail.settlement, n) \o Core(-n)

\* network_inbound_recall, of a wire that brought money: honoured when there is
\* money to give back.
HonourRecall(c) ==
    LET a == WireAccount[c.w]  n == WireAmt[c.w] IN
        << OnDoc("mark", c.w, "settled", "settled"), Do("lock", a, 0) >>
            \o IfElse(a, "short", n,
                      << OnDoc("insert", c.k, Absent, "rejected") >>,
                      << Do("floor", a, 0) >> \o Clawback(a, n) \o Refreshed(a)
                          \o << OnDoc("set", c.w, Blank, "recalled"),
                                OnDoc("insert", c.k, Absent, "accepted") >>)
            \o Completed
DeclineRecall(c) ==
    << OnDoc("mark", c.w, "settled", "settled"),
       OnDoc("insert", c.k, Absent, "rejected") >> \o Completed

\* Mutant: the sweep trusts the status of its first read.
RejectStaleSeen(c) ==
    LET a == WireAccount[c.w]  n == WireAmt[c.w] IN
        << OnDoc("expect", c.w, "sent", Blank), Do("floor", a, 0) >>
            \o RefundTo(LynxRail, a, n, 0) \o Refreshed(a)
            \o << OnDoc("set", c.w, Blank, "rejected") >>
            \o Completed

\* admin_reject_stale_inner, for one of the wires its first read has found due.
RejectStale(c) ==
    LET a == WireAccount[c.w]  n == WireAmt[c.w] IN
        << OnDoc("expect", c.w, "sent", Blank),
           OnDoc("mark", c.w, "sent", "sent"), Do("floor", a, 0) >>
            \o RefundTo(LynxRail, a, n, 0) \o Refreshed(a)
            \o << OnDoc("set", c.w, Blank, "rejected") >>
            \o Completed

LynxScript(c) ==
    CASE c.kind = "initiate"       -> Initiate(c)
      [] c.kind = "settle wire"    -> SettleWire(c)
      [] c.kind = "inbound wire"   -> InboundWire(c)
      [] c.kind = "request recall" -> RequestRecall(c)
      [] c.kind = "accepted"       -> RecallAccepted(c)
      [] c.kind = "rejected"       -> RecallRejected(c)
      [] c.kind = "honour recall"  -> HonourRecall(c)
      [] c.kind = "decline recall" -> DeclineRecall(c)
      [] c.kind = "reject stale"   -> RejectStale(c)

ASSUME LynxScripts ==
    /\ LynxCalls \subseteq Tasks
    /\ \A t \in LynxCalls : Script[t] = LynxScript(LynxCall[t])
-----------------------------------------------------------------------------
(* Properties. *)

RecallAmt == [k \in Recalls |-> WireAmt[WireOf[k]]]

\* What the entries of LYNX_CLEARING add up to is the wires on their way, and of
\* LYNX_SETTLEMENT the wires that went less those that came, each recall that
\* was accepted taking one back: no wire is settled and rejected, credited twice
\* on redelivery, or recalled without its money moving.  The core's Bank moves
\* with the network's side.
WiresTieToBooks ==
    /\ journal[LynxRail.clearing] = Gained(WireAmt, Outbound, {"sent"})
    /\ journal[LynxRail.settlement]
         = Gained(WireAmt, Outbound, {"settled", "recalled"})
           - Gained(WireAmt, Inbound, {"settled"})
           - Gained(RecallAmt, OutboundRecalls, {"accepted"})
    /\ PostedFor(LynxCalls) = -journal[LynxRail.settlement]

\* The sender gets the money of a wire back once: "at most one open recall per
\* wire.  Without this ... each accept refunds the sender."
RecalledOnce ==
    \A k, l \in OutboundRecalls :
        k # l /\ WireOf[k] = WireOf[l] =>
            ~(doc[k] = "accepted" /\ doc[l] = "accepted")
=============================================================================
