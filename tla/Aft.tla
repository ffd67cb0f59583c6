-------------------------------- MODULE Aft --------------------------------
(***************************************************************************)
(* AFT batches, handlers/aft.rs: a customer originates credits, to         *)
(* accounts at other banks, and debits, drawn on another customer under a  *)
(* mandate.  They gather in the one open batch until it is cut into a file *)
(* and, later, settled entry by entry.  Files of other banks come in, and  *)
(* entries that have settled may be returned.                              *)
(*                                                                         *)
(* A batch is "open", "submitted" or "settled".  Once FirstBatch is cut,   *)
(* NextBatch is created by the first entry that finds none open.  An entry *)
(* waits under the name of its batch, then it is "settled", "rejected" or  *)
(* "returned".  Filed[e] says whether e is in the file of its batch.       *)
(***************************************************************************)
EXTENDS Rails, SequencesExt

CONSTANTS
    Batches, BatchName,        \* status rows, and how an entry in one stands
    FirstBatch, NextBatch,     \* the batch that may be open at first, the one after
    Credits, Debits,           \* entries that customers originate
    Received,                  \* entries of other banks' files
    Drawn,                     \* the received entries that draw on a customer
    Filed,                     \* Filed[e]: a status row
    EntryOrder,                \* the entries in the order the settlement takes them
    EntryAmt, Payer, Payee,    \* of e: amount, account debited, account credited
    MandateOf,                 \* of a debit
    AftRail, AftCalls, AftCall

Originated == Credits \cup Debits
Entries == Originated \cup Received
AftKinds == {"originate", "cut", "settle batch", "receive", "return", "authorize", "revoke"}
EntryCall == [kind : AftKinds, e : Entries, b : Batches]

ASSUME AftAssumption ==
    /\ AftCall \in [AftCalls -> EntryCall]
    /\ AftRail \in Rail
    /\ {AftRail.clearing, AftRail.settlement} \subseteq SystemAccounts
    /\ Entries \cup Batches \subseteq Docs /\ {FirstBatch, NextBatch} \subseteq Batches
    /\ BatchName \in [Batches -> STRING]
    /\ Drawn \subseteq Received
    /\ Filed \in [Originated -> Docs] /\ MandateOf \in [Debits -> Docs]
    /\ EntryOrder \in Seq(Originated)
    /\ EntryAmt \in [Entries -> Nat \ {0}]
    /\ Payer \in [Entries -> Accounts] /\ Payee \in [Entries -> Accounts]
-----------------------------------------------------------------------------
(* Originating.  An entry goes into the open batch, whose row stays locked *)
(* until the entry is in.                                                  *)

JoinBatch(e, b) == << OnDoc("insert", e, Absent, BatchName[b]) >>

\* Mutant: the open batch is looked up and not locked.
JoinOpenUnlocked(e) ==
    IfElse(FirstBatch, "open", 0,
           JoinBatch(e, FirstBatch),
           << OnDoc("ensure", NextBatch, Absent, "open") >> \o JoinBatch(e, NextBatch))

\* open_batch: the open one, locked; it may have been cut while the lock was
\* waited for, and then, as when there is none, the next one is created by
\* whoever is first, and locked.
JoinOpenBatch(e) ==
    If(FirstBatch, "open", 0, << OnDoc("ensure", FirstBatch, "open", "open") >>)
        \o IfElse(FirstBatch, "open", 0,
                  JoinBatch(e, FirstBatch),
                  << OnDoc("ensure", NextBatch, Absent, "open"),
                     OnDoc("mark", NextBatch, "open", "open") >>
                      \o JoinBatch(e, NextBatch))

\* create_credit, and create_debit, which asks for an active mandate.
Originate(c) ==
    (IF c.e \in Debits THEN << OnDoc("expect", MandateOf[c.e], "active", Blank) >> ELSE << >>)
        \o << OnDoc("find", c.e, Blank, Blank) >>
        \o JoinOpenBatch(c.e) \o Completed

\* create_mandate and revoke_mandate, one statement each.
CreateMandate(c) == << OnDoc("insert", MandateOf[c.e], Absent, "active") >> \o Completed
Revoke(c) == << OnDoc("mark", MandateOf[c.e], "active", "revoked") >> \o Completed
-----------------------------------------------------------------------------
(* Cutting and settling a batch.  The role of the core followed is Bank.   *)

ForEach(Of(_)) == FlattenSeq([i \in DOMAIN EntryOrder |-> Of(EntryOrder[i])])

\* submit_batch_inner: the file has the entries of the batch.
Cut(c) ==
    LET File(e) == If(e, BatchName[c.b], 0, << OnDoc("set", Filed[e], Blank, "filed") >>)
    IN  << OnDoc("mark", c.b, "open", "open") >> \o ForEach(File)
            \o << OnDoc("set", c.b, Blank, "submitted") >> \o Completed

\* An entry that its payer cannot cover is rejected.
Covered(e, op, then) ==
    << Do("lock", Payer[e], 0) >>
        \o IfElse(Payer[e], "short", EntryAmt[e],
                  << OnDoc(op, e, Absent, "rejected") >>,
                  << Do("floor", Payer[e], 0) >> \o then)

SettleCredit(e) ==
    Covered(e, "set",
        HoldFor(AftRail, Payer[e], EntryAmt[e], 0)
            \o ReleaseTo(AftRail, AftRail.settlement, EntryAmt[e], 0)
            \o Refreshed(Payer[e])
            \o << OnDoc("set", e, Blank, "settled"), Do("tally", NoOne, EntryAmt[e]) >>)

SettleDebit(e) ==
    Covered(e, "set",
        HoldFor(AftRail, Payer[e], EntryAmt[e], 0)
            \o ReleaseTo(AftRail, Payee[e], EntryAmt[e], 0)
            \o Refreshed(Payer[e]) \o Refreshed(Payee[e])
            \o << OnDoc("set", e, Blank, "settled") >>)

\* network_settle: the pending entries of the batch, then one document for the
\* credits that settled.
SettleBatch(c) ==
    LET Settle(e) == If(e, BatchName[c.b], 0,
                        IF e \in Credits THEN SettleCredit(e) ELSE SettleDebit(e))
    IN  << OnDoc("mark", c.b, "submitted", "submitted") >> \o ForEach(Settle)
            \o << OnMeter("gl", NoOne, -1, ByNet) >>
            \o << OnDoc("set", c.b, Blank, "settled") >> \o Completed
-----------------------------------------------------------------------------
(* Files of other banks. *)

\* network_inbound_batch, for a file of one entry.
Receive(c) ==
    LET e == c.e IN
        (IF e \in Drawn
         THEN Covered(e, "insert",
                  HoldFor(AftRail, Payer[e], EntryAmt[e], 0)
                      \o ReleaseTo(AftRail, AftRail.settlement, EntryAmt[e], 0)
                      \o Refreshed(Payer[e])
                      \o << OnDoc("insert", e, Absent, "settled") >>)
         ELSE AcceptInbound(AftRail, Payee[e], EntryAmt[e], 0) \o Refreshed(Payee[e])
                  \o << OnDoc("insert", e, Absent, "settled") >>)
            \o Completed

\* Mutant: the entry to return is found without locking it.
FindReturnedLate(e) == << OnDoc("expect", e, "settled", Blank) >>

\* The settled entry that a return names, locked.
FindReturned(e) == << OnDoc("mark", e, "settled", "settled") >>

\* network_returns, for a file of one return.
Return(c) ==
    LET e == c.e IN
        FindReturned(e)
            \o (IF e \in Credits
                THEN AcceptInbound(AftRail, Payer[e], EntryAmt[e], 0) \o Refreshed(Payer[e])
                ELSE << Do("floor", Payee[e], 0) >>
                         \o HoldFor(AftRail, Payee[e], EntryAmt[e], 0)
                         \o ReleaseTo(AftRail, Payer[e], EntryAmt[e], 0)
                         \o Refreshed(Payee[e]) \o Refreshed(Payer[e]))
            \o << OnDoc("set", e, Blank, "returned") >> \o Completed

AftScript(c) ==
    CASE c.kind = "originate"    -> Originate(c)
      [] c.kind = "cut"          -> Cut(c)
      [] c.kind = "settle batch" -> SettleBatch(c)
      [] c.kind = "receive"      -> Receive(c)
      [] c.kind = "return"       -> Return(c)
      [] c.kind = "authorize"    -> CreateMandate(c)
      [] c.kind = "revoke"       -> Revoke(c)

ASSUME AftScripts ==
    /\ AftCalls \subseteq Tasks
    /\ \A t \in AftCalls : Script[t] = AftScript(AftCall[t])
-----------------------------------------------------------------------------
(* Properties. *)

\* An entry joins a batch that is still to be cut, or it misses the file: once
\* its batch has been cut an entry is in the file that was sent, and once it has
\* been settled no entry waits in it.
EntriesAreFiled ==
    \A e \in Originated, b \in Batches :
        /\ doc[e] = BatchName[b] /\ doc[b] # "open" => doc[Filed[e]] = "filed"
        /\ doc[e] = BatchName[b] => doc[b] # "settled"
        /\ doc[e] \in {"settled", "returned"} => doc[Filed[e]] = "filed"

\* What the entries of AFT_SETTLEMENT and of AFT_CLEARING add up to: credits that
\* went out and were not returned, and what other banks drew or brought; nothing
\* stays in clearing.  The core's Bank has heard of the credits of every batch
\* that settled, returned since or not, and of no credit that was rejected.
EntriesTieToBooks ==
    /\ journal[AftRail.clearing] = 0
    /\ journal[AftRail.settlement]
         = Gained(EntryAmt, Credits \cup Drawn, {"settled"})
           - Gained(EntryAmt, Received \ Drawn, {"settled"})
    /\ PostedFor(AftCalls) = -Gained(EntryAmt, Credits, {"settled", "returned"})

=============================================================================
