----------------------------- MODULE MCInterac -----------------------------
(***************************************************************************)
(* An instance of Interac for TLC: alice sends, bob receives.  Two of her  *)
(* transfers are new, one to a handle that takes deposits automatically    *)
(* and one to a handle nobody has registered, after which she cannot pay   *)
(* the second fee; a third is out, with one wrong answer counted.  Two     *)
(* come from the network, one of them held for bob already.                *)
(***************************************************************************)
EXTENDS Interac, TLC

CONSTANTS alice, bob, cash, clearing, settlement,
          gift, rent, old, from, held,   \* e-Transfers
          auto, manual, other,           \* handles
          question, strikes, Names

TheAsked == [e \in Transfers |-> <<question, e>>]
TheStrikes == [e \in Transfers |-> <<strikes, e>>]
TheDocs == Transfers \cup Handles
              \cup {TheAsked[e] : e \in Transfers} \cup {TheStrikes[e] : e \in Transfers}
TheOpeningDoc ==
    [d \in TheDocs |->
        CASE d \in {old, held} \cup {TheAsked[e] : e \in {old, held}} ->
               IF d \in Transfers THEN "available" ELSE "asked"
          [] d = TheStrikes[old] -> "one"
          [] d \in {TheStrikes[e] : e \in Transfers \ {old}} -> "none"
          [] d = auto -> "auto"
          [] d = manual -> "manual"
          [] OTHER -> Absent]

TheAmt == (gift :> 2) @@ (rent :> 1) @@ (old :> 1) @@ (from :> 2) @@ (held :> 1)
TheFrom == [e \in Transfers |-> IF e \in {from, held} THEN settlement ELSE alice]
TheHandleOf == (gift :> auto) @@ (rent :> other) @@ (old :> other)
                  @@ (from :> auto) @@ (held :> manual)
TheDepositOf == [h \in Handles |-> bob]
TheRail == [clearing |-> clearing, settlement |-> settlement]

TheOverdraft == [a \in Accounts |-> IF a \in {alice, bob} THEN 0 ELSE 100]
TheLimit == [a \in Accounts |-> [m \in Meters |-> 0]]
TheOpeningRow ==
    LET Opened(bal, avail) ==
            [bal |-> bal, avail |-> avail, held |-> 0, used |-> [m \in Meters |-> 0]]
    IN  (alice :> Opened(4, 4)) @@ (bob :> Opened(0, 0)) @@ (cash :> Opened(-5, 0))
            @@ (clearing :> Opened(2, 0)) @@ (settlement :> Opened(-1, 0))

Of(kind, e) == [kind |-> kind, e |-> e, to |-> bob]
TheCall ==
    [ sendGift |-> Of("send", gift), sendRent |-> Of("send", rent),
      claim |-> Of("claim", old), guess |-> Of("guess", old),
      cancel |-> Of("cancel", old), expire |-> Of("expire", old),
      settled |-> Of("settled", old), turned |-> Of("turned", old),
      inbound |-> Of("inbound", from), decline |-> Of("decline", held),
      take |-> Of("claim", held), lapse |-> Of("expire", held),
      register |-> Of("register", rent), deregister |-> Of("deregister", gift) ]
TheTasks == Names
TheScript == [t \in Names |-> InteracScript(TheCall[t])]
TheSomeCalls == [t \in Names |-> TheCall[t]]

Interchangeable == Permutations(Requests)
\* What the configurations substitute: names for the definitions above, which
\* TLC then evaluates once.
MCAsked == TheAsked
MCStrikes == TheStrikes
MCDocs == TheDocs
MCOpeningDoc == TheOpeningDoc
MCAmt == TheAmt
MCFrom == TheFrom
MCHandleOf == TheHandleOf
MCDepositOf == TheDepositOf
MCRail == TheRail
MCOverdraft == TheOverdraft
MCLimit == TheLimit
MCOpeningRow == TheOpeningRow
MCCall == TheCall
MCTasks == TheTasks
MCScript == TheScript
MCSomeCalls == TheSomeCalls
=============================================================================
