---------------------------- MODULE MCCardRails ----------------------------
(***************************************************************************)
(* Instances of CardRails for TLC: a card with a limit of 4 that owes 1    *)
(* and has an open authorization of 2, so that one more purchase of 1 can  *)
(* be authorized and not two, and a deposit account to pay from.           *)
(***************************************************************************)
EXTENDS CardRails, TLC

CONSTANTS card, dep, clearing, bank, auth1, auth2, auth3, buy1, buy2, Kinds

TheIdOrder == (card :> 1) @@ (dep :> 0) @@ (clearing :> 2) @@ (bank :> 3)
TheOverdraft == (card :> 4) @@ (dep :> 0) @@ (clearing :> 100) @@ (bank :> 100)
TheLimit == [x \in Accounts |-> [m \in Meters |-> 5]]
TheOpeningRow ==
    LET Opened(bal, avail, held) ==
            [bal |-> bal, avail |-> avail, held |-> held,
             used |-> [m \in Meters |-> 0]]
    IN  (card :> Opened(1, 1, 2)) @@ (dep :> Opened(4, 4, 0))
            @@ (clearing :> Opened(0, 0, 0)) @@ (bank :> Opened(0, 0, 0))
TheCardOf == [d \in Authorizations |-> card]
TheStake == (auth1 :> 2) @@ (auth2 :> 1) @@ (auth3 :> 1) @@ (buy1 :> 2) @@ (buy2 :> 1)
TheOpeningDoc == [d \in Docs |-> IF d = auth1 THEN "open" ELSE Absent]

Call(kind, n, auth, buy) ==
    [kind |-> kind, card |-> card, from |-> dep, amt |-> n,
     auth |-> auth, purchase |-> buy]

AllCalls ==
    [ authorize2 |-> Call("authorize", 1, auth2, buy2),
      authorize3 |-> Call("authorize", 1, auth3, buy2),
      capture1   |-> Call("capture", 2, auth1, buy1),
      capture2   |-> Call("capture", 1, auth2, buy2),
      settle     |-> Call("settle", 0, auth1, buy1),
      pay        |-> Call("payment", 1, auth1, buy1),
      overpay    |-> Call("payment", 3, auth1, buy1) ]

\* Kinds names the calls a run offers.
TheTasks == Kinds
TheCardCalls == [t \in Kinds |-> AllCalls[t]]
TheScript == [t \in Kinds |-> CardScript(AllCalls[t])]
TheSingles == Kinds \cap {"authorize2", "authorize3"}

Interchangeable == Permutations(Requests)
\* What the configurations substitute: names for the definitions above, which
\* TLC then evaluates once.
MCIdOrder == TheIdOrder
MCCardOf == TheCardOf
MCStake == TheStake
MCOverdraft == TheOverdraft
MCLimit == TheLimit
MCOpeningRow == TheOpeningRow
MCOpeningDoc == TheOpeningDoc
MCTasks == TheTasks
MCCardCalls == TheCardCalls
MCScript == TheScript
MCSingles == TheSingles
=============================================================================
