---------------------------- MODULE MCMovements ----------------------------
(***************************************************************************)
(* Instances of Movements for TLC: two customers' accounts and the cash    *)
(* account, whose id sorts between theirs.                                 *)
(***************************************************************************)
EXTENDS Movements, TLC

CONSTANTS alice, bob, cash, key, old

TheRank == (alice :> 1) @@ (cash :> 0) @@ (bob :> 2)
TheOverdraft == (alice :> 0) @@ (cash :> 100) @@ (bob :> 1)
TheLimit == [x \in Accounts |-> [m \in Meters |-> 5]]
TheOpeningRow ==
    LET Opened(bal, avail) ==
            [bal |-> bal, avail |-> avail, held |-> 0, used |-> [m \in Meters |-> 0]]
    IN  (alice :> Opened(4, 4)) @@ (bob :> Opened(0, 1)) @@ (cash :> Opened(-4, 0))
TheOpeningDoc == (key :> Absent) @@ (old :> "completed")

Call(kind, from, to, n, txn) ==
    [kind |-> kind, of |-> kind, from |-> from, to |-> to, amt |-> n, txn |-> txn]
Undo(call) == [call EXCEPT !.kind = "reversal"]

KeyedTransfer == Call("transfer", alice, bob, 2, key)

TheMoves ==
    [ deposit  |-> Call("deposit", cash, bob, 2, NoKey),
      withdraw |-> Call("withdrawal", alice, cash, 3, NoKey),
      transfer |-> KeyedTransfer,
      back     |-> Call("transfer", bob, alice, 1, NoKey),
      undo     |-> Undo(KeyedTransfer),
      clawback |-> Undo(Call("deposit", cash, alice, 2, old)) ]
TheTasks == DOMAIN TheMoves
TheScript == [t \in TheTasks |-> ScriptOf(TheMoves[t])]

Interchangeable == Permutations(Requests)
\* What the configurations substitute: names for the definitions above, which
\* TLC then evaluates once.
MCRank == TheRank
MCOverdraft == TheOverdraft
MCLimit == TheLimit
MCOpeningRow == TheOpeningRow
MCOpeningDoc == TheOpeningDoc
MCMoves == TheMoves
MCTasks == TheTasks
MCScript == TheScript
=============================================================================
