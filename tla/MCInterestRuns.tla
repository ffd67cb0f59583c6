--------------------------- MODULE MCInterestRuns ---------------------------
(* A savings account with a fee at stake, a chequing account the fee may empty *)
(* and a card; the last day of July and August's first; July written in two    *)
(* ways, say "2026-07" and "2026-7".                                           *)
EXTENDS InterestRuns, TLC

CONSTANTS savings, chequing, visa, jul31, aug01, july, jul, w1, w2

MCMonthRange == july :> {jul31} @@ jul :> {jul31}
MCOpening == savings :> 4 @@ chequing :> 2 @@ visa :> 2
MCLimit   == savings :> 0 @@ chequing :> 0
\* August's first is accrued already.
MCAccruedBefore == [r \in Books \X Days |-> IF r[2] = aug01 THEN 1 ELSE 0]
Symmetry  == Permutations(Workers)

\* What the instance leaves out: the second spelling next to a movement.
\* Only callers and customers are held back, who are under no
\* fairness.
InScope == jul \in runs \/ (\E w \in Workers : job[w] = jul) => moves = 0

ScopedSpec ==
    Init /\ [][Next /\ InScope']_vars /\ \A w \in Workers : SF_vars(Running(w))
=============================================================================
