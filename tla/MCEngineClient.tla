--------------------------- MODULE MCEngineClient ---------------------------
(* Instances of EngineClient for TLC. *)
EXTENDS EngineClient, TLC

CONSTANTS n1, n2

\* What the instance leaves out: next to a denial a second movement that is
\* screened, next to a movement a second denial or a crash of a drainer.  Movements
\* meet each other at the breaker of decisions, one meets a denial at the two, and
\* two denials wait for the drainers behind each other; the rows are alike, so n1 is
\* the first.  Only agents, customers and crashes are held back, who are under no
\* fairness.
Screened == {m \in Movements : mv[m] # "new"}
InScope ==
    /\ n2 \in Denied => n1 \in Denied
    /\ Denied # {} => Cardinality(Screened) <= 1
    /\ n2 \in Denied \/ crashes > 0 => Screened = {}

ScopedSpec == Init /\ [][Next /\ InScope']_vars /\ Fairness
=============================================================================
