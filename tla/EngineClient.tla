---------------------------- MODULE EngineClient ----------------------------
(***************************************************************************)
(* The bank as a client of the fraud engine.  A movement is screened       *)
(* before its transaction begins (fraud/gate.rs): when the engine gives no *)
(* decision a small one goes ahead and the engine is told afterwards, a    *)
(* large one is refused.  Denials of agents wait in an outbox              *)
(* (handlers/fraud_admin.rs, outbox.rs) for drainers to report them.  Both *)
(* calls go through a circuit breaker of their endpoint (fraud/engine.rs). *)
(*                                                                         *)
(* The outbox of Interac's notifications has the same claim and the same   *)
(* marks; it has no breaker and no purge.                                  *)
(***************************************************************************)
EXTENDS Integers, FiniteSets, SequencesExt

CONSTANTS
    Movements, Large,    \* Large: the movements above fail_closed_above
    Denials, Drainers,
    Threshold,           \* BREAKER_THRESHOLD
    Before,              \* the failures each breaker has counted already
    MaxAttempts, Batch,  \* MAX_DELIVERY_ATTEMPTS, FLUSH_BATCH
    MaxCrashes

ASSUME EngineAssumption ==
    /\ Large \subseteq Movements /\ Movements \cap Drainers = {}
    /\ {Threshold, MaxAttempts, Batch} \subseteq Nat \ {0}
    /\ Before \in 0..(Threshold - 1) /\ MaxCrashes \in Nat

VARIABLES
    fails, open,       \* consecutive_failures, open_until of an endpoint's breaker
    counted,           \* the failures a caller has counted and not yet acted on; 0 is none
    failed,            \* the calls of an endpoint that failed, for the properties
    mv, blind,         \* where a movement is; those screened without a decision
    rescored,          \* the movements the engine was told of afterwards
    created, outbox,   \* created_at of a denial, 0 if there is none; the rows still there
    attempts,          \* delivery_attempts
    delivered,         \* the rows with delivered = TRUE
    locked, hand,      \* what a drainer has locked in its claim; has still to report
    pc, received,      \* of a drainer; how often the engine received a denial
    crashes

breakers == << fails, open, counted, failed >>
gate     == << mv, blind, rescored >>
rows     == << created, outbox, attempts, delivered, received >>
drains   == << locked, hand, pc, crashes >>
vars     == << breakers, gate, rows, drains >>

Endpoints == {"decisions", "outcomes"}
Callers   == Movements \cup Drainers

Init ==
    /\ fails = [e \in Endpoints |-> Before] /\ open = [e \in Endpoints |-> FALSE]
    /\ counted = [c \in Callers |-> 0] /\ failed = [e \in Endpoints |-> Before]
    /\ mv = [m \in Movements |-> "new"] /\ blind = {} /\ rescored = {}
    /\ created = [n \in Denials |-> 0] /\ outbox = {}
    /\ attempts = [n \in Denials |-> 0] /\ delivered = {}
    /\ received = [n \in Denials |-> 0]
    /\ locked = [d \in Drainers |-> {}] /\ hand = [d \in Drainers |-> << >>]
    /\ pc = [d \in Drainers |-> "idle"] /\ crashes = 0
-----------------------------------------------------------------------------
(* Breaker. *)

\* Mutant: one breaker for both endpoints.
SharedBreaker(c) == "decisions"
\* Each endpoint has its own.
BreakerOf(c) == IF c \in Drainers THEN "outcomes" ELSE "decisions"

\* record_success
Succeeds(c) ==
    /\ fails' = [fails EXCEPT ![BreakerOf(c)] = 0]
    /\ open' = [open EXCEPT ![BreakerOf(c)] = FALSE]
    /\ UNCHANGED << counted, failed >>

\* record_failure counts in one step and sets open_until in another.  The count
\* stops at the threshold here: above it nothing changes.
Fails(c) ==
    LET n == IF fails[BreakerOf(c)] = Threshold THEN Threshold ELSE fails[BreakerOf(c)] + 1 IN
    /\ fails' = [fails EXCEPT ![BreakerOf(c)] = n]
    /\ counted' = [counted EXCEPT ![c] = n]
    /\ failed' = [failed EXCEPT ![IF c \in Drainers THEN "outcomes" ELSE "decisions"] =
                      IF @ = Threshold THEN @ ELSE @ + 1]
    /\ UNCHANGED open

SetOpenUntil(c) ==
    /\ counted[c] # 0
    /\ open' = [open EXCEPT ![BreakerOf(c)] = @ \/ counted[c] = Threshold]
    /\ counted' = [counted EXCEPT ![c] = 0]
    /\ UNCHANGED << fails, failed, gate, rows, drains >>

\* open_until passes; the next to ask finds the breaker closed, its count as it is.
HalfOpen(e) ==
    /\ open[e] /\ open' = [open EXCEPT ![e] = FALSE]
    /\ UNCHANGED << fails, counted, failed, gate, rows, drains >>
-----------------------------------------------------------------------------
(* Screening. *)

Goes(m, from, to) == mv[m] = from /\ mv' = [mv EXCEPT ![m] = to]

\* assess, its call; an open breaker spares it.
Ask(m) ==
    /\ Goes(m, "new", IF open["decisions"] THEN "undecided" ELSE "asking")
    /\ UNCHANGED << breakers, blind, rescored, rows, drains >>

\* The engine decides: it allows, or stops the movement: to be
\* reviewed, or for good.
Decided(m, verdict) ==
    /\ Goes(m, "asking", verdict)
    /\ Succeeds(m) /\ UNCHANGED << blind, rescored, rows, drains >>

\* A 4xx, or a 2xx that does not hold a decision; only the second is a success.
NoDecision(m) ==
    /\ Goes(m, "asking", "undecided")
    /\ Succeeds(m) \/ UNCHANGED breakers
    /\ UNCHANGED << blind, rescored, rows, drains >>

\* A timeout, a refused connection, a 5xx: the engine is down, or slow.
Unanswered(m) ==
    /\ Goes(m, "asking", "undecided") /\ Fails(m)
    /\ UNCHANGED << blind, rescored, rows, drains >>

\* Fail open, or fail closed.
FailMatrix(m) ==
    /\ counted[m] = 0
    /\ Goes(m, "undecided", IF m \in Large THEN "stopped" ELSE "cleared")
    /\ blind' = IF m \in Large THEN blind ELSE blind \cup {m}
    /\ UNCHANGED << breakers, rescored, rows, drains >>

\* The movement's transaction commits, or is refused and the link dropped.
Execute(m) ==
    /\ \/ Goes(m, "cleared", IF m \in blind THEN "settling" ELSE "posted")
       \/ Goes(m, "cleared", "stopped")
    /\ UNCHANGED << breakers, blind, rescored, rows, drains >>

\* settle_rescore: one attempt, past the breaker, that may be lost.
SettleRescore(m) ==
    /\ Goes(m, "settling", "posted")
    /\ rescored' \in {rescored, rescored \cup {m}}
    /\ UNCHANGED << breakers, blind, rows, drains >>
-----------------------------------------------------------------------------
(* The outbox. *)

Denied == {n \in Denials : created[n] > 0}

\* record_action: the audit of a denial and its outbox row, in one statement.
Deny(n) ==
    /\ n \notin Denied
    /\ created' = [created EXCEPT ![n] = Cardinality(Denied) + 1]
    /\ outbox' = outbox \cup {n}
    /\ UNCHANGED << breakers, gate, attempts, delivered, received, drains >>

At(d, step) == pc[d] = step
Then(d, step) == pc' = [pc EXCEPT ![d] = step]
Others(d) == UNION {locked[v] : v \in Drainers \ {d}}

\* flush_denials; purge_expired first drops rows that are past their retention.
Flush(d) ==
    /\ At(d, "idle") /\ Then(d, "claim")
    /\ \E old \in SUBSET (outbox \ Others(d)) : outbox' = outbox \ old
    /\ UNCHANGED << breakers, gate, created, attempts, delivered, received,
                    locked, hand, crashes >>

\* Mutant: the budget is reached one attempt late.
HasBudgetLate(n) == n \notin delivered /\ attempts[n] <= MaxAttempts
HasBudget(n)     == n \notin delivered /\ attempts[n] < MaxAttempts

\* ORDER BY created_at LIMIT
Oldest(S) == {n \in S : Cardinality({m \in S : created[m] < created[n]}) < Batch}

\* The claim, one UPDATE, locks the oldest rows that nobody has locked ...
Claim(d) ==
    /\ At(d, "claim") /\ Then(d, "claiming")
    /\ locked' = [locked EXCEPT ![d] = Oldest({n \in outbox \ Others(d) : HasBudget(n)})]
    /\ UNCHANGED << breakers, gate, rows, hand, crashes >>

\* Mutant: an attempt is counted elsewhere, or not at all.
Uncounted(S) == attempts
\* An attempt is counted as it is claimed.
CountAttempts(S) == [n \in Denials |-> attempts[n] + IF n \in S THEN 1 ELSE 0]

\* ... and commits before anything is reported.  RETURNING has them in any order.
Claimed(d) ==
    /\ At(d, "claiming")
    /\ attempts' = CountAttempts(locked[d])
    /\ \E claimed \in SetToSeqs(locked[d]) : hand' = [hand EXCEPT ![d] = claimed]
    /\ locked' = [locked EXCEPT ![d] = {}]
    /\ Then(d, IF locked[d] = {} THEN "idle" ELSE "report")
    /\ UNCHANGED << breakers, gate, created, outbox, delivered, received, crashes >>

\* Mutant: report_denial takes any answer for a delivery, as rescore does.
AnyAnswer(status) == "ok"
\* Only a success is a delivery.
Verdict(status) == IF status = "2xx" THEN "ok" ELSE "failed"

\* report_denial of the next row, past the breaker.  The engine may have
\* received what it is not known to have.
Report(d) ==
    LET n == Head(hand[d])
        Arrives == received' = [received EXCEPT ![n] = @ + 1]
    IN
    /\ At(d, "report") /\ ~open[BreakerOf(d)]
    /\ \/ Arrives /\ Succeeds(d) /\ Then(d, Verdict("2xx"))
       \/ UNCHANGED << received, breakers >> /\ Then(d, Verdict("4xx"))
       \/ Arrives /\ Fails(d) /\ Then(d, Verdict("no answer"))
       \/ UNCHANGED received /\ Fails(d) /\ Then(d, Verdict("no answer"))
    /\ UNCHANGED << gate, created, outbox, attempts, delivered,
                    locked, hand, crashes >>

\* An open breaker fails the row at once; its attempt is spent.
ReportSpared(d) ==
    /\ At(d, "report") /\ open[BreakerOf(d)] /\ Then(d, "failed")
    /\ UNCHANGED << breakers, gate, rows, locked, hand, crashes >>

\* The row is marked, if it is still there.
Mark(d) ==
    /\ pc[d] \in {"ok", "failed"} /\ counted[d] = 0
    /\ delivered' = delivered \cup
           {n \in outbox : At(d, "ok") /\ n = Head(hand[d])}
    /\ hand' = [hand EXCEPT ![d] = Tail(@)]
    /\ Then(d, IF Len(hand[d]) = 1 THEN "idle" ELSE "report")
    /\ UNCHANGED << breakers, gate, created, outbox, attempts, received,
                    locked, crashes >>

\* The drain is cut off: a crash, a cancelled request, a database error.
Crash(d) ==
    /\ ~At(d, "idle") /\ counted[d] = 0 /\ crashes < MaxCrashes
    /\ crashes' = crashes + 1 /\ Then(d, "idle")
    /\ hand' = [hand EXCEPT ![d] = << >>] /\ locked' = [locked EXCEPT ![d] = {}]
    /\ UNCHANGED << breakers, gate, rows >>

Screening(m) ==
    \/ Ask(m) \/ NoDecision(m) \/ Unanswered(m) \/ FailMatrix(m) \/ Execute(m)
    \/ SettleRescore(m) \/ \E verdict \in {"cleared", "stopped"} : Decided(m, verdict)
Draining(d) == Flush(d) \/ Claim(d) \/ Claimed(d) \/ Report(d) \/ ReportSpared(d) \/ Mark(d)

Next ==
    \/ \E e \in Endpoints : HalfOpen(e)
    \/ \E c \in Callers : SetOpenUntil(c)
    \/ \E m \in Movements : Screening(m)
    \/ \E n \in Denials : Deny(n)
    \/ \E d \in Drainers : Draining(d) \/ Crash(d)

Spec == Init /\ [][Next]_vars

\* Cron flushes again and again, and calls end: they have time-outs.
Fairness == \A d \in Drainers : WF_vars(Draining(d) \/ SetOpenUntil(d))
LiveSpec == Spec /\ Fairness
-----------------------------------------------------------------------------
(* Properties. *)

\* A breaker keeps calls from an endpoint only after as many calls of that very
\* endpoint have failed: a drain that fails does not make movements fail open.
OpenIsEarned == \A e \in Endpoints : open[e] => failed[e] >= Threshold

\* The engine is told of a movement afterwards only when no decision of it was
\* to be had and its money has moved.
RescoredMoved == \A m \in rescored : m \in blind /\ mv[m] = "posted"

\* A row is marked delivered only when the engine has received it, and the engine
\* receives it no more often than attempts were counted, which have their limit:
\* whatever is lost, in whichever order drainers claim, crash and mark.
DeliveryIsHonest ==
    \A n \in Denials :
        /\ n \in delivered => received[n] > 0
        /\ received[n] <= attempts[n] /\ attempts[n] <= MaxAttempts

\* Every denial that is recorded is delivered, spends its attempts, or is purged:
\* no crash strands it, and no row that fails again and again starves it.
EveryDenialSettles ==
    \A n \in Denials :
        (n \in Denied) ~> (n \in delivered \/ attempts[n] = MaxAttempts \/ n \notin outbox)

\* Concurrent drainers never hold the same row.
HeldByOne ==
    \A d, v \in Drainers : d # v => Range(hand[d]) \cap Range(hand[v]) = {}
=============================================================================
