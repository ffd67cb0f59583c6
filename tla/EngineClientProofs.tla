------------------------- MODULE EngineClientProofs -------------------------
(***************************************************************************)
(* Theorems about the bank as a client of the fraud engine, for any        *)
(* movements, denials and drainers and any threshold of the breakers.      *)
(***************************************************************************)
EXTENDS EngineClient, FiniteSetTheorems, TLAPS

-----------------------------------------------------------------------------
(* The breakers. *)

BreakerTypes ==
    /\ fails \in [Endpoints -> 0..Threshold]
    /\ failed \in [Endpoints -> 0..Threshold]
    /\ open \in [Endpoints -> BOOLEAN]
    /\ counted \in [Callers -> 0..Threshold]

\* What a breaker counts has failed, and so has what a caller has counted and
\* not yet acted on: it may be a while before it opens the breaker.
CountsAreFailures ==
    /\ \A e \in Endpoints : fails[e] <= failed[e]
    /\ \A c \in Callers : counted[c] = Threshold => failed[BreakerOf(c)] = Threshold

BreakerInv == BreakerTypes /\ CountsAreFailures /\ OpenIsEarned

\* What a step may do to the breakers: nothing, or one of their operations.
LEMMA BreakerShape ==
    ASSUME [Next]_vars
    PROVE  \/ UNCHANGED breakers
           \/ \E c \in Callers : Succeeds(c) \/ Fails(c) \/ SetOpenUntil(c)
           \/ \E e \in Endpoints : HalfOpen(e)
  <1>1. CASE UNCHANGED vars
    BY <1>1 DEF vars, breakers
  <1>2. ASSUME NEW m \in Movements, Screening(m)
        PROVE  UNCHANGED breakers \/ Succeeds(m) \/ Fails(m)
    BY <1>2 DEF Screening, Ask, NoDecision, Unanswered, FailMatrix, Execute,
                SettleRescore, Decided, breakers
  <1>3. ASSUME NEW d \in Drainers, Draining(d) \/ Crash(d)
        PROVE  UNCHANGED breakers \/ Succeeds(d) \/ Fails(d)
    BY <1>3 DEF Draining, Crash, Flush, Claim, Claimed, Report, ReportSpared, Mark,
                breakers
  <1>4. ASSUME NEW n \in Denials, Deny(n)
        PROVE  UNCHANGED breakers
    BY <1>4 DEF Deny, breakers
  <1> QED
    BY <1>1, <1>2, <1>3, <1>4 DEF Next, Callers

LEMMA BreakerStep ==
    ASSUME BreakerInv, [Next]_vars
    PROVE  BreakerInv'
  <1> USE EngineAssumption DEF BreakerInv, BreakerTypes, CountsAreFailures, OpenIsEarned
  <1>1. CASE UNCHANGED breakers
    BY <1>1 DEF breakers, BreakerOf
  <1>2. ASSUME NEW c \in Callers, Succeeds(c)
        PROVE  BreakerInv'
    BY <1>2 DEF Succeeds, BreakerOf, Endpoints
  <1>3. ASSUME NEW c \in Callers, Fails(c)
        PROVE  BreakerInv'
    <2> DEFINE e == BreakerOf(c)
    <2>1. e \in Endpoints
      BY DEF BreakerOf, Endpoints
    <2>2. /\ fails' = [fails EXCEPT ![e] = IF @ = Threshold THEN @ ELSE @ + 1]
          /\ counted' = [counted EXCEPT ![c] = fails'[e]]
          /\ failed' = [failed EXCEPT ![e] = IF @ = Threshold THEN @ ELSE @ + 1]
          /\ open' = open
      BY <1>3, <2>1 DEF Fails, BreakerOf
    <2>3. \A f \in Endpoints : fails'[f] <= failed'[f] /\ failed[f] <= failed'[f]
      BY <2>1, <2>2
    <2>4. BreakerTypes'
      BY <2>1, <2>2
    <2>5. ASSUME NEW b \in Callers, counted'[b] = Threshold
          PROVE  failed'[BreakerOf(b)] = Threshold
      <3>1. BreakerOf(b) \in Endpoints
        BY DEF BreakerOf, Endpoints
      <3>2. CASE b = c
        BY <2>1, <2>2, <2>3, <2>4, <2>5, <3>2
      <3>3. CASE b # c
        BY <2>2, <2>3, <2>4, <2>5, <3>1, <3>3
      <3> QED BY <3>2, <3>3
    <2>6. OpenIsEarned'
      BY <2>2, <2>3, <2>4
    <2> QED BY <2>3, <2>4, <2>5, <2>6 DEF BreakerOf
  <1>4. ASSUME NEW c \in Callers, SetOpenUntil(c)
        PROVE  BreakerInv'
    BY <1>4 DEF SetOpenUntil, BreakerOf, Endpoints
  <1>5. ASSUME NEW e \in Endpoints, HalfOpen(e)
        PROVE  BreakerInv'
    BY <1>5 DEF HalfOpen, BreakerOf
  <1> QED
    BY <1>1, <1>2, <1>3, <1>4, <1>5, BreakerShape

\* A breaker is open only after as many calls of its endpoint as its threshold
\* have failed, although a failure is counted in one step and acted on in another
\* and any number of callers are between the two.
THEOREM BreakersAreSeparate == Spec => []OpenIsEarned
  <1>1. Init => BreakerInv
    BY EngineAssumption DEF Init, BreakerInv, BreakerTypes, CountsAreFailures,
                            OpenIsEarned, BreakerOf, Endpoints
  <1>2. BreakerInv /\ [Next]_vars => BreakerInv'
    BY BreakerStep
  <1>3. BreakerInv => OpenIsEarned
    BY DEF BreakerInv
  <1> QED
    BY <1>1, <1>2, <1>3, PTL DEF Spec

-----------------------------------------------------------------------------
(* Screening. *)

\* Only a movement screened without a decision has its money moved and the
\* engine still to be told.
GateInv ==
    /\ mv \in [Movements -> {"new", "asking", "undecided", "cleared", "stopped",
                            "settling", "posted"}]
    /\ \A m \in Movements : mv[m] = "settling" => m \in blind
    /\ rescored \subseteq Movements
    /\ RescoredMoved

LEMMA GateStep ==
    ASSUME GateInv, [Next]_vars
    PROVE  GateInv'
  <1> USE DEF GateInv, RescoredMoved
  <1>1. CASE UNCHANGED gate
    BY <1>1 DEF gate
  <1>2. ASSUME NEW m \in Movements, Screening(m)
        PROVE  GateInv'
    <2>1. CASE Ask(m)
      BY <2>1 DEF Ask, Goes
    <2>2. CASE NoDecision(m) \/ Unanswered(m)
      BY <2>2 DEF NoDecision, Unanswered, Goes
    <2>3. CASE FailMatrix(m)
      BY <2>3 DEF FailMatrix, Goes
    <2>4. CASE Execute(m)
      BY <2>4 DEF Execute, Goes
    <2>5. CASE SettleRescore(m)
      BY <2>5 DEF SettleRescore, Goes
    <2>6. ASSUME NEW verdict \in {"cleared", "stopped"}, Decided(m, verdict)
          PROVE  GateInv'
      BY <2>6 DEF Decided, Goes
    <2> QED BY <1>2, <2>1, <2>2, <2>3, <2>4, <2>5, <2>6 DEF Screening
  <1>3. ASSUME NEW d \in Drainers, Draining(d) \/ Crash(d)
        PROVE  UNCHANGED gate
    BY <1>3 DEF Draining, Crash, Flush, Claim, Claimed, Report, ReportSpared, Mark, gate
  <1>4. (\E n \in Denials : Deny(n)) \/ (\E e \in Endpoints : HalfOpen(e))
            \/ (\E c \in Callers : SetOpenUntil(c)) \/ UNCHANGED vars
          => UNCHANGED gate
    BY DEF Deny, HalfOpen, SetOpenUntil, vars, gate
  <1> QED
    BY <1>1, <1>2, <1>3, <1>4 DEF Next

\* The engine hears of a movement afterwards only when no decision of it was to be
\* had and its money has moved; a movement that it decided, or that was refused or
\* rolled back, is never rescored.
THEOREM RescoresAreTrue == Spec => []RescoredMoved
  <1>1. Init => GateInv
    BY DEF Init, GateInv, RescoredMoved
  <1>2. GateInv /\ [Next]_vars => GateInv'
    BY GateStep
  <1>3. GateInv => RescoredMoved
    BY DEF GateInv
  <1> QED
    BY <1>1, <1>2, <1>3, PTL DEF Spec

-----------------------------------------------------------------------------
(* The outbox. *)

Distinct(s) == \A i, j \in 1..Len(s) : s[i] = s[j] => i = j

\* What a drainer is still to report, and who is still to report a row: there may
\* be several, since a claim commits before its rows are reported.
ToReport(d) ==
    IF pc[d] = "report" THEN Range(hand[d])
    ELSE IF pc[d] \in {"ok", "failed"} THEN Range(Tail(hand[d])) ELSE {}
Outstanding(n) == {d \in Drainers : n \in ToReport(d)}

OutboxTypes ==
    /\ attempts \in [Denials -> Nat] /\ received \in [Denials -> Nat]
    /\ outbox \subseteq Denials /\ IsFiniteSet(outbox)
    /\ locked \in [Drainers -> SUBSET Denials]
    /\ hand \in [Drainers -> Seq(Denials)]
    /\ pc \in [Drainers -> {"idle", "claim", "claiming", "report", "ok", "failed"}]
    /\ delivered \subseteq Denials

\* A row is locked by one drainer, within a claim, with an attempt left to count.
LocksAreClaims ==
    \A d \in Drainers :
        /\ IsFiniteSet(locked[d])
        /\ locked[d] # {} => pc[d] = "claiming"
        /\ \A n \in locked[d] : attempts[n] < MaxAttempts
        /\ \A v \in Drainers \ {d} : locked[d] \cap locked[v] = {}

\* A drainer at work has rows in hand, none twice, and what it is about to mark
\* delivered has arrived.
HandsAreRows ==
    \A d \in Drainers :
        /\ Distinct(hand[d])
        /\ pc[d] \in {"report", "ok", "failed"} => hand[d] # << >>
        /\ pc[d] = "ok" => received[Head(hand[d])] > 0

\* Whatever may still be received has its attempt counted.
AttemptsCover ==
    \A n \in Denials :
        /\ IsFiniteSet(Outstanding(n))
        /\ received[n] + Cardinality(Outstanding(n)) <= attempts[n]
        /\ attempts[n] <= MaxAttempts
        /\ n \in delivered => received[n] > 0

OutboxInv == OutboxTypes /\ LocksAreClaims /\ HandsAreRows /\ AttemptsCover

LEMMA OneMore ==
    ASSUME NEW S, IsFiniteSet(S), NEW x
    PROVE  /\ IsFiniteSet(S \cup {x}) /\ Cardinality(S \cup {x}) \in Nat
           /\ Cardinality(S \cup {x}) <= Cardinality(S) + 1
  <1>1. IsFiniteSet(S \cup {x}) /\ Cardinality(S) \in Nat
    BY FS_AddElement, FS_CardinalityType
  <1>2. Cardinality(S \cup {x}) = IF x \in S THEN Cardinality(S) ELSE Cardinality(S) + 1
    BY FS_AddElement
  <1> QED
    BY <1>1, <1>2

LEMMA OneLess ==
    ASSUME NEW S, IsFiniteSet(S), NEW x \in S
    PROVE  IsFiniteSet(S \ {x}) /\ Cardinality(S \ {x}) = Cardinality(S) - 1
  BY FS_RemoveElement

LEMMA ListOf ==
    ASSUME NEW S, NEW n \in Nat, NEW s \in [1..n -> S] PROVE s \in Seq(S) /\ Len(s) = n
  OBVIOUS

LEMMA TailFacts ==
    ASSUME NEW S, NEW s \in Seq(S), s # << >>, Distinct(s)
    PROVE  /\ Head(s) \in S /\ Head(s) \in Range(s)
           /\ Tail(s) \in Seq(S) /\ Distinct(Tail(s))
           /\ Range(Tail(s)) = Range(s) \ {Head(s)}
           /\ Len(s) = 1 => Range(Tail(s)) = {}
           /\ Len(s) # 1 => Tail(s) # << >>
  <1>1. /\ Len(s) \in Nat \ {0} /\ DOMAIN s = 1..Len(s) /\ Head(s) = s[1]
        /\ \A i \in 1..Len(s) : s[i] \in S
    OBVIOUS
  <1>2. /\ Tail(s) \in Seq(S) /\ Len(Tail(s)) = Len(s) - 1
        /\ DOMAIN Tail(s) = 1..(Len(s) - 1)
        /\ \A i \in 1..(Len(s) - 1) : Tail(s)[i] = s[i + 1]
    OBVIOUS
  <1>3. Distinct(Tail(s))
    BY <1>1, <1>2 DEF Distinct
  <1>4. Range(Tail(s)) = Range(s) \ {Head(s)}
    <2>1. ASSUME NEW i \in 1..(Len(s) - 1) PROVE Tail(s)[i] \in Range(s) \ {Head(s)}
      <3>1. i + 1 \in 1..Len(s) /\ 1 \in 1..Len(s) /\ i + 1 # 1
        BY <1>1
      <3> QED
        BY <1>1, <1>2, <3>1 DEF Distinct, Range
    <2>2. ASSUME NEW i \in 1..Len(s), s[i] # Head(s) PROVE s[i] \in Range(Tail(s))
      <3>1. i - 1 \in 1..(Len(s) - 1) /\ (i - 1) + 1 = i
        BY <1>1, <2>2
      <3> QED
        BY <1>2, <3>1 DEF Range
    <2> QED
      BY <1>1, <1>2, <2>1, <2>2 DEF Range
  <1>5. Head(s) \in S /\ Head(s) \in Range(s)
    BY <1>1 DEF Range
  <1>6. (Len(s) = 1 => Range(Tail(s)) = {}) /\ (Len(s) # 1 => Tail(s) # << >>)
    BY <1>1, <1>2 DEF Range
  <1> QED
    BY <1>2, <1>3, <1>4, <1>5, <1>6

\* If nobody has more to report, what is outstanding is covered as before.
LEMMA NothingMore ==
    ASSUME AttemptsCover, NEW n \in Denials, \A d \in Drainers : ToReport(d)' \subseteq ToReport(d)
    PROVE  /\ IsFiniteSet(Outstanding(n)) /\ IsFiniteSet(Outstanding(n)')
           /\ Cardinality(Outstanding(n)') <= Cardinality(Outstanding(n))
           /\ Cardinality(Outstanding(n)') \in Nat /\ Cardinality(Outstanding(n)) \in Nat
  <1>1. IsFiniteSet(Outstanding(n))
    BY DEF AttemptsCover
  <1>2. Outstanding(n)' \subseteq Outstanding(n)
    BY DEF Outstanding
  <1> QED
    BY <1>1, <1>2, FS_Subset, FS_CardinalityType

\* A step that counts nothing, locks nothing and lets nothing arrive.
LEMMA QuietOutbox ==
    ASSUME OutboxInv, OutboxTypes', LocksAreClaims', HandsAreRows',
           UNCHANGED << attempts, received >>, delivered' = delivered,
           \A d \in Drainers : ToReport(d)' \subseteq ToReport(d)
    PROVE  OutboxInv'
  <1>1. ASSUME NEW n \in Denials
        PROVE  /\ IsFiniteSet(Outstanding(n)')
               /\ received'[n] + Cardinality(Outstanding(n)') <= attempts'[n]
    BY NothingMore DEF OutboxInv, OutboxTypes, AttemptsCover
  <1>2. AttemptsCover'
    BY <1>1 DEF OutboxInv, AttemptsCover
  <1> QED
    BY <1>2 DEF OutboxInv

LEMMA DenyOutbox ==
    ASSUME OutboxInv, NEW n \in Denials, Deny(n) PROVE OutboxInv'
  <1>1. /\ outbox' = outbox \cup {n}
        /\ UNCHANGED << attempts, received, delivered, locked, hand, pc >>
    BY DEF Deny, drains
  <1>2. IsFiniteSet(outbox')
    BY <1>1, FS_AddElement DEF OutboxInv, OutboxTypes
  <1>3. OutboxTypes' /\ LocksAreClaims' /\ HandsAreRows'
    BY <1>1, <1>2 DEF OutboxInv, OutboxTypes, LocksAreClaims, HandsAreRows
  <1>4. \A d \in Drainers : ToReport(d)' \subseteq ToReport(d)
    BY <1>1 DEF ToReport
  <1> QED
    BY <1>1, <1>3, <1>4, QuietOutbox

LEMMA FlushOutbox ==
    ASSUME OutboxInv, NEW d \in Drainers, Flush(d) PROVE OutboxInv'
  <1>1. /\ outbox' \subseteq outbox /\ pc[d] = "idle" /\ pc' = [pc EXCEPT ![d] = "claim"]
        /\ UNCHANGED << attempts, received, delivered, locked, hand >>
    BY DEF Flush, At, Then
  <1>2. IsFiniteSet(outbox')
    BY <1>1, FS_Subset DEF OutboxInv, OutboxTypes
  <1>3. OutboxTypes' /\ LocksAreClaims' /\ HandsAreRows'
    BY <1>1, <1>2 DEF OutboxInv, OutboxTypes, LocksAreClaims, HandsAreRows
  <1>4. \A v \in Drainers : ToReport(v)' \subseteq ToReport(v)
    BY <1>1 DEF ToReport, OutboxInv, OutboxTypes
  <1> QED
    BY <1>1, <1>3, <1>4, QuietOutbox

\* The claim locks only what nobody has locked and what has an attempt left.
LEMMA ClaimOutbox ==
    ASSUME OutboxInv, NEW d \in Drainers, Claim(d) PROVE OutboxInv'
  <1> DEFINE free == {n \in outbox \ Others(d) : HasBudget(n)}
  <1>1. /\ locked' = [locked EXCEPT ![d] = Oldest(free)]
        /\ pc[d] = "claim" /\ pc' = [pc EXCEPT ![d] = "claiming"]
        /\ UNCHANGED << attempts, received, delivered, hand, outbox >>
    BY DEF Claim, At, Then, rows
  <1>2. Oldest(free) \subseteq outbox \ Others(d) /\ \A n \in Oldest(free) : HasBudget(n)
    BY DEF Oldest
  <1> HIDE DEF free
  <1>3. IsFiniteSet(Oldest(free)) /\ Oldest(free) \subseteq Denials
    BY <1>2, FS_Subset DEF OutboxInv, OutboxTypes
  <1>4. \A v \in Drainers \ {d} : Oldest(free) \cap locked[v] = {}
    BY <1>2 DEF Others
  <1>5. \A n \in Oldest(free) : attempts[n] < MaxAttempts
    BY <1>2 DEF HasBudget
  <1>6. OutboxTypes' /\ HandsAreRows'
    BY <1>1, <1>3 DEF OutboxInv, OutboxTypes, HandsAreRows
  <1>7. LocksAreClaims'
    <2>1. \A v \in Drainers : locked'[v] = IF v = d THEN Oldest(free) ELSE locked[v]
      BY <1>1 DEF OutboxInv, OutboxTypes
    <2>2. \A v \in Drainers : pc'[v] = IF v = d THEN "claiming" ELSE pc[v]
      BY <1>1 DEF OutboxInv, OutboxTypes
    <2> QED
      BY <1>1, <1>3, <1>4, <1>5, <2>1, <2>2 DEF OutboxInv, LocksAreClaims
  <1>8. \A v \in Drainers : ToReport(v)' \subseteq ToReport(v)
    BY <1>1 DEF ToReport, OutboxInv, OutboxTypes
  <1> QED
    BY <1>1, <1>6, <1>7, <1>8, QuietOutbox

\* A claim counts an attempt of each of its rows as it hands them out.
LEMMA ClaimedOutbox ==
    ASSUME OutboxInv, NEW d \in Drainers, Claimed(d) PROVE OutboxInv'
  <1> DEFINE L == locked[d]
  <1> USE DEF OutboxInv, OutboxTypes
  <1>1. PICK s \in SetToSeqs(L) : hand' = [hand EXCEPT ![d] = s]
    BY DEF Claimed
  <1>2. /\ pc[d] = "claiming" /\ attempts' = CountAttempts(L)
        /\ locked' = [locked EXCEPT ![d] = {}]
        /\ pc' = [pc EXCEPT ![d] = IF L = {} THEN "idle" ELSE "report"]
        /\ UNCHANGED << received, delivered, outbox >>
    BY DEF Claimed, At, Then
  <1>3. L \subseteq Denials /\ IsFiniteSet(L) /\ Cardinality(L) \in Nat
    BY FS_CardinalityType DEF LocksAreClaims
  <1>4. s \in Seq(Denials) /\ Distinct(s) /\ Range(s) \subseteq L /\ (L # {} => s # << >>)
    <2>1. s \in [1..Cardinality(L) -> L] /\ \A i, j \in 1..Cardinality(L) : i # j => s[i] # s[j]
      BY DEF SetToSeqs
    <2>2. s \in Seq(L) /\ Len(s) = Cardinality(L)
      BY <1>3, <2>1, ListOf
    <2>3. L # {} => Cardinality(L) # 0
      BY <1>3, FS_EmptySet
    <2>4. s \in Seq(Denials)
      BY <1>3, <2>2
    <2> QED
      BY <2>1, <2>2, <2>3, <2>4 DEF Distinct, Range
  <1>5. /\ attempts' \in [Denials -> Nat]
        /\ \A n \in Denials : attempts'[n] = attempts[n] + IF n \in L THEN 1 ELSE 0
    BY <1>2 DEF CountAttempts
  <1>6. OutboxTypes'
    BY <1>1, <1>2, <1>4, <1>5
  <1>7. LocksAreClaims'
    <2>1. \A v \in Drainers : /\ locked'[v] = IF v = d THEN {} ELSE locked[v]
                              /\ v # d => pc'[v] = pc[v]
      BY <1>2
    <2>2. ASSUME NEW v \in Drainers, v # d, NEW n \in locked[v] PROVE attempts'[n] < MaxAttempts
      BY <1>5, <2>2 DEF LocksAreClaims
    <2> QED
      BY <2>1, <2>2, FS_EmptySet DEF LocksAreClaims
  <1>8. HandsAreRows'
    BY <1>1, <1>2, <1>4 DEF HandsAreRows
  <1>9. \A v \in Drainers : IF v = d THEN ToReport(v) = {} /\ ToReport(v)' \subseteq L
                                     ELSE ToReport(v)' = ToReport(v)
    BY <1>1, <1>2, <1>4 DEF ToReport
  <1>10. AttemptsCover'
    <2> SUFFICES ASSUME NEW n \in Denials
                 PROVE  /\ IsFiniteSet(Outstanding(n)')
                        /\ received[n] + Cardinality(Outstanding(n)') <= attempts'[n]
                        /\ attempts'[n] <= MaxAttempts
      BY <1>2 DEF AttemptsCover
    <2>1. attempts'[n] <= MaxAttempts
      <3>1. MaxAttempts \in Nat /\ attempts[n] \in Nat
        BY EngineAssumption
      <3>2. attempts[n] <= MaxAttempts /\ (n \in L => attempts[n] < MaxAttempts)
        BY DEF AttemptsCover, LocksAreClaims
      <3> QED
        BY <1>5, <3>1, <3>2
    <2>2. IsFiniteSet(Outstanding(n)) /\ Cardinality(Outstanding(n)) \in Nat
      BY FS_CardinalityType DEF AttemptsCover
    <2>3. CASE n \in L
      <3>1. Outstanding(n)' \subseteq Outstanding(n) \cup {d}
        BY <1>9 DEF Outstanding
      <3>2. /\ IsFiniteSet(Outstanding(n) \cup {d})
            /\ Cardinality(Outstanding(n) \cup {d}) <= Cardinality(Outstanding(n)) + 1
            /\ Cardinality(Outstanding(n) \cup {d}) \in Nat
        BY <2>2, OneMore
      <3>3. /\ IsFiniteSet(Outstanding(n)') /\ Cardinality(Outstanding(n)') \in Nat
            /\ Cardinality(Outstanding(n)') <= Cardinality(Outstanding(n)) + 1
        BY <2>2, <3>1, <3>2, FS_Subset, FS_CardinalityType
      <3> QED
        BY <1>5, <2>1, <2>2, <2>3, <3>3 DEF AttemptsCover
    <2>4. CASE n \notin L
      <3>1. Outstanding(n)' \subseteq Outstanding(n)
        BY <1>9, <2>4 DEF Outstanding
      <3>2. /\ IsFiniteSet(Outstanding(n)') /\ Cardinality(Outstanding(n)') \in Nat
            /\ Cardinality(Outstanding(n)') <= Cardinality(Outstanding(n))
        BY <2>2, <3>1, FS_Subset, FS_CardinalityType
      <3> QED
        BY <1>5, <2>1, <2>2, <2>4, <3>2 DEF AttemptsCover
    <2> QED
      BY <2>3, <2>4
  <1> QED
    BY <1>6, <1>7, <1>8, <1>10

\* A row that is reported arrives at most once for it, and what is taken for
\* delivered has arrived.
LEMMA ReportShape ==
    ASSUME OutboxInv, NEW d \in Drainers, Report(d) \/ ReportSpared(d), NEW n, n = Head(hand[d])
    PROVE  /\ pc[d] = "report"
           /\ \E step \in {"ok", "failed"} :
                 /\ pc' = [pc EXCEPT ![d] = step]
                 /\ \/ received' = received /\ step = "failed"
                    \/ received' = [received EXCEPT ![n] = @ + 1]
           /\ UNCHANGED << attempts, outbox, locked, hand, delivered >>
  <1>1. CASE Report(d)
    BY <1>1 DEF Report, At, Then, Verdict
  <1>2. CASE ReportSpared(d)
    BY <1>2 DEF ReportSpared, At, Then, rows
  <1> QED
    BY <1>1, <1>2

LEMMA ReportOutbox ==
    ASSUME OutboxInv, NEW d \in Drainers, Report(d) \/ ReportSpared(d) PROVE OutboxInv'
  <1> SUFFICES ASSUME NEW n, n = Head(hand[d]) PROVE OutboxInv'
    OBVIOUS
  <1> USE DEF OutboxInv, OutboxTypes
  <1>1. PICK step \in {"ok", "failed"} :
          /\ pc[d] = "report" /\ pc' = [pc EXCEPT ![d] = step]
          /\ \/ received' = received /\ step = "failed"
             \/ received' = [received EXCEPT ![n] = @ + 1]
          /\ UNCHANGED << attempts, outbox, locked, hand, delivered >>
    BY ReportShape
  <1>2. /\ n \in Denials /\ n \in Range(hand[d])
        /\ Range(Tail(hand[d])) = Range(hand[d]) \ {n}
    BY <1>1, TailFacts DEF HandsAreRows
  <1>3. /\ received' \in [Denials -> Nat]
        /\ \A m \in Denials : /\ received[m] \in Nat /\ received[m] <= received'[m]
                              /\ received'[m] <= received[m] + 1
                              /\ m # n => received'[m] = received[m]
        /\ step = "ok" => received'[n] = received[n] + 1
    <2>1. CASE received' = received /\ step = "failed"
      BY <2>1
    <2>2. CASE received' = [received EXCEPT ![n] = @ + 1]
      BY <1>2, <2>2
    <2> QED
      BY <1>1, <2>1, <2>2
  <1>4. OutboxTypes' /\ LocksAreClaims' /\ \A m \in Denials : received[m] <= received'[m]
    <2>1. OutboxTypes'
      BY <1>1, <1>3
    <2>2. \A v \in Drainers : pc[v] = "claiming" => pc'[v] = "claiming"
      BY <1>1
    <2>3. LocksAreClaims'
      BY <1>1, <2>2 DEF LocksAreClaims
    <2> QED
      BY <1>3, <2>1, <2>3
  <1>5. HandsAreRows'
    <2>1. ASSUME NEW v \in Drainers, pc'[v] = "ok" PROVE received'[Head(hand[v])] > 0
      <3>1. CASE v = d
        BY <1>1, <1>2, <1>3, <2>1, <3>1
      <3>2. CASE v # d
        <4>1. pc[v] = "ok" /\ hand[v] # << >> /\ Head(hand[v]) \in Denials
          BY <1>1, <2>1, <3>2, TailFacts DEF HandsAreRows
        <4> QED
          BY <1>3, <1>4, <4>1 DEF HandsAreRows
      <3> QED
        BY <3>1, <3>2
    <2> QED
      BY <1>1, <2>1 DEF HandsAreRows
  <1>6. \A v \in Drainers : IF v = d THEN /\ ToReport(v) = Range(hand[d])
                                          /\ ToReport(v)' = Range(hand[d]) \ {n}
                                     ELSE ToReport(v)' = ToReport(v)
    BY <1>1, <1>2 DEF ToReport
  <1>7. AttemptsCover'
    <2> SUFFICES ASSUME NEW m \in Denials
                 PROVE  /\ IsFiniteSet(Outstanding(m)')
                        /\ received'[m] + Cardinality(Outstanding(m)') <= attempts[m]
      BY <1>1, <1>3, <1>4 DEF AttemptsCover
    <2>1. IsFiniteSet(Outstanding(m)) /\ Cardinality(Outstanding(m)) \in Nat
      BY FS_CardinalityType DEF AttemptsCover
    <2>2. CASE m = n
      <3>1. Outstanding(m)' = Outstanding(m) \ {d} /\ d \in Outstanding(m)
        BY <1>2, <1>6, <2>2 DEF Outstanding
      <3>2. /\ IsFiniteSet(Outstanding(m)')
            /\ Cardinality(Outstanding(m)') = Cardinality(Outstanding(m)) - 1
        BY <2>1, <3>1, OneLess
      <3>3. received[m] \in Nat /\ received'[m] <= received[m] + 1
        BY <1>3
      <3> QED
        BY <1>3, <2>1, <3>2, <3>3 DEF AttemptsCover
    <2>3. CASE m # n
      <3>1. Outstanding(m)' = Outstanding(m)
        BY <1>6, <2>3 DEF Outstanding
      <3>2. received'[m] = received[m]
        BY <1>3, <2>3
      <3> QED
        BY <3>1, <3>2 DEF AttemptsCover
    <2> QED
      BY <2>2, <2>3
  <1> QED
    BY <1>4, <1>5, <1>7

LEMMA MarkOutbox ==
    ASSUME OutboxInv, NEW d \in Drainers, Mark(d) PROVE OutboxInv'
  <1> USE DEF OutboxInv, OutboxTypes
  <1>1. /\ pc[d] \in {"ok", "failed"}
        /\ pc' = [pc EXCEPT ![d] = IF Len(hand[d]) = 1 THEN "idle" ELSE "report"]
        /\ hand' = [hand EXCEPT ![d] = Tail(hand[d])]
        /\ UNCHANGED << attempts, received, outbox, locked >>
    BY DEF Mark, Then
  <1>2. /\ Tail(hand[d]) \in Seq(Denials) /\ Distinct(Tail(hand[d]))
        /\ Len(hand[d]) = 1 => Range(Tail(hand[d])) = {}
        /\ Len(hand[d]) # 1 => Tail(hand[d]) # << >>
    BY <1>1, TailFacts DEF HandsAreRows
  <1>3. /\ delivered' \subseteq Denials
        /\ \A n \in delivered' : n \in delivered \/ received[n] > 0
    BY DEF Mark, At, HandsAreRows
  <1>4. OutboxTypes' /\ LocksAreClaims'
    BY <1>1, <1>2, <1>3 DEF LocksAreClaims
  <1>5. HandsAreRows'
    BY <1>1, <1>2 DEF HandsAreRows
  <1>6. \A v \in Drainers : ToReport(v)' \subseteq ToReport(v)
    BY <1>1, <1>2 DEF ToReport
  <1>7. AttemptsCover'
    <2>1. \A n \in Denials : /\ IsFiniteSet(Outstanding(n)')
                             /\ received[n] + Cardinality(Outstanding(n)') <= attempts[n]
      BY <1>6, NothingMore DEF AttemptsCover
    <2> QED
      BY <1>1, <1>3, <2>1 DEF AttemptsCover
  <1> QED
    BY <1>4, <1>5, <1>7

\* A drain that is cut off leaves its attempts counted and its rows to the next.
LEMMA CrashOutbox ==
    ASSUME OutboxInv, NEW d \in Drainers, Crash(d) PROVE OutboxInv'
  <1> USE DEF OutboxInv, OutboxTypes
  <1>1. /\ pc' = [pc EXCEPT ![d] = "idle"] /\ hand' = [hand EXCEPT ![d] = << >>]
        /\ locked' = [locked EXCEPT ![d] = {}]
        /\ UNCHANGED << attempts, received, delivered, outbox >>
    BY DEF Crash, Then, rows
  <1>2. OutboxTypes'
    BY <1>1
  <1>3. LocksAreClaims'
    BY <1>1, FS_EmptySet DEF LocksAreClaims
  <1>4. HandsAreRows'
    BY <1>1 DEF HandsAreRows, Distinct
  <1>5. \A v \in Drainers : ToReport(v)' \subseteq ToReport(v)
    BY <1>1 DEF ToReport
  <1> QED
    BY <1>1, <1>2, <1>3, <1>4, <1>5, QuietOutbox

LEMMA OutboxInit == Init => OutboxInv
  <1> SUFFICES ASSUME Init PROVE OutboxInv
    OBVIOUS
  <1>1. OutboxTypes /\ HandsAreRows
    BY FS_EmptySet DEF Init, OutboxTypes, HandsAreRows, Distinct
  <1>2. LocksAreClaims
    BY FS_EmptySet DEF Init, LocksAreClaims
  <1>3. \A n \in Denials : Outstanding(n) = {}
    BY DEF Init, Outstanding, ToReport
  <1>4. AttemptsCover
    <2>1. MaxAttempts \in Nat
      BY EngineAssumption
    <2>2. IsFiniteSet({}) /\ Cardinality({}) = 0
      BY FS_EmptySet
    <2> SUFFICES ASSUME NEW n \in Denials
                 PROVE  /\ IsFiniteSet(Outstanding(n))
                        /\ received[n] + Cardinality(Outstanding(n)) <= attempts[n]
                        /\ attempts[n] <= MaxAttempts /\ n \notin delivered
      BY DEF AttemptsCover
    <2>3. received[n] = 0 /\ attempts[n] = 0 /\ n \notin delivered
      BY DEF Init
    <2> QED
      BY <1>3, <2>1, <2>2, <2>3
  <1> QED
    BY <1>1, <1>2, <1>4 DEF OutboxInv

LEMMA OutboxStep ==
    ASSUME OutboxInv, [Next]_vars PROVE OutboxInv'
  <1>1. ASSUME UNCHANGED << outbox, attempts, delivered, received, locked, hand, pc >>
        PROVE  OutboxInv'
    <2>1. OutboxTypes' /\ LocksAreClaims' /\ HandsAreRows'
      BY <1>1 DEF OutboxInv, OutboxTypes, LocksAreClaims, HandsAreRows
    <2>2. \A v \in Drainers : ToReport(v)' \subseteq ToReport(v)
      BY <1>1 DEF ToReport
    <2> QED
      BY <1>1, <2>1, <2>2, QuietOutbox
  <1>2. CASE UNCHANGED vars
    BY <1>1, <1>2 DEF vars, rows, drains
  <1>3. ASSUME NEW e \in Endpoints, HalfOpen(e) PROVE OutboxInv'
    BY <1>1, <1>3 DEF HalfOpen, rows, drains
  <1>4. ASSUME NEW c \in Callers, SetOpenUntil(c) PROVE OutboxInv'
    BY <1>1, <1>4 DEF SetOpenUntil, rows, drains
  <1>5. ASSUME NEW m \in Movements, Screening(m) PROVE OutboxInv'
    BY <1>1, <1>5 DEF Screening, Ask, NoDecision, Unanswered, FailMatrix, Execute,
                      SettleRescore, Decided, rows, drains
  <1>6. ASSUME NEW d \in Drainers, Draining(d) PROVE OutboxInv'
    BY <1>6, FlushOutbox, ClaimOutbox, ClaimedOutbox, ReportOutbox, MarkOutbox DEF Draining
  <1> QED
    BY <1>2, <1>3, <1>4, <1>5, <1>6, DenyOutbox, CrashOutbox DEF Next

\* A denial is marked delivered only when the engine has received it, and it is
\* received no more often than attempts were counted, of which there are at most
\* MAX_DELIVERY_ATTEMPTS: for any number of drainers, which may hold the same row,
\* any batch, any crashes and any lost acknowledgements.
THEOREM DeliveriesAreHonest == Spec => []DeliveryIsHonest
  <1>1. OutboxInv /\ [Next]_vars => OutboxInv'
    BY OutboxStep
  <1>2. ASSUME OutboxInv PROVE DeliveryIsHonest
    <2> SUFFICES ASSUME NEW n \in Denials
                 PROVE  /\ n \in delivered => received[n] > 0
                        /\ received[n] <= attempts[n] /\ attempts[n] <= MaxAttempts
      BY DEF DeliveryIsHonest
    <2>1. Cardinality(Outstanding(n)) \in Nat
      BY <1>2, FS_CardinalityType DEF OutboxInv, AttemptsCover
    <2> QED
      BY <1>2, <2>1 DEF OutboxInv, OutboxTypes, AttemptsCover
  <1> QED
    BY <1>1, <1>2, OutboxInit, PTL DEF Spec
=============================================================================
