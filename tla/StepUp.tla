------------------------------- MODULE StepUp -------------------------------
(***************************************************************************)
(* Agent transfers under a mandate and their step-up approvals:            *)
(* handlers/agent_api.rs, handlers/approvals.rs, policy.rs and the         *)
(* revocation in handlers/mandates.rs.                                     *)
(*                                                                         *)
(* An agent's transfer over its mandate's caps parks as an ask.  The       *)
(* customer approves it (claims it, executes the transfer with the caps    *)
(* overridden, finalizes it) or declines it.  A claim is a lease: when it  *)
(* is old enough, any reader takes the ask back, and expires it if it is   *)
(* overdue.  Requests end after RequestTimeout wherever they are, so a     *)
(* request may move the money and never record it.                         *)
(*                                                                         *)
(* The transfer itself is one step here: Movements shows that it is all or *)
(* nothing.  Time is counted in ticks; one mandate, one customer.          *)
(***************************************************************************)
EXTENDS Integers, FiniteSets

CONSTANTS
    Calls,            \* API requests, each made once
    Asks,             \* rows of `pending_approvals`
    Keys,             \* the idempotency keys of the agent's transfers
    Amount,           \* Amount[k]: what the transfer with key k moves
    PerTx, DailyCap,  \* the mandate's max_per_tx and daily_cap
    RequestTimeout,   \* main.rs: TimeoutLayer
    Lease,            \* approvals.rs: RECLAIM_AFTER_SECONDS
    Days,             \* bound: how many times the date changes
    NoKey, NoAsk

ASSUME CapsAssumption ==
    /\ Amount \in [Keys -> Nat \ {0}] /\ PerTx \in Nat /\ DailyCap \in Nat
    /\ NoKey \notin Keys /\ NoAsk \notin Asks
ASSUME TimesAssumption ==
    /\ RequestTimeout \in Nat \ {0} /\ Lease \in Nat /\ Days \in Nat
    /\ RequestTimeout < Lease

VARIABLES
    mandate,  \* "active" or "revoked"
    used,     \* mandates.daily_used, as of today
    day,
    posts,    \* posts[k]: committed transfers with key k
    spent,    \* what those of today moved (a history variable)
    status, key, lease, overdue,  \* the rows of `pending_approvals`
    op, ask, want, at, age        \* the requests: what each asks for, its
                                  \* ask and key, where it stands, for how long

money == <<mandate, used, day, posts, spent>>
rows == <<status, key, lease, overdue>>
vars == <<money, rows, op, ask, want, at, age>>

Ended == {"paid", "accepted", "refused", "gone"}
Live(c) == at[c] \notin Ended \cup {"idle"}
Open(a) == status[a] \in {"pending", "executing"}

\* An approver that holds the claim of its ask.
Executing(c) == at[c] \in {"find", "execute", "finalize", "revert"}

Init ==
    /\ mandate = "active" /\ used = 0 /\ day = 0 /\ spent = 0
    /\ posts = [k \in Keys |-> 0]
    /\ status = [a \in Asks |-> "none"] /\ key = [a \in Asks |-> NoKey]
    /\ lease = [a \in Asks |-> 0] /\ overdue = [a \in Asks |-> FALSE]
    /\ op = [c \in Calls |-> "none"] /\ ask = [c \in Calls |-> NoAsk]
    /\ want = [c \in Calls |-> NoKey]
    /\ at = [c \in Calls |-> "idle"] /\ age = [c \in Calls |-> 0]

Goto(c, where) ==
    /\ at' = [at EXCEPT ![c] = where]
    /\ age' = [age EXCEPT ![c] = IF where \in Ended THEN 0 ELSE @]
    /\ UNCHANGED <<op, ask, want>>

-----------------------------------------------------------------------------
(* Requests. *)

Begin(c, what, a, k, first) ==
    /\ at[c] = "idle"
    /\ op' = [op EXCEPT ![c] = what] /\ ask' = [ask EXCEPT ![c] = a]
    /\ want' = [want EXCEPT ![c] = k] /\ at' = [at EXCEPT ![c] = first]
    /\ UNCHANGED <<money, rows, age>>

\* The customer's approve and decline; the agent's transfer, for which the
\* request's token needs an active mandate.
AskApprove(c) == \E a \in Asks : status[a] # "none" /\ Begin(c, "approve", a, key[a], "sweep")
AskDecline(c) == \E a \in Asks : status[a] # "none" /\ Begin(c, "decline", a, key[a], "sweep")
AskTransfer(c) == mandate = "active" /\ \E k \in Keys : Begin(c, "transfer", NoAsk, k, "replay")

\* Mutant: claims are given up as soon as a request could have timed out.
LeaseOverEarly(a) == lease[a] >= RequestTimeout

LeaseOver(a) == lease[a] >= Lease

\* Mutant: a dead claim is left as it is.
ExpireOnly(S) ==
    /\ status' = [a \in Asks |->
         IF a \in S /\ status[a] = "pending" /\ overdue[a] THEN "expired" ELSE status[a]]
    /\ UNCHANGED <<key, lease, overdue>>

\* reclaim_and_expire over a set of asks: dead claims return to pending, then
\* whatever is pending and overdue expires.
ReclaimAndExpire(S) ==
    LET dead == {a \in S : status[a] = "executing" /\ LeaseOver(a)}
        pending == dead \cup {a \in S : status[a] = "pending"}
    IN  /\ status' = [a \in Asks |-> IF a \in pending
                                     THEN IF overdue[a] THEN "expired" ELSE "pending"
                                     ELSE status[a]]
        /\ lease' = [a \in Asks |-> IF a \in dead THEN 0 ELSE lease[a]]
        /\ UNCHANGED <<key, overdue>>

Sweep(c) ==
    /\ at[c] = "sweep"
    /\ ReclaimAndExpire(Asks)
    /\ Goto(c, IF op[c] = "approve" THEN "claim" ELSE "flip")
    /\ UNCHANGED money

\* Mutant: the claim already writes the final status.
ClaimApproved(c) ==
    /\ at[c] = "claim"
    /\ IF status[ask[c]] = "pending"
       THEN status' = [status EXCEPT ![ask[c]] = "approved"] /\ Goto(c, "find")
       ELSE UNCHANGED status /\ Goto(c, "refused")
    /\ UNCHANGED <<money, key, lease, overdue>>

\* UPDATE ... SET status = 'executing' WHERE status = 'pending'.
Claim(c) ==
    /\ at[c] = "claim"
    /\ IF status[ask[c]] = "pending"
       THEN /\ status' = [status EXCEPT ![ask[c]] = "executing"]
            /\ lease' = [lease EXCEPT ![ask[c]] = 0]
            /\ Goto(c, "find")
       ELSE UNCHANGED <<status, lease>> /\ Goto(c, "refused")
    /\ UNCHANGED <<money, key, overdue>>

\* find_by_idempotency_key: money that has moved is adopted.
Find(c) ==
    /\ at[c] = "find"
    /\ Goto(c, IF posts[want[c]] > 0 THEN "finalize" ELSE "execute")
    /\ UNCHANGED <<money, rows>>

-----------------------------------------------------------------------------
(* The transfer, from its screening to its commit. *)

\* Mutants: an approved overage is not reserved, or not cut to the cap.
ReserveOwn(n, override) == IF override THEN used ELSE used + n
ReserveAll(n, override) == used + n

\* What daily_used becomes: an approved overage saturates it.
Reserve(n, override) == IF used + n > DailyCap THEN DailyCap ELSE used + n

OverCaps(n) == n > PerTx \/ used + n > DailyCap

\* Mutant: no unique index on the key.
PostAgain(c, override) ==
    /\ posts' = [posts EXCEPT ![want[c]] = @ + 1]
    /\ used' = Reserve(Amount[want[c]], override)
    /\ spent' = spent + Amount[want[c]]
    /\ UNCHANGED <<mandate, day>>

\* The key's unique index: the transfer posts, or the winner is returned and
\* the reservation rolled back.
Post(c, override) ==
    LET n == Amount[want[c]] IN
    /\ IF posts[want[c]] = 0
       THEN /\ posts' = [posts EXCEPT ![want[c]] = 1]
            /\ used' = Reserve(n, override)
            /\ spent' = spent + n
       ELSE UNCHANGED <<posts, used, spent>>
    /\ UNCHANGED <<mandate, day>>

\* Screening, funds, limits or the core may fail any transfer, and so may a
\* lost acknowledgement of its commit or the read of what it posted.
Execute(c) ==
    /\ at[c] = "execute"
    /\ \/ mandate = "active" /\ Post(c, TRUE)
          /\ (Goto(c, "finalize") \/ Goto(c, "revert"))
       \/ UNCHANGED money /\ Goto(c, "revert")
    /\ UNCHANGED rows

\* The guarded end of a claim: UPDATE ... WHERE status = 'executing'.
EndClaim(a, how) ==
    /\ IF status[a] = "executing"
       THEN status' = [status EXCEPT ![a] = how] /\ lease' = [lease EXCEPT ![a] = 0]
       ELSE UNCHANGED <<status, lease>>
    /\ UNCHANGED <<money, key, overdue>>

\* finalize_approved, unless the claim was lost: the customer is answered with
\* the transfer either way.
Finalize(c) ==
    /\ at[c] = "finalize"
    /\ EndClaim(ask[c], "approved")
    /\ Goto(c, "paid")

\* A failed execution gives its claim back.
Revert(c) ==
    /\ at[c] = "revert"
    /\ EndClaim(ask[c], "pending")
    /\ Goto(c, "refused")

Decline(c) ==
    /\ at[c] = "flip"
    /\ IF status[ask[c]] = "pending"
       THEN status' = [status EXCEPT ![ask[c]] = "declined"] /\ Goto(c, "accepted")
       ELSE UNCHANGED status /\ Goto(c, "refused")
    /\ UNCHANGED <<money, key, lease, overdue>>

-----------------------------------------------------------------------------
(* The agent's transfer. *)

Replay(c) ==
    /\ at[c] = "replay"
    /\ Goto(c, IF posts[want[c]] > 0 THEN "paid" ELSE "lookup")
    /\ UNCHANGED <<money, rows>>

\* A retry of a transfer that is parked gets the same ask.
Lookup(c) ==
    /\ at[c] = "lookup"
    /\ LET parked == \E a \in Asks : Open(a) /\ key[a] = want[c] /\ ~overdue[a]
       IN  Goto(c, IF parked THEN "accepted" ELSE "attempt")
    /\ UNCHANGED <<money, rows>>

Attempt(c) ==
    /\ at[c] = "attempt"
    /\ \/ /\ mandate = "active" /\ ~OverCaps(Amount[want[c]])
          /\ Post(c, FALSE)
          /\ (Goto(c, "paid") \/ Goto(c, "refused"))
       \/ mandate = "active" /\ OverCaps(Amount[want[c]])
          /\ UNCHANGED money /\ Goto(c, "park")
       \/ UNCHANGED money /\ Goto(c, "refused")
    /\ UNCHANGED rows

\* Mutant: the ask is inserted whether or not one is open.
ParkAnother(c) ==
    /\ at[c] = "park"
    /\ \E a \in Asks :
         /\ status[a] = "none"
         /\ status' = [status EXCEPT ![a] = "pending"]
         /\ key' = [key EXCEPT ![a] = want[c]]
    /\ Goto(c, "accepted")
    /\ UNCHANGED <<money, lease, overdue>>

\* park_pending_approval: INSERT ... ON CONFLICT adopts the open ask.
Park(c) ==
    /\ at[c] = "park"
    /\ IF \E a \in Asks : Open(a) /\ key[a] = want[c]
       THEN UNCHANGED <<status, key>>
       ELSE \E a \in Asks :
              /\ status[a] = "none"
              /\ status' = [status EXCEPT ![a] = "pending"]
              /\ key' = [key EXCEPT ![a] = want[c]]
    /\ Goto(c, "accepted")
    /\ UNCHANGED <<money, lease, overdue>>

-----------------------------------------------------------------------------
(* The surroundings. *)

\* list_approvals, and the agent's get_approval_status.
Read(S) ==
    /\ ReclaimAndExpire(S)
    /\ UNCHANGED <<money, op, ask, want, at, age>>
Poll == Read(Asks) \/ \E a \in Asks : Read({a})

Revoke ==
    /\ mandate = "active" /\ mandate' = "revoked"
    /\ UNCHANGED <<used, day, posts, spent, rows, op, ask, want, at, age>>

\* The date changes: daily_used is read as 0 from then on.
NewDay ==
    /\ day < Days /\ day' = day + 1
    /\ used' = 0 /\ spent' = 0
    /\ UNCHANGED <<mandate, posts, rows, op, ask, want, at, age>>

\* expires_at passes.
Overdue(a) ==
    /\ Open(a) /\ ~overdue[a]
    /\ overdue' = [overdue EXCEPT ![a] = TRUE]
    /\ UNCHANGED <<money, status, key, lease, op, ask, want, at, age>>

\* The request ends where it is: its time is over, its client has gone, or the
\* process has crashed.
Drop(c) ==
    /\ Live(c)
    /\ Goto(c, "gone")
    /\ UNCHANGED <<money, rows>>
TimeOut(c) == age[c] = RequestTimeout /\ Drop(c)

\* Time passes, but for no live request beyond its time.
Tick ==
    /\ \A c \in Calls : Live(c) => age[c] < RequestTimeout
    /\ age' = [c \in Calls |-> IF Live(c) THEN age[c] + 1 ELSE age[c]]
    /\ lease' = [a \in Asks |-> IF status[a] = "executing" /\ lease[a] < Lease
                                THEN lease[a] + 1 ELSE lease[a]]
    /\ UNCHANGED <<money, status, key, overdue, op, ask, want, at>>

Approver(c) == Claim(c) \/ Find(c) \/ Execute(c) \/ Finalize(c) \/ Revert(c)
Agent(c) == Replay(c) \/ Lookup(c) \/ Attempt(c) \/ Park(c)
Step(c) == Sweep(c) \/ Approver(c) \/ Decline(c) \/ Agent(c)

Next ==
    \/ \E c \in Calls :
         AskApprove(c) \/ AskDecline(c) \/ AskTransfer(c) \/ Step(c) \/ Drop(c)
    \/ Poll \/ Revoke \/ NewDay \/ Tick
    \/ \E a \in Asks : Overdue(a)

Spec == Init /\ [][Next]_vars

\* Time passes, requests time out, and somebody keeps reading the asks.
Fairness ==
    /\ WF_vars(Tick) /\ WF_vars(Read(Asks))
    /\ \A c \in Calls : WF_vars(TimeOut(c))
LiveSpec == Spec /\ Fairness
-----------------------------------------------------------------------------
(* Properties. *)

TypeOK ==
    /\ mandate \in {"active", "revoked"} /\ used \in 0..DailyCap
    /\ day \in 0..Days /\ spent \in Nat /\ posts \in [Keys -> Nat]
    /\ status \in [Asks -> {"none", "pending", "executing", "approved",
                            "declined", "expired"}]
    /\ key \in [Asks -> Keys \cup {NoKey}]
    /\ \A a \in Asks : status[a] # "none" => key[a] \in Keys
    /\ lease \in [Asks -> 0..Lease] /\ overdue \in [Asks -> BOOLEAN]
    /\ op \in [Calls -> {"none", "approve", "decline", "transfer"}]
    /\ ask \in [Calls -> Asks \cup {NoAsk}] /\ want \in [Calls -> Keys \cup {NoKey}]
    /\ at \in [Calls -> Ended \cup {"idle", "sweep", "claim", "flip", "find",
                  "execute", "finalize", "revert", "replay", "lookup", "attempt", "park"}]
    /\ age \in [Calls -> 0..RequestTimeout]

\* A claim is never taken from an approver that is still executing: no reader,
\* however late the hour, reclaims it, and no second approver executes the same
\* ask, so the transfer that posts is the one its ask records.
ClaimHeld ==
    /\ \A c \in Calls : Executing(c) => status[ask[c]] = "executing"
    /\ \A c, d \in Calls : Executing(c) /\ Executing(d) /\ ask[c] = ask[d] => c = d

\* However approvals, reclaims, retries and the agent's own attempts interleave,
\* a key moves money once.
PaidOnce == \A k \in Keys : posts[k] <= 1

\* An agent may treat "approved" as final: its money has moved.
ApprovedIsPaid == \A a \in Asks : status[a] = "approved" => posts[key[a]] > 0

\* One transfer has one open ask, so it cannot be approved twice at once.
OneOpenAsk ==
    \A a, b \in Asks : Open(a) /\ Open(b) /\ key[a] = key[b] => a = b

\* What the agent moves by itself keeps the day's spending under the cap, and
\* the overages approved earlier that day count.
AgentPosts(c) == at[c] = "attempt" /\ at'[c] # "attempt" /\ posts' # posts
WithinDailyCap == [][\A c \in Calls : AgentPosts(c) => spent' <= DailyCap]_vars

\* A crash cannot strand an ask: a claim ends, in a result or by being taken
\* back.
ClaimEnds == \A a \in Asks : status[a] = "executing" ~> status[a] # "executing"

\* Declining an ask kills its transfer: money never moves, nor has moved, for
\* an ask that ends declined.
DeclinedIsUnpaid ==
    \A a \in Asks : status[a] = "declined" => posts[key[a]] = 0
=============================================================================
