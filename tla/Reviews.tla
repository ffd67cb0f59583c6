------------------------------ MODULE Reviews ------------------------------
(***************************************************************************)
(* Movements the fraud engine holds: handlers/reviews.rs, and the parts of *)
(* transfer_money (handlers/transactions.rs) that replay, screen, post and *)
(* park.                                                                   *)
(*                                                                         *)
(* A held movement parks as a review.  Nothing drives it but the           *)
(* customer's polls: a poll takes back a claim whose lease is over,        *)
(* expires an overdue review, asks the engine for its case and, when the   *)
(* case is cleared, claims the review, posts the movement under its key    *)
(* and records the result.  Requests end after RequestTimeout wherever     *)
(* they are.                                                               *)
(*                                                                         *)
(* One customer with one funding account; every movement takes 1 of it.    *)
(* The posting itself is one step here: Movements shows that it is all or  *)
(* nothing.  Time is counted in ticks.                                     *)
(***************************************************************************)
EXTENDS Integers, FiniteSets

CONSTANTS
    Senders,         \* requests to move money, each made once
    Pollers,         \* the customer's polling clients, each polling for ever
    Parks,           \* rows of `pending_reviews`
    Keys,            \* callers' idempotency keys
    Funds,           \* the account's available balance
    RequestTimeout,  \* main.rs: TimeoutLayer
    Lease,           \* reviews.rs: RECLAIM_AFTER_SECONDS
    NoKey, NoPark

ASSUME ReviewNamesAssumption ==
    /\ NoKey \notin Keys /\ NoPark \notin Parks
    /\ Parks \cap (Keys \cup {NoKey}) = {} /\ Senders \cap Pollers = {}
    /\ Funds \in Nat
ASSUME ReviewTimesAssumption ==
    /\ RequestTimeout \in Nat \ {0} /\ Lease \in Nat
    /\ RequestTimeout < Lease

VARIABLES
    funds,
    posts,   \* posts[k]: movements posted under key k
    status, key, lease, overdue,  \* the rows of `pending_reviews`
    verdict, \* the engine's case of each: "open", "cleared" or "fraud"
    want,    \* the key each sender sends, NoKey if none
    about,   \* the review each poller asks for
    at, age  \* where each request stands, for how long

money == <<funds, posts>>
rows == <<status, key, lease, overdue>>
vars == <<money, rows, verdict, want, about, at, age>>

Calls == Senders \cup Pollers
Ended == {"posted", "parked", "refused", "gone"}
Live(c) == at[c] \notin Ended \cup {"idle"}
Open(v) == status[v] \in {"held", "executing"}
Final == {"executed", "refused", "expired"}

\* A poller that holds the claim of the review it polls.
Releasing(p) == at[p] \in {"release", "record", "fail"}

\* The key a release posts under: the caller's, or the review's own id.
ReleaseKey(v) == IF key[v] = NoKey THEN v ELSE key[v]

Init ==
    /\ funds = Funds /\ posts = [k \in Keys \cup {NoKey} \cup Parks |-> 0]
    /\ status = [v \in Parks |-> "none"] /\ key = [v \in Parks |-> NoKey]
    /\ lease = [v \in Parks |-> 0] /\ overdue = [v \in Parks |-> FALSE]
    /\ verdict = [v \in Parks |-> "open"]
    /\ want = [c \in Senders |-> NoKey] /\ about = [p \in Pollers |-> NoPark]
    /\ at = [c \in Calls |-> "idle"] /\ age = [c \in Calls |-> 0]

Goto(c, where) ==
    /\ at' = [at EXCEPT ![c] = where]
    /\ age' = [age EXCEPT ![c] = IF where \in Ended \cup {"idle"} THEN 0 ELSE @]
    /\ UNCHANGED <<verdict, want, about>>

-----------------------------------------------------------------------------
(* The posting. *)

\* Mutant: no unique index on the key.
PostTwice(k) ==
    /\ posts' = [posts EXCEPT ![k] = @ + 1]
    /\ funds' = funds - 1

\* Under a key the winner of the unique index is returned; without one nothing
\* is recognised.
Post(k) ==
    IF k # NoKey /\ posts[k] > 0
    THEN UNCHANGED money
    ELSE posts' = [posts EXCEPT ![k] = @ + 1] /\ funds' = funds - 1

\* The funds are checked before the key can be found taken.  Limits or the core
\* may also fail a movement, and so may a lost acknowledgement of its commit or
\* the read of what it posted.
Move(c, k, done, failed) ==
    \/ funds > 0 /\ Post(k) /\ (Goto(c, done) \/ Goto(c, failed))
    \/ UNCHANGED money /\ Goto(c, failed)

-----------------------------------------------------------------------------
(* A request to move money. *)

Send(c) ==
    /\ at[c] = "idle"
    /\ \E k \in Keys \cup {NoKey} :
         /\ want' = [want EXCEPT ![c] = k]
         /\ at' = [at EXCEPT ![c] = IF k = NoKey THEN "screen" ELSE "replay"]
    /\ UNCHANGED <<money, rows, verdict, about, age>>

Replay(c) ==
    /\ at[c] = "replay"
    /\ Goto(c, IF posts[want[c]] > 0 THEN "posted" ELSE "lookup")
    /\ UNCHANGED <<money, rows>>

\* open_park_for.
Lookup(c) ==
    /\ at[c] = "lookup"
    /\ Goto(c, IF \E v \in Parks : Open(v) /\ key[v] = want[c]
               THEN "parked" ELSE "screen")
    /\ UNCHANGED <<money, rows>>

\* The engine clears the movement, holds it, or has it refused.
Screen(c) ==
    /\ at[c] = "screen"
    /\ \E next \in {"post", "park", "refused"} : Goto(c, next)
    /\ UNCHANGED <<money, rows>>

PostCleared(c) ==
    /\ at[c] = "post"
    /\ Move(c, want[c], "posted", "refused")
    /\ UNCHANGED rows

\* Mutant: a new review whether or not one is open.
ParkAnother(c) ==
    /\ at[c] = "park"
    /\ \E v \in Parks :
         /\ status[v] = "none"
         /\ status' = [status EXCEPT ![v] = "held"]
         /\ key' = [key EXCEPT ![v] = want[c]]
    /\ Goto(c, "parked")
    /\ UNCHANGED <<money, lease, overdue>>

\* park: INSERT ... ON CONFLICT adopts the open review of the same key.
Park(c) ==
    /\ at[c] = "park"
    /\ IF want[c] # NoKey /\ \E v \in Parks : Open(v) /\ key[v] = want[c]
       THEN UNCHANGED <<status, key>>
       ELSE \E v \in Parks :
              /\ status[v] = "none"
              /\ status' = [status EXCEPT ![v] = "held"]
              /\ key' = [key EXCEPT ![v] = want[c]]
    /\ Goto(c, "parked")
    /\ UNCHANGED <<money, lease, overdue>>

-----------------------------------------------------------------------------
(* A poll: get_review. *)

StartPoll(p) ==
    /\ at[p] = "idle"
    /\ \E v \in Parks : status[v] # "none" /\ about' = [about EXCEPT ![p] = v]
    /\ at' = [at EXCEPT ![p] = "reclaim"]
    /\ UNCHANGED <<money, rows, verdict, want, age>>

\* Mutant: claims are given up as soon as a request could have timed out.
LeaseOverEarly(v) == lease[v] >= RequestTimeout

LeaseOver(v) == lease[v] >= Lease

\* Mutant: nothing is reclaimed.
SkipReclaim(p) ==
    /\ at[p] = "reclaim" /\ Goto(p, "load") /\ UNCHANGED <<money, rows>>

\* reclaim_stranded.
Reclaim(p) ==
    /\ at[p] = "reclaim"
    /\ LET v == about[p] IN
         IF status[v] = "executing" /\ LeaseOver(v)
         THEN status' = [status EXCEPT ![v] = "held"] /\ lease' = [lease EXCEPT ![v] = 0]
         ELSE UNCHANGED <<status, lease>>
    /\ Goto(p, "load")
    /\ UNCHANGED <<money, key, overdue>>

\* The poll ends when there is nothing to advance; expiry comes before the
\* engine.
Load(p) ==
    /\ at[p] = "load"
    /\ LET v == about[p] IN
         Goto(p, IF status[v] # "held" THEN "idle"
                 ELSE IF overdue[v] THEN "expire" ELSE "ask")
    /\ UNCHANGED <<money, rows>>

\* The case in the engine, which may be out of reach.
Ask(p) ==
    /\ at[p] = "ask"
    /\ \/ Goto(p, CASE verdict[about[p]] = "cleared" -> "claim"
                    [] verdict[about[p]] = "fraud"   -> "refuse"
                    [] verdict[about[p]] = "open"    -> "idle")
       \/ Goto(p, "idle")
    /\ UNCHANGED <<money, rows>>

\* finish: only a review that is still held is resolved.
Finish(p) ==
    /\ at[p] \in {"expire", "refuse"}
    /\ LET v == about[p]  how == IF at[p] = "expire" THEN "expired" ELSE "refused" IN
         status' = [status EXCEPT ![v] = IF @ = "held" THEN how ELSE @]
    /\ Goto(p, "idle")
    /\ UNCHANGED <<money, key, lease, overdue>>

\* release: the exclusive claim first.
Claim(p) ==
    /\ at[p] = "claim"
    /\ LET v == about[p] IN
         IF status[v] = "held"
         THEN /\ status' = [status EXCEPT ![v] = "executing"]
              /\ lease' = [lease EXCEPT ![v] = 0]
              /\ Goto(p, "release")
         ELSE UNCHANGED <<status, lease>> /\ Goto(p, "idle")
    /\ UNCHANGED <<money, key, overdue>>

Release(p) ==
    /\ at[p] = "release"
    /\ Move(p, ReleaseKey(about[p]), "record", "fail")
    /\ UNCHANGED rows

\* Mutant: the failure's branch also records executed.
RecordAnyway(p) ==
    /\ at[p] \in {"record", "fail"}
    /\ status' = [status EXCEPT ![about[p]] = "executed"]
    /\ Goto(p, "idle")
    /\ UNCHANGED <<money, key, lease, overdue>>

\* The result is written whatever the row's status has become.
Record(p) ==
    /\ at[p] \in {"record", "fail"}
    /\ status' = [status EXCEPT ![about[p]] =
                    IF at[p] = "record" THEN "executed" ELSE "refused"]
    /\ lease' = [lease EXCEPT ![about[p]] = 0]
    /\ Goto(p, "idle")
    /\ UNCHANGED <<money, key, overdue>>

-----------------------------------------------------------------------------
(* The surroundings. *)

\* The engine's reviewer decides a case, once.
Decide(v) ==
    /\ status[v] # "none" /\ verdict[v] = "open"
    /\ \E how \in {"cleared", "fraud"} : verdict' = [verdict EXCEPT ![v] = how]
    /\ UNCHANGED <<money, rows, want, about, at, age>>

Overdue(v) ==
    /\ Open(v) /\ ~overdue[v]
    /\ overdue' = [overdue EXCEPT ![v] = TRUE]
    /\ UNCHANGED <<money, status, key, lease, verdict, want, about, at, age>>

\* The request ends where it is; a poller will poll again.
Drop(c) ==
    /\ Live(c)
    /\ Goto(c, IF c \in Pollers THEN "idle" ELSE "gone")
    /\ UNCHANGED <<money, rows>>
TimeOut(c) == age[c] = RequestTimeout /\ Drop(c)

\* Time passes, but for no live request beyond its time.
Tick ==
    /\ \A c \in Calls : Live(c) => age[c] < RequestTimeout
    /\ age' = [c \in Calls |-> IF Live(c) THEN age[c] + 1 ELSE age[c]]
    /\ lease' = [v \in Parks |-> IF status[v] = "executing" /\ lease[v] < Lease
                                 THEN lease[v] + 1 ELSE lease[v]]
    /\ UNCHANGED <<money, status, key, overdue, verdict, want, about, at>>

Sender(c) == Send(c) \/ Replay(c) \/ Lookup(c) \/ Screen(c) \/ PostCleared(c) \/ Park(c)
Poller(p) == StartPoll(p) \/ Reclaim(p) \/ Load(p) \/ Ask(p) \/ Finish(p)
             \/ Claim(p) \/ Release(p) \/ Record(p)

Next ==
    \/ \E c \in Senders : Sender(c)
    \/ \E p \in Pollers : Poller(p)
    \/ \E c \in Calls : Drop(c)
    \/ \E v \in Parks : Decide(v) \/ Overdue(v)
    \/ Tick

Spec == Init /\ [][Next]_vars

\* The customer polls on, each statement of a poll that is tried for ever
\* eventually succeeds, time passes and reviews become overdue.
Fairness ==
    /\ WF_vars(Tick)
    /\ \A c \in Calls : WF_vars(TimeOut(c))
    /\ \A v \in Parks : WF_vars(Overdue(v))
    /\ \A p \in Pollers :
         /\ SF_vars(StartPoll(p)) /\ SF_vars(Reclaim(p)) /\ SF_vars(Load(p))
         /\ SF_vars(Finish(p))
LiveSpec == Spec /\ Fairness
-----------------------------------------------------------------------------
(* Properties. *)

TypeOK ==
    /\ funds \in 0..Funds /\ posts \in [Keys \cup {NoKey} \cup Parks -> Nat]
    /\ status \in [Parks -> {"none", "held", "executing"} \cup Final]
    /\ key \in [Parks -> Keys \cup {NoKey}]
    /\ lease \in [Parks -> 0..Lease] /\ overdue \in [Parks -> BOOLEAN]
    /\ verdict \in [Parks -> {"open", "cleared", "fraud"}]
    /\ want \in [Senders -> Keys \cup {NoKey}] /\ about \in [Pollers -> Parks \cup {NoPark}]
    /\ at \in [Calls -> Ended \cup {"idle", "replay", "lookup", "screen", "post", "park",
                  "reclaim", "load", "ask", "expire", "refuse", "claim", "release",
                  "record", "fail"}]
    /\ age \in [Calls -> 0..RequestTimeout]

\* The result is written without looking at the row again, so it must be the
\* claimant's to write: while a poller releases a review nobody takes the claim
\* away, resolves the review or releases it too.
ReleaseExclusive ==
    /\ \A p \in Pollers : Releasing(p) => status[about[p]] = "executing"
    /\ \A p, q \in Pollers :
         Releasing(p) /\ Releasing(q) /\ about[p] = about[q] => p = q

\* A key moves money once, and so does a review without a key, however polls,
\* crashes, reclaims and the sender's retries interleave.
PaidOnce == \A k \in Keys \cup Parks : posts[k] <= 1

\* "executed" is final for a polling customer: the money has moved, and by no
\* case but a cleared one.
ExecutedIsPaid ==
    \A v \in Parks : status[v] = "executed" =>
        posts[ReleaseKey(v)] > 0 /\ verdict[v] = "cleared"

\* Retries of one request wait behind one review.
OneOpenPark ==
    \A v, w \in Parks :
        Open(v) /\ Open(w) /\ key[v] = key[w] /\ key[v] # NoKey => v = w

\* Held money does not wait for ever: for a customer who keeps polling every
\* review ends, whatever the reviewer and the engine do.
EveryReviewEnds == \A v \in Parks : Open(v) ~> status[v] \in Final

\* The customer is not told that a movement was refused after it was sent.
RefusedIsUnsent ==
    \A v \in Parks : status[v] = "refused" => posts[ReleaseKey(v)] = 0
=============================================================================
