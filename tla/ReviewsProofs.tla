--------------------------- MODULE ReviewsProofs ---------------------------
(***************************************************************************)
(* Theorems about held movements and their release, for any number of      *)
(* senders, polling clients, reviews and keys, and any lease that is       *)
(* longer than a request may run.                                          *)
(***************************************************************************)
EXTENDS Reviews, TLAPS

-----------------------------------------------------------------------------
(* The inductive invariant. *)

OnClaim == {"claim", "release", "record", "fail"}
OnReview == {"reclaim", "load", "ask", "expire", "refuse"} \cup OnClaim

\* A poll in progress has a review that exists; it claims one only when the
\* engine has cleared the case, and records only what was posted.  A request
\* that looks for its key has one.
InHand ==
    /\ \A p \in Pollers :
         /\ at[p] \in OnReview => about[p] \in Parks /\ status[about[p]] # "none"
         /\ at[p] \in OnClaim => verdict[about[p]] = "cleared"
         /\ at[p] = "record" => posts[ReleaseKey(about[p])] > 0
    /\ \A c \in Senders : at[c] \in {"replay", "lookup"} => want[c] \in Keys

\* A claim has one holder, and is no older than its holder's poll.
ClaimKept ==
    /\ \A p \in Pollers : Releasing(p) =>
         status[about[p]] = "executing" /\ lease[about[p]] <= age[p]
    /\ \A p, q \in Pollers :
         Releasing(p) /\ Releasing(q) /\ about[p] = about[q] => p = q

Inv ==
    /\ TypeOK
    /\ InHand
    /\ ClaimKept
    /\ PaidOnce
    /\ ExecutedIsPaid
    /\ OneOpenPark

AllKeys == Keys \cup {NoKey} \cup Parks

-----------------------------------------------------------------------------
(* Steps that leave money and reviews alone. *)

\* A step of a request that only decides where it stands next.
LEMMA GotoInv ==
    ASSUME Inv, NEW c \in Calls, NEW where, Goto(c, where), UNCHANGED <<money, rows>>,
           \/ where \in Ended \cup {"idle"}
           \/ c \in Senders /\ where \in {"lookup", "screen", "post", "park"}
                /\ (where = "lookup" => want[c] \in Keys)
           \/ c \in Pollers /\ at[c] \in OnReview
                /\ where \in {"load", "ask", "expire", "refuse", "claim"}
                /\ (where = "claim" => verdict[about[c]] = "cleared")
           \/ c \in Pollers /\ at[c] = "release" /\ where = "fail"
    PROVE  Inv'
  <1> USE DEF Inv
  <1>1. /\ at' = [at EXCEPT ![c] = where]
        /\ UNCHANGED <<verdict, want, about, money, rows>>
        /\ age' \in [Calls -> 0..RequestTimeout]
        /\ \A d \in Calls : d # c \/ where \notin Ended \cup {"idle"} => age'[d] = age[d]
    BY ReviewTimesAssumption DEF Goto, TypeOK
  <1>2. TypeOK'
    BY <1>1 DEF TypeOK, money, rows, OnReview, OnClaim
  <1>3. InHand'
    BY <1>1, ReviewNamesAssumption
       DEF InHand, TypeOK, money, rows, OnReview, OnClaim, Ended, ReleaseKey, Calls
  <1>4. ClaimKept'
    <2>1. \A p \in Pollers : Releasing(p)' => Releasing(p) /\ age'[p] = age[p]
      BY <1>1, ReviewNamesAssumption DEF Releasing, TypeOK, Ended, Calls
    <2>2. QED
      BY <1>1, <2>1 DEF ClaimKept, rows
  <1>5. PaidOnce' /\ ExecutedIsPaid' /\ OneOpenPark'
    BY <1>1 DEF PaidOnce, ExecutedIsPaid, OneOpenPark, Open, ReleaseKey, money, rows
  <1>6. QED
    BY <1>2, <1>3, <1>4, <1>5

\* A request that begins keeps it: its key, or its review, is there.
LEMMA BeginInv ==
    ASSUME Inv,
           \/ \E c \in Senders : Send(c)
           \/ \E p \in Pollers : StartPoll(p)
    PROVE  Inv'
  <1> USE DEF Inv
  <1>1. PICK c \in Calls, next \in {"screen", "replay", "reclaim"} :
          /\ at[c] = "idle" /\ at' = [at EXCEPT ![c] = next]
          /\ UNCHANGED <<money, rows, verdict, age>>
          /\ want' \in [Senders -> Keys \cup {NoKey}]
          /\ about' \in [Pollers -> Parks \cup {NoPark}]
          /\ \A s \in Senders : s # c => want'[s] = want[s]
          /\ \A p \in Pollers : p # c => about'[p] = about[p]
          /\ c \in Senders => next \in {"screen", "replay"}
                                /\ (next = "replay" => want'[c] \in Keys)
          /\ c \in Pollers => next = "reclaim" /\ about'[c] \in Parks
                                /\ status[about'[c]] # "none"
    <2>1. ASSUME NEW c \in Senders, Send(c)
          PROVE  /\ c \in Calls /\ c \notin Pollers /\ at[c] = "idle"
                 /\ UNCHANGED <<money, rows, verdict, age, about>>
                 /\ \E k \in Keys \cup {NoKey} :
                      /\ want' = [want EXCEPT ![c] = k]
                      /\ at' = [at EXCEPT ![c] = IF k = NoKey THEN "screen" ELSE "replay"]
      BY <2>1, ReviewNamesAssumption DEF Send, Calls
    <2>2. ASSUME NEW p \in Pollers, StartPoll(p)
          PROVE  /\ p \in Calls /\ p \notin Senders /\ at[p] = "idle"
                 /\ UNCHANGED <<money, rows, verdict, age, want>>
                 /\ at' = [at EXCEPT ![p] = "reclaim"]
                 /\ \E v \in Parks : status[v] # "none" /\ about' = [about EXCEPT ![p] = v]
      BY <2>2, ReviewNamesAssumption DEF StartPoll, Calls
    <2>3. CASE \E c \in Senders : Send(c)
      BY <2>1, <2>3 DEF TypeOK
    <2>4. CASE \E p \in Pollers : StartPoll(p)
      BY <2>2, <2>4 DEF TypeOK
    <2>5. QED
      BY <2>3, <2>4
  <1>2. TypeOK'
    BY <1>1 DEF TypeOK, money, rows
  <1>3. InHand'
    BY <1>1 DEF InHand, TypeOK, money, rows, OnReview, OnClaim, ReleaseKey, Calls
  <1>4. ClaimKept'
    <2>1. \A p \in Pollers : Releasing(p)' => p # c /\ Releasing(p) /\ about'[p] = about[p]
      BY <1>1 DEF Releasing, TypeOK, Calls
    <2>2. QED
      BY <1>1, <2>1 DEF ClaimKept, rows
  <1>5. PaidOnce' /\ ExecutedIsPaid' /\ OneOpenPark'
    BY <1>1 DEF PaidOnce, ExecutedIsPaid, OneOpenPark, Open, ReleaseKey, money, rows
  <1>6. QED
    BY <1>2, <1>3, <1>4, <1>5

-----------------------------------------------------------------------------
(* Steps that move money. *)

\* What a post does: it uses the one chance of a key or a review, and takes
\* nothing back.
LEMMA PostShape ==
    ASSUME Inv, NEW k \in AllKeys, funds > 0, Post(k)
    PROVE  /\ posts' \in [AllKeys -> Nat] /\ funds' \in 0..Funds
           /\ \A j \in AllKeys : posts'[j] >= posts[j]
           /\ \A j \in Keys \cup Parks : posts'[j] <= 1
           /\ k # NoKey => posts'[k] > 0
  <1>1. posts \in [AllKeys -> Nat] /\ funds \in 0..Funds /\ Funds \in Nat
    BY ReviewNamesAssumption DEF Inv, TypeOK, AllKeys
  <1>2. \A j \in Keys \cup Parks : j \in AllKeys /\ j # NoKey /\ posts[j] <= 1
    BY ReviewNamesAssumption DEF Inv, PaidOnce, AllKeys
  <1>3. CASE k # NoKey /\ posts[k] > 0
    <2>1. posts' = posts /\ funds' = funds
      BY <1>3 DEF Post, money
    <2>2. QED
      BY <1>1, <1>2, <1>3, <2>1
  <1>4. CASE k = NoKey \/ ~ (posts[k] > 0)
    <2>1. posts' = [posts EXCEPT ![k] = @ + 1] /\ funds' = funds - 1
      BY <1>4 DEF Post
    <2>2. QED
      BY <1>1, <1>2, <1>4, <2>1
  <1>5. QED
    BY <1>3, <1>4

\* A post of a request keeps it, whatever the request makes of it.
LEMMA PostInv ==
    ASSUME Inv, NEW c \in Calls, NEW k \in AllKeys, funds > 0, Post(k), UNCHANGED rows,
           NEW where, Goto(c, where),
           \/ c \in Senders /\ where \in Ended
           \/ /\ c \in Pollers /\ at[c] = "release" /\ where \in {"record", "fail"}
              /\ k = ReleaseKey(about[c])
    PROVE  Inv'
  <1> USE DEF Inv
  <1>1. /\ posts' \in [AllKeys -> Nat] /\ funds' \in 0..Funds
        /\ \A j \in AllKeys : posts'[j] >= posts[j]
        /\ \A j \in Keys \cup Parks : posts'[j] <= 1
        /\ k # NoKey => posts'[k] > 0
    BY PostShape
  <1>2. /\ at' = [at EXCEPT ![c] = where] /\ UNCHANGED <<verdict, want, about, rows>>
        /\ age' \in [Calls -> 0..RequestTimeout]
        /\ \A d \in Calls : d # c \/ where \notin Ended \cup {"idle"} => age'[d] = age[d]
    BY ReviewTimesAssumption DEF Goto, TypeOK
  <1>3. \A v \in Parks : ReleaseKey(v) \in AllKeys /\ ReleaseKey(v) # NoKey
                           /\ ReleaseKey(v)' = ReleaseKey(v)
    BY <1>2, ReviewNamesAssumption DEF ReleaseKey, AllKeys, TypeOK, rows
  <1>4. TypeOK'
    BY <1>1, <1>2 DEF TypeOK, rows, Ended, AllKeys
  <1>5. InHand'
    <2>1. \A p \in Pollers : at'[p] = "record" =>
            \/ p # c /\ at[p] = "record" /\ about[p] \in Parks
                     /\ posts[ReleaseKey(about[p])] > 0
            \/ k = ReleaseKey(about[p]) /\ about[p] \in Parks
      BY <1>2, ReviewNamesAssumption
         DEF InHand, TypeOK, OnReview, OnClaim, Ended, Calls
    <2>2. \A j \in AllKeys : posts[j] \in Nat /\ posts'[j] \in Nat
      BY <1>1 DEF TypeOK, AllKeys
    <2>3. \A p \in Pollers : at'[p] = "record" => posts'[ReleaseKey(about[p])'] > 0
      BY <1>1, <1>2, <1>3, <2>1, <2>2
    <2>4. QED
      BY <1>2, <2>3, ReviewNamesAssumption
         DEF InHand, TypeOK, rows, OnReview, OnClaim, Ended, Calls, ReleaseKey
  <1>6. ClaimKept'
    <2>1. \A p \in Pollers : Releasing(p)' => Releasing(p) /\ age'[p] = age[p]
      BY <1>2, ReviewNamesAssumption DEF Releasing, TypeOK, Ended, Calls
    <2>2. QED
      BY <1>2, <2>1 DEF ClaimKept, rows
  <1>7. PaidOnce' /\ OneOpenPark'
    BY <1>1, <1>2 DEF PaidOnce, OneOpenPark, Open, rows
  <1>8. ExecutedIsPaid'
    <2>1. \A j \in AllKeys : posts[j] \in Nat /\ posts'[j] \in Nat
      BY <1>1 DEF TypeOK, AllKeys
    <2>2. QED
      BY <1>1, <1>2, <1>3, <2>1 DEF ExecutedIsPaid, rows
  <1>9. QED
    BY <1>4, <1>5, <1>6, <1>7, <1>8

\* A movement attempted and, at most, posted.
LEMMA MoveInv ==
    ASSUME Inv, NEW c \in Calls, NEW k \in AllKeys, UNCHANGED rows,
           NEW done, NEW failed, Move(c, k, done, failed),
           \/ c \in Senders /\ done \in Ended /\ failed \in Ended
           \/ /\ c \in Pollers /\ at[c] = "release" /\ done = "record" /\ failed = "fail"
              /\ k = ReleaseKey(about[c])
    PROVE  Inv'
  <1>1. CASE funds > 0 /\ Post(k) /\ (Goto(c, done) \/ Goto(c, failed))
    BY <1>1, PostInv
  <1>2. CASE UNCHANGED money /\ Goto(c, failed)
    BY <1>2, GotoInv
  <1>3. QED
    BY <1>1, <1>2 DEF Move

-----------------------------------------------------------------------------
(* Steps that change a review. *)

\* Parking keeps it: no second open review for a key.
LEMMA ParkInv ==
    ASSUME Inv, NEW c \in Senders, Park(c)
    PROVE  Inv'
  <1> USE DEF Inv
  <1>1. c \in Calls /\ c \notin Pollers /\ want[c] \in Keys \cup {NoKey}
    BY ReviewNamesAssumption DEF Calls, TypeOK
  <1>2. CASE want[c] # NoKey /\ \E v \in Parks : Open(v) /\ key[v] = want[c]
    BY <1>1, <1>2, GotoInv DEF Park, rows, Ended
  <1>3. CASE ~ (want[c] # NoKey /\ \E v \in Parks : Open(v) /\ key[v] = want[c])
    <2>1. PICK v \in Parks : /\ status[v] = "none"
                             /\ status' = [status EXCEPT ![v] = "held"]
                             /\ key' = [key EXCEPT ![v] = want[c]]
      BY <1>3 DEF Park
    <2>2. /\ at' = [at EXCEPT ![c] = "parked"] /\ age' = [age EXCEPT ![c] = 0]
          /\ UNCHANGED <<verdict, want, about, money, lease, overdue>>
      BY DEF Park, Goto, Ended
    <2>3. TypeOK'
      BY <1>1, <2>1, <2>2, ReviewTimesAssumption DEF TypeOK, money, Ended, AllKeys
    <2>4. \A p \in Pollers : at'[p] = at[p] /\ age'[p] = age[p]
      BY <1>1, <2>2 DEF TypeOK, Calls
    <2>5. \A p \in Pollers : at[p] \in OnReview =>
            about[p] # v /\ ReleaseKey(about[p])' = ReleaseKey(about[p])
      BY <2>1, <2>2 DEF InHand, ReleaseKey, TypeOK
    <2>6. InHand'
      <3>1. \A p \in Pollers : at[p] \in OnReview =>
              about[p] \in Parks /\ status'[about[p]] = status[about[p]]
        BY <2>1, <2>5 DEF InHand, TypeOK
      <3>2. \A p \in Pollers :
              /\ at'[p] \in OnReview => about'[p] \in Parks /\ status'[about'[p]] # "none"
              /\ at'[p] \in OnClaim => verdict'[about'[p]] = "cleared"
              /\ at'[p] = "record" => posts'[ReleaseKey(about[p])'] > 0
        BY <2>2, <2>4, <2>5, <3>1 DEF InHand, OnReview, OnClaim, money
      <3>3. \A d \in Senders : at'[d] \in {"replay", "lookup"} => want'[d] \in Keys
        BY <2>2 DEF InHand, TypeOK, Calls
      <3>4. QED
        BY <2>2, <3>2, <3>3 DEF InHand, ReleaseKey
    <2>7. ClaimKept'
      <3>1. \A p \in Pollers : Releasing(p)' => Releasing(p) /\ at[p] \in OnReview
        BY <2>4 DEF Releasing, OnReview, OnClaim
      <3>2. QED
        BY <2>1, <2>2, <2>4, <2>5, <3>1 DEF ClaimKept, InHand, TypeOK
    <2>8. PaidOnce'
      BY <2>2 DEF PaidOnce, money
    <2>9. ExecutedIsPaid'
      BY <2>1, <2>2 DEF ExecutedIsPaid, ReleaseKey, money, TypeOK
    <2>10. OneOpenPark'
      BY <1>1, <1>3, <2>1, <2>2 DEF OneOpenPark, Open, TypeOK
    <2>11. QED
      BY <2>3, <2>6, <2>7, <2>8, <2>9, <2>10
  <1>4. QED
    BY <1>2, <1>3

\* A poll that changes its review from one open or final status to another: it
\* holds the claim already, or takes one nobody holds, or nobody holds it.
LEMMA ResolveInv ==
    ASSUME Inv, NEW p \in Pollers, at[p] \in OnReview, NEW how, NEW where,
           status' = [status EXCEPT ![about[p]] = how],
           lease' = [lease EXCEPT ![about[p]] = 0] \/ lease' = lease,
           UNCHANGED <<money, key, overdue>>, Goto(p, where),
           how \in {"held", "executing", "executed", "refused", "expired"},
           how \in {"held", "executing"} => Open(about[p]),
           how = "executed" => at[p] = "record",
           \A q \in Pollers : Releasing(q) /\ about[q] = about[p] => q = p,
           \/ where \in {"idle", "load"} /\ at[p] \in {"expire", "refuse", "record", "fail", "reclaim"}
           \/ where = "release" /\ how = "executing" /\ at[p] = "claim"
                /\ lease'[about[p]] = 0
    PROVE  Inv'
  <1> USE DEF Inv
  <1> DEFINE v == about[p]
  <1>1. v \in Parks /\ status[v] # "none" /\ p \in Calls
    BY DEF InHand, Calls
  <1>2. /\ at' = [at EXCEPT ![p] = where] /\ UNCHANGED <<verdict, want, about>>
        /\ age' \in [Calls -> 0..RequestTimeout]
        /\ \A d \in Calls : d # p \/ where = "release" => age'[d] = age[d]
    BY <1>1, ReviewTimesAssumption DEF Goto, TypeOK, Ended
  <1>3. TypeOK'
    BY <1>1, <1>2, ReviewTimesAssumption DEF TypeOK, money, Final
  <1>4. InHand'
    <2>1. \A q \in Pollers :
            /\ at'[q] \in OnReview => about'[q] \in Parks /\ status'[about'[q]] # "none"
            /\ at'[q] \in OnClaim => verdict'[about'[q]] = "cleared"
            /\ at'[q] = "record" => posts'[ReleaseKey(about[q])] > 0
      BY <1>1, <1>2 DEF InHand, TypeOK, OnReview, OnClaim, money
    <2>2. \A d \in Senders : at'[d] \in {"replay", "lookup"} => want'[d] \in Keys
      BY <1>1, <1>2 DEF InHand, TypeOK, Calls
    <2>3. QED
      BY <1>2, <2>1, <2>2 DEF InHand, ReleaseKey
  <1>5. ClaimKept'
    <2>1. \A q \in Pollers : q # p => at'[q] = at[q] /\ age'[q] = age[q]
      BY <1>1, <1>2 DEF TypeOK, Calls
    <2>2. \A q \in Pollers \ {p} : Releasing(q)' =>
            Releasing(q) /\ about[q] # v /\ about[q] \in Parks
      BY <2>1 DEF Releasing, InHand, OnReview, OnClaim
    <2>3. \A q \in Pollers \ {p} : Releasing(q)' =>
            status'[about[q]] = status[about[q]] /\ lease'[about[q]] = lease[about[q]]
      BY <1>1, <2>2 DEF TypeOK
    <2>4. Releasing(p)' => status'[v] = "executing" /\ lease'[v] <= age'[p]
      BY <1>1, <1>2, <1>3 DEF Releasing, TypeOK
    <2>5. QED
      BY <1>2, <2>1, <2>2, <2>3, <2>4 DEF ClaimKept
  <1>6. PaidOnce'
    BY DEF PaidOnce, money
  <1>7. ExecutedIsPaid'
    <2> SUFFICES ASSUME NEW w \in Parks, status'[w] = "executed"
                 PROVE  posts'[ReleaseKey(w)'] > 0 /\ verdict'[w] = "cleared"
      BY DEF ExecutedIsPaid
    <2>1. ReleaseKey(w)' = ReleaseKey(w) /\ posts' = posts /\ verdict' = verdict
      BY <1>2 DEF ReleaseKey, money
    <2>2. CASE w = v
      BY <1>1, <2>1, <2>2 DEF TypeOK, InHand, OnClaim
    <2>3. CASE w # v
      BY <1>1, <2>1, <2>3 DEF TypeOK, ExecutedIsPaid
    <2>4. QED
      BY <2>2, <2>3
  <1>8. OneOpenPark'
    BY <1>1 DEF OneOpenPark, Open, TypeOK
  <1>9. QED
    BY <1>3, <1>4, <1>5, <1>6, <1>7, <1>8

\* The statements of a poll.
LEMMA PollInv ==
    ASSUME Inv, NEW p \in Pollers,
           Reclaim(p) \/ Load(p) \/ Ask(p) \/ Finish(p) \/ Claim(p) \/ Release(p) \/ Record(p)
    PROVE  Inv'
  <1> DEFINE v == about[p]
  <1>1. p \in Calls /\ at[p] \in OnReview /\ v \in Parks /\ TypeOK
    BY DEF Calls, Inv, InHand, OnReview, OnClaim, Reclaim, Load, Ask, Finish, Claim, Release,
           Record
  <1>2. \A q \in Pollers : Releasing(q) =>
          /\ about[q] \in Parks /\ status[about[q]] = "executing" /\ lease[about[q]] < Lease
          /\ at[q] \in OnClaim
    BY ReviewTimesAssumption
       DEF Inv, ClaimKept, InHand, TypeOK, Releasing, OnReview, OnClaim, Calls
  <1>3. CASE Reclaim(p)
    <2>1. CASE status[v] = "executing" /\ LeaseOver(v)
      <3>1. \A q \in Pollers : Releasing(q) => about[q] # v
        BY <1>1, <1>2, <2>1, ReviewTimesAssumption DEF LeaseOver, TypeOK
      <3>2. /\ status' = [status EXCEPT ![v] = "held"] /\ lease' = [lease EXCEPT ![v] = 0]
            /\ at[p] = "reclaim" /\ Goto(p, "load") /\ UNCHANGED <<money, key, overdue>>
        BY <1>3, <2>1 DEF Reclaim
      <3>3. Open(v)
        BY <2>1 DEF Open
      <3>4. QED
        BY <1>1, <3>1, <3>2, <3>3, ResolveInv
    <2>2. CASE ~ (status[v] = "executing" /\ LeaseOver(v))
      <3>1. Goto(p, "load") /\ UNCHANGED <<money, rows>>
        BY <1>3, <2>2 DEF Reclaim, rows
      <3>2. QED
        BY <1>1, <3>1, GotoInv
    <2>3. QED
      BY <2>1, <2>2
  <1>4. CASE Load(p)
    <2>1. PICK where \in {"idle", "expire", "ask"} : Goto(p, where)
      BY <1>4 DEF Load
    <2>2. UNCHANGED <<money, rows>>
      BY <1>4 DEF Load
    <2>3. QED
      BY <1>1, <2>1, <2>2, GotoInv
  <1>5. CASE Ask(p)
    <2>1. PICK where \in {"idle", "refuse", "claim"} :
            Goto(p, where) /\ (where = "claim" => verdict[v] = "cleared")
      <3>1. verdict[v] \in {"open", "cleared", "fraud"}
        BY <1>1 DEF TypeOK
      <3>2. QED
        BY <1>5, <3>1 DEF Ask
    <2>2. UNCHANGED <<money, rows>>
      BY <1>5 DEF Ask
    <2>3. QED
      BY <1>1, <2>1, <2>2, GotoInv
  <1>6. CASE Finish(p)
    <2>1. CASE status[v] = "held"
      <3>1. PICK how \in {"expired", "refused"} : status' = [status EXCEPT ![v] = how]
        BY <1>6, <2>1 DEF Finish
      <3>2. /\ at[p] \in {"expire", "refuse"} /\ Goto(p, "idle") /\ lease' = lease
            /\ UNCHANGED <<money, key, overdue>>
        BY <1>6 DEF Finish
      <3>3. \A q \in Pollers : Releasing(q) => about[q] # v
        BY <1>2, <2>1
      <3>4. QED
        BY <1>1, <3>1, <3>2, <3>3, ResolveInv
    <2>2. CASE status[v] # "held"
      <3>1. status' = status
        BY <1>1, <1>6, <2>2 DEF Finish, TypeOK
      <3>2. Goto(p, "idle") /\ UNCHANGED <<money, rows>>
        BY <1>6, <3>1 DEF Finish, rows
      <3>3. QED
        BY <1>1, <3>2, GotoInv
    <2>3. QED
      BY <2>1, <2>2
  <1>7. CASE Claim(p)
    <2>1. CASE status[v] = "held"
      <3>1. /\ status' = [status EXCEPT ![v] = "executing"]
            /\ lease' = [lease EXCEPT ![v] = 0]
            /\ at[p] = "claim" /\ Goto(p, "release") /\ UNCHANGED <<money, key, overdue>>
        BY <1>7, <2>1 DEF Claim
      <3>2. \A q \in Pollers : Releasing(q) => about[q] # v
        BY <1>2, <2>1
      <3>3. Open(v) /\ lease'[v] = 0
        BY <1>1, <2>1, <3>1 DEF Open, TypeOK
      <3>4. QED
        BY <1>1, <3>1, <3>2, <3>3, ResolveInv
    <2>2. CASE status[v] # "held"
      <3>1. Goto(p, "idle") /\ UNCHANGED <<money, rows>>
        BY <1>7, <2>2 DEF Claim, rows
      <3>2. QED
        BY <1>1, <3>1, GotoInv
    <2>3. QED
      BY <2>1, <2>2
  <1>8. CASE Release(p)
    <2>1. ReleaseKey(v) \in AllKeys
      BY <1>1 DEF ReleaseKey, AllKeys, TypeOK
    <2>2. at[p] = "release" /\ Move(p, ReleaseKey(v), "record", "fail") /\ UNCHANGED rows
      BY <1>8 DEF Release
    <2>3. QED
      BY <1>1, <2>1, <2>2, MoveInv
  <1>9. CASE Record(p)
    <2>1. PICK how \in {"executed", "refused"} :
            /\ status' = [status EXCEPT ![v] = how]
            /\ how = "executed" => at[p] = "record"
      BY <1>9 DEF Record
    <2>2. /\ lease' = [lease EXCEPT ![v] = 0] /\ at[p] \in {"record", "fail"}
          /\ Goto(p, "idle") /\ UNCHANGED <<money, key, overdue>>
      BY <1>9 DEF Record
    <2>3. Releasing(p)
      BY <2>2 DEF Releasing
    <2>4. \A q \in Pollers : Releasing(q) /\ about[q] = v => q = p
      BY <2>3 DEF Inv, ClaimKept
    <2>5. QED
      BY <1>1, <2>1, <2>2, <2>4, ResolveInv
  <1>10. QED
    BY <1>3, <1>4, <1>5, <1>6, <1>7, <1>8, <1>9

-----------------------------------------------------------------------------
(* The surroundings. *)

\* Time keeps it: a claim ages no faster than its holder.
LEMMA TickInv ==
    ASSUME Inv, Tick
    PROVE  Inv'
  <1> USE DEF Inv
  <1>1. \A c \in Calls : age'[c] = IF Live(c) THEN age[c] + 1 ELSE age[c]
    BY DEF Tick
  <1>2. TypeOK'
    BY ReviewTimesAssumption DEF Tick, TypeOK, money
  <1>3. InHand'
    BY DEF Tick, InHand, money, ReleaseKey
  <1>4. ClaimKept'
    <2>1. \A p \in Pollers : Releasing(p) => Live(p) /\ about[p] \in Parks /\ p \in Calls
      BY DEF Releasing, Live, Ended, InHand, OnReview, OnClaim, Calls
    <2>2. \A v \in Parks : status[v] = "executing" => lease'[v] <= lease[v] + 1
      BY ReviewTimesAssumption DEF Tick, TypeOK
    <2>3. \A v \in Parks : lease[v] \in Nat /\ lease'[v] \in Nat
      BY <1>2, ReviewTimesAssumption DEF TypeOK
    <2>4. \A c \in Calls : age[c] \in Nat
      BY ReviewTimesAssumption DEF TypeOK
    <2>5. \A p \in Pollers : Releasing(p) => lease'[about[p]] <= age'[p]
      BY <1>1, <2>1, <2>2, <2>3, <2>4 DEF ClaimKept
    <2>6. QED
      BY <2>5 DEF Tick, ClaimKept, Releasing
  <1>5. PaidOnce' /\ ExecutedIsPaid' /\ OneOpenPark'
    BY DEF Tick, PaidOnce, ExecutedIsPaid, OneOpenPark, Open, ReleaseKey, money
  <1>6. QED
    BY <1>2, <1>3, <1>4, <1>5

\* The engine's decision and the passing of the deadline touch no claim, and
\* what was cleared stays cleared.
LEMMA AroundInv ==
    ASSUME Inv, NEW v \in Parks, Decide(v) \/ Overdue(v)
    PROVE  Inv'
  <1> USE DEF Inv
  <1>1. /\ UNCHANGED <<posts, funds, status, key, lease, want, about, at, age>>
        /\ verdict' \in [Parks -> {"open", "cleared", "fraud"}]
        /\ overdue' \in [Parks -> BOOLEAN]
        /\ \A w \in Parks : verdict[w] = "cleared" => verdict'[w] = "cleared"
    BY DEF Decide, Overdue, TypeOK, money, rows
  <1>2. TypeOK'
    BY <1>1 DEF TypeOK
  <1>3. InHand'
    BY <1>1 DEF InHand, ReleaseKey, OnReview, OnClaim
  <1>4. ClaimKept' /\ PaidOnce' /\ ExecutedIsPaid' /\ OneOpenPark'
    BY <1>1 DEF ClaimKept, Releasing, PaidOnce, ExecutedIsPaid, OneOpenPark, Open, ReleaseKey
  <1>5. QED
    BY <1>2, <1>3, <1>4

-----------------------------------------------------------------------------
(* The invariant holds. *)

\* It holds at first.
LEMMA InitInv ==
    ASSUME Init
    PROVE  Inv
  <1>1. TypeOK
    BY ReviewNamesAssumption, ReviewTimesAssumption DEF Init, TypeOK
  <1>2. InHand /\ ClaimKept
    BY DEF Init, InHand, ClaimKept, Releasing, OnReview, OnClaim, Calls
  <1>3. PaidOnce /\ ExecutedIsPaid /\ OneOpenPark
    BY DEF Init, PaidOnce, ExecutedIsPaid, OneOpenPark, Open
  <1>4. QED
    BY <1>1, <1>2, <1>3 DEF Inv

\* Every statement of a request to move money keeps it.
LEMMA SenderInv ==
    ASSUME Inv, NEW c \in Senders, Sender(c)
    PROVE  Inv'
  <1>1. c \in Calls /\ want[c] \in Keys \cup {NoKey}
    BY DEF Calls, Inv, TypeOK
  <1>2. CASE Send(c)
    BY <1>2, BeginInv
  <1>3. CASE Replay(c)
    <2>1. want[c] \in Keys /\ UNCHANGED <<money, rows>>
      BY <1>3 DEF Replay, Inv, InHand
    <2>2. PICK where \in {"posted", "lookup"} : Goto(c, where)
      BY <1>3 DEF Replay
    <2>3. QED
      BY <1>1, <2>1, <2>2, GotoInv DEF Ended
  <1>4. CASE Lookup(c)
    <2>1. PICK where \in {"parked", "screen"} : Goto(c, where) /\ UNCHANGED <<money, rows>>
      BY <1>4 DEF Lookup
    <2>2. QED
      BY <1>1, <2>1, GotoInv DEF Ended
  <1>5. CASE Screen(c)
    BY <1>1, <1>5, GotoInv DEF Screen, Ended
  <1>6. CASE PostCleared(c)
    BY <1>1, <1>6, MoveInv DEF PostCleared, Ended, AllKeys
  <1>7. CASE Park(c)
    BY <1>7, ParkInv
  <1>8. QED
    BY <1>2, <1>3, <1>4, <1>5, <1>6, <1>7 DEF Sender

\* Every step keeps it.
LEMMA NextInv ==
    ASSUME Inv, [Next]_vars
    PROVE  Inv'
  <1>1. CASE \E c \in Senders : Sender(c)
    BY <1>1, SenderInv
  <1>2. CASE \E p \in Pollers : Poller(p)
    BY <1>2, BeginInv, PollInv DEF Poller
  <1>3. CASE \E c \in Calls : Drop(c)
    BY <1>3, GotoInv DEF Drop, Ended
  <1>4. CASE \E v \in Parks : Decide(v) \/ Overdue(v)
    BY <1>4, AroundInv
  <1>5. CASE Tick
    BY <1>5, TickInv
  <1>6. CASE UNCHANGED vars
    BY <1>6 DEF vars, money, rows, Inv, TypeOK, InHand, ClaimKept, Releasing, PaidOnce,
                ExecutedIsPaid, OneOpenPark, Open, ReleaseKey
  <1>7. QED
    BY <1>1, <1>2, <1>3, <1>4, <1>5, <1>6 DEF Next

\* So it always holds.
LEMMA InvHolds == Spec => []Inv
  <1>1. Init => Inv
    BY InitInv
  <1>2. Inv /\ [Next]_vars => Inv'
    BY NextInv
  <1>3. QED
    BY <1>1, <1>2, PTL DEF Spec

-----------------------------------------------------------------------------
(* What follows. *)

\* Every variable keeps its type, whatever requests do.
THEOREM TypeCorrect == Spec => []TypeOK
  <1>1. Inv => TypeOK
    BY DEF Inv
  <1>2. QED
    BY <1>1, InvHolds, PTL

\* While a poll releases a review no other poll takes back its claim, resolves
\* the review or releases it too, provided that a lease outlasts a request:
\* reviews.rs writes the result without a look at the row on the strength of it.
THEOREM ReleaseIsExclusive == Spec => []ReleaseExclusive
  <1>1. Inv => ReleaseExclusive
    BY DEF Inv, ClaimKept, ReleaseExclusive
  <1>2. QED
    BY <1>1, InvHolds, PTL

\* A key, and a review without one, moves money once, however the sender's
\* retries, the polls, their crashes and the reclaims interleave.
THEOREM HeldMoneyMovesOnce == Spec => []PaidOnce
  <1>1. Inv => PaidOnce
    BY DEF Inv
  <1>2. QED
    BY <1>1, InvHolds, PTL

\* A review that is executed has moved its money, on a cleared case.
THEOREM ExecutedHasPaid == Spec => []ExecutedIsPaid
  <1>1. Inv => ExecutedIsPaid
    BY DEF Inv
  <1>2. QED
    BY <1>1, InvHolds, PTL

\* The retries of one request wait behind one open review.
THEOREM RetriesShareAReview == Spec => []OneOpenPark
  <1>1. Inv => OneOpenPark
    BY DEF Inv
  <1>2. QED
    BY <1>1, InvHolds, PTL
=============================================================================
