---------------------------- MODULE StepUpProofs ----------------------------
(***************************************************************************)
(* Theorems about agent transfers and their approvals, for any number of   *)
(* calls, asks and keys, any amounts and caps, and any lease that is       *)
(* longer than a request may run.                                          *)
(***************************************************************************)
EXTENDS StepUp, TLAPS

-----------------------------------------------------------------------------
(* The inductive invariant. *)

OnAsk == {"sweep", "claim", "flip", "find", "execute", "finalize", "revert"}
OnKey == {"replay", "lookup", "attempt", "park"}

\* A call in progress has what its next statement needs: an ask with its key,
\* or a key; and it finalizes only what was posted.
InHand ==
    \A c \in Calls :
        /\ at[c] \in OnAsk => /\ ask[c] \in Asks /\ status[ask[c]] # "none"
                              /\ want[c] = key[ask[c]]
        /\ at[c] \in OnKey => want[c] \in Keys
        /\ at[c] = "finalize" => posts[want[c]] > 0

\* A claim has one holder, and is no older than its holder's request.
ClaimKept ==
    /\ \A c \in Calls : Executing(c) =>
         status[ask[c]] = "executing" /\ lease[ask[c]] <= age[c]
    /\ \A c, d \in Calls : Executing(c) /\ Executing(d) /\ ask[c] = ask[d] => c = d

\* daily_used is what moved today, cut to the cap.
UsedIsCapped == used = IF spent > DailyCap THEN DailyCap ELSE spent

Inv ==
    /\ TypeOK
    /\ InHand
    /\ ClaimKept
    /\ PaidOnce
    /\ ApprovedIsPaid
    /\ OneOpenAsk
    /\ UsedIsCapped

-----------------------------------------------------------------------------
(* The sweep. *)

\* What a sweep may do to a row: nothing to a claim in time, nothing to a row
\* that is not open, and it opens none.
LEMMA SweepShape ==
    ASSUME TypeOK, NEW S \in SUBSET Asks, ReclaimAndExpire(S)
    PROVE  /\ status' \in [Asks -> {"none", "pending", "executing", "approved",
                                    "declined", "expired"}]
           /\ lease' \in [Asks -> 0..Lease] /\ key' = key /\ overdue' = overdue
           /\ \A a \in Asks : status[a] = "executing" /\ lease[a] < Lease =>
                status'[a] = "executing" /\ lease'[a] = lease[a]
           /\ \A a \in Asks : ~Open(a) => status'[a] = status[a]
           /\ \A a \in Asks : Open(a) => status'[a] \in {"pending", "executing", "expired"}
  BY TimesAssumption DEF TypeOK, ReclaimAndExpire, LeaseOver, Open

\* A sweep keeps the invariant: no claim in progress is old enough to be taken.
LEMMA SweptInv ==
    ASSUME Inv, NEW S \in SUBSET Asks, ReclaimAndExpire(S), UNCHANGED money,
           UNCHANGED <<op, ask, want>>,
           \/ UNCHANGED <<at, age>>
           \/ \E c \in Calls : at[c] = "sweep"
                /\ (Goto(c, "claim") \/ Goto(c, "flip"))
    PROVE  Inv'
  <1> USE DEF Inv
  <1>1. /\ status' \in [Asks -> {"none", "pending", "executing", "approved",
                                 "declined", "expired"}]
        /\ lease' \in [Asks -> 0..Lease] /\ key' = key /\ overdue' = overdue
        /\ \A a \in Asks : status[a] = "executing" /\ lease[a] < Lease =>
             status'[a] = "executing" /\ lease'[a] = lease[a]
        /\ \A a \in Asks : ~Open(a) => status'[a] = status[a]
        /\ \A a \in Asks : Open(a) => status'[a] \in {"pending", "executing", "expired"}
    BY SweepShape
  <1>2. /\ at' \in [Calls -> Ended \cup {"idle"} \cup OnAsk \cup OnKey]
        /\ age' \in [Calls -> 0..RequestTimeout]
        /\ \A c \in Calls :
             \/ at'[c] = at[c] /\ age'[c] = age[c]
             \/ at[c] = "sweep" /\ at'[c] \in {"claim", "flip"}
    BY DEF TypeOK, Goto, Ended, OnAsk, OnKey
  <1>3. TypeOK'
    BY <1>1, <1>2 DEF TypeOK, money, Open, OnAsk, OnKey
  <1>4. InHand'
    BY <1>1, <1>2 DEF InHand, TypeOK, money, Open, OnAsk, OnKey
  <1>5. ClaimKept'
    <2>1. \A c \in Calls : Executing(c)' => /\ Executing(c) /\ age'[c] = age[c]
                                            /\ at[c] \in OnAsk
      BY <1>2 DEF Executing, OnAsk
    <2>2. \A c \in Calls : Executing(c) => lease[ask[c]] < Lease
      BY TimesAssumption DEF TypeOK, ClaimKept, InHand, Executing, OnAsk
    <2>3. QED
      BY <1>1, <2>1, <2>2 DEF ClaimKept, InHand
  <1>6. PaidOnce' /\ UsedIsCapped'
    BY DEF PaidOnce, UsedIsCapped, money
  <1>7. ApprovedIsPaid' /\ OneOpenAsk'
    BY <1>1 DEF ApprovedIsPaid, OneOpenAsk, Open, money
  <1>8. QED
    BY <1>3, <1>4, <1>5, <1>6, <1>7

-----------------------------------------------------------------------------
(* Steps that leave the money alone. *)

\* A request that begins keeps it.
LEMMA BeginInv ==
    ASSUME Inv, NEW c \in Calls, NEW what \in {"approve", "decline", "transfer"},
           NEW a \in Asks \cup {NoAsk}, NEW k \in Keys, NEW first \in {"sweep", "replay"},
           first = "sweep" => a \in Asks /\ status[a] # "none" /\ k = key[a],
           Begin(c, what, a, k, first)
    PROVE  Inv'
  <1> USE DEF Inv
  <1>1. /\ at[c] = "idle" /\ UNCHANGED <<money, rows, age>>
        /\ op' = [op EXCEPT ![c] = what] /\ ask' = [ask EXCEPT ![c] = a]
        /\ want' = [want EXCEPT ![c] = k] /\ at' = [at EXCEPT ![c] = first]
    BY DEF Begin
  <1>2. TypeOK'
    BY <1>1 DEF TypeOK, money, rows
  <1>3. InHand'
    BY <1>1 DEF InHand, TypeOK, money, rows, OnAsk, OnKey
  <1>4. ClaimKept'
    <2>1. \A d \in Calls : Executing(d)' => d # c /\ Executing(d) /\ ask'[d] = ask[d]
      BY <1>1 DEF Executing, TypeOK
    <2>2. QED
      BY <1>1, <2>1 DEF ClaimKept, rows
  <1>5. PaidOnce' /\ ApprovedIsPaid' /\ OneOpenAsk' /\ UsedIsCapped'
    BY <1>1 DEF PaidOnce, ApprovedIsPaid, OneOpenAsk, UsedIsCapped, Open, money, rows
  <1>6. QED
    BY <1>2, <1>3, <1>4, <1>5

\* A step of a call that only decides where it stands next.
LEMMA GotoInv ==
    ASSUME Inv, NEW c \in Calls, NEW where, Goto(c, where), UNCHANGED <<money, rows>>,
           \/ where \in Ended
           \/ at[c] = "find" /\ where \in {"execute", "finalize"}
           \/ at[c] = "execute" /\ where = "revert"
           \/ at[c] \in OnKey /\ where \in OnKey,
           where = "finalize" => posts[want[c]] > 0
    PROVE  Inv'
  <1> USE DEF Inv
  <1>1. /\ at' = [at EXCEPT ![c] = where] /\ UNCHANGED <<op, ask, want, money, rows>>
        /\ age' \in [Calls -> 0..RequestTimeout]
        /\ \A d \in Calls : d # c \/ where \notin Ended => age'[d] = age[d]
    BY TimesAssumption DEF Goto, TypeOK
  <1>2. TypeOK'
    BY <1>1 DEF TypeOK, money, rows, OnKey
  <1>3. InHand'
    BY <1>1 DEF InHand, TypeOK, money, rows, OnAsk, OnKey, Ended
  <1>4. ClaimKept'
    <2>1. \A d \in Calls : Executing(d)' => Executing(d) /\ age'[d] = age[d]
      BY <1>1 DEF Executing, TypeOK, Ended, OnKey
    <2>2. QED
      BY <1>1, <2>1 DEF ClaimKept, rows
  <1>5. PaidOnce' /\ ApprovedIsPaid' /\ OneOpenAsk' /\ UsedIsCapped'
    BY <1>1 DEF PaidOnce, ApprovedIsPaid, OneOpenAsk, UsedIsCapped, Open, money, rows
  <1>6. QED
    BY <1>2, <1>3, <1>4, <1>5

\* A claim keeps it: only a pending ask is claimed, and it has no holder.
LEMMA ClaimInv ==
    ASSUME Inv, NEW c \in Calls, Claim(c)
    PROVE  Inv'
  <1> USE DEF Inv
  <1>1. at[c] = "claim" /\ ask[c] \in Asks /\ want[c] = key[ask[c]]
    BY DEF Claim, InHand, OnAsk
  <1>2. CASE status[ask[c]] # "pending"
    BY <1>2, GotoInv DEF Claim, rows, Ended
  <1>3. CASE status[ask[c]] = "pending"
    <2>1. /\ status' = [status EXCEPT ![ask[c]] = "executing"]
          /\ lease' = [lease EXCEPT ![ask[c]] = 0]
          /\ at' = [at EXCEPT ![c] = "find"] /\ age' = age
          /\ UNCHANGED <<op, ask, want, money, key, overdue>>
      BY <1>3 DEF Claim, Goto, Ended, TypeOK
    <2>2. TypeOK'
      BY <1>1, <1>3, <2>1, TimesAssumption DEF TypeOK, money
    <2>3. InHand'
      BY <1>1, <2>1 DEF InHand, TypeOK, money, OnAsk, OnKey
    <2>4. ClaimKept'
      <3>1. \A d \in Calls : Executing(d)' => d = c \/ Executing(d)
        BY <2>1 DEF Executing, TypeOK
      <3>2. \A d \in Calls : Executing(d) => ask[d] # ask[c]
        BY <1>3 DEF ClaimKept
      <3>3. \A d \in Calls : Executing(d) => ask[d] \in Asks
        BY DEF Executing, InHand, OnAsk
      <3>4. QED
        BY <1>1, <2>1, <3>1, <3>2, <3>3, TimesAssumption DEF ClaimKept, TypeOK
    <2>5. PaidOnce' /\ ApprovedIsPaid' /\ OneOpenAsk' /\ UsedIsCapped'
      BY <1>1, <1>3, <2>1 DEF PaidOnce, ApprovedIsPaid, OneOpenAsk, UsedIsCapped, Open,
                             money, TypeOK
    <2>6. QED
      BY <2>2, <2>3, <2>4, <2>5
  <1>4. QED
    BY <1>2, <1>3

\* The end of a claim by its holder, who then is nobody's holder.
LEMMA EndClaimInv ==
    ASSUME Inv, NEW c \in Calls, NEW how \in {"approved", "pending"},
           Executing(c), how = "approved" => posts[want[c]] > 0,
           EndClaim(ask[c], how), NEW where \in Ended, Goto(c, where)
    PROVE  Inv'
  <1> USE DEF Inv
  <1>1. ask[c] \in Asks /\ want[c] = key[ask[c]] /\ status[ask[c]] = "executing"
    BY DEF Executing, InHand, OnAsk, ClaimKept
  <1>2. /\ status' = [status EXCEPT ![ask[c]] = how]
        /\ lease' = [lease EXCEPT ![ask[c]] = 0]
        /\ UNCHANGED <<money, key, overdue>>
    BY <1>1 DEF EndClaim
  <1>3. /\ at' = [at EXCEPT ![c] = where] /\ UNCHANGED <<op, ask, want>>
        /\ age' = [age EXCEPT ![c] = 0]
    BY DEF Goto
  <1>4. TypeOK'
    BY <1>1, <1>2, <1>3, TimesAssumption DEF TypeOK, money
  <1>5. InHand'
    BY <1>1, <1>2, <1>3 DEF InHand, TypeOK, money, OnAsk, OnKey, Ended
  <1>6. ClaimKept'
    <2>1. \A d \in Calls : Executing(d)' => d # c /\ Executing(d) /\ age'[d] = age[d]
      BY <1>3 DEF Executing, TypeOK, Ended
    <2>2. \A d \in Calls : Executing(d) /\ d # c => ask[d] # ask[c] /\ ask[d] \in Asks
      BY DEF ClaimKept, InHand, Executing, OnAsk
    <2>3. QED
      BY <1>2, <1>3, <2>1, <2>2 DEF ClaimKept, TypeOK
  <1>7. PaidOnce' /\ UsedIsCapped'
    BY <1>2 DEF PaidOnce, UsedIsCapped, money
  <1>8. ApprovedIsPaid' /\ OneOpenAsk'
    BY <1>1, <1>2 DEF ApprovedIsPaid, OneOpenAsk, Open, money, TypeOK
  <1>9. QED
    BY <1>4, <1>5, <1>6, <1>7, <1>8

\* A decline keeps it: only a pending ask is declined, and it has no holder.
LEMMA DeclineInv ==
    ASSUME Inv, NEW c \in Calls, Decline(c)
    PROVE  Inv'
  <1> USE DEF Inv
  <1>1. at[c] = "flip" /\ ask[c] \in Asks
    BY DEF Decline, InHand, OnAsk
  <1>2. CASE status[ask[c]] # "pending"
    BY <1>2, GotoInv DEF Decline, rows, Ended
  <1>3. CASE status[ask[c]] = "pending"
    <2>1. /\ status' = [status EXCEPT ![ask[c]] = "declined"]
          /\ at' = [at EXCEPT ![c] = "accepted"] /\ age' = [age EXCEPT ![c] = 0]
          /\ UNCHANGED <<op, ask, want, money, key, lease, overdue>>
      BY <1>3 DEF Decline, Goto, Ended
    <2>2. TypeOK'
      BY <1>1, <1>3, <2>1, TimesAssumption DEF TypeOK, money, Ended
    <2>3. InHand'
      BY <1>1, <2>1 DEF InHand, TypeOK, money, OnAsk, OnKey
    <2>4. ClaimKept'
      <3>1. \A d \in Calls : Executing(d)' => d # c /\ Executing(d)
        BY <2>1 DEF Executing, TypeOK
      <3>2. \A d \in Calls : Executing(d) => ask[d] # ask[c] /\ ask[d] \in Asks
        BY <1>3 DEF ClaimKept, InHand, Executing, OnAsk
      <3>3. QED
        BY <2>1, <3>1, <3>2 DEF ClaimKept, TypeOK
    <2>5. PaidOnce' /\ ApprovedIsPaid' /\ OneOpenAsk' /\ UsedIsCapped'
      BY <1>1, <1>3, <2>1 DEF PaidOnce, ApprovedIsPaid, OneOpenAsk, UsedIsCapped, Open,
                             money, TypeOK
    <2>6. QED
      BY <2>2, <2>3, <2>4, <2>5
  <1>4. QED
    BY <1>2, <1>3

\* Parking keeps it: no second open ask for a key.
LEMMA ParkInv ==
    ASSUME Inv, NEW c \in Calls, Park(c)
    PROVE  Inv'
  <1> USE DEF Inv
  <1>1. at[c] = "park" /\ want[c] \in Keys
    BY DEF Park, InHand, OnKey
  <1>2. CASE \E a \in Asks : Open(a) /\ key[a] = want[c]
    BY <1>2, GotoInv DEF Park, rows, Ended
  <1>3. CASE ~ \E a \in Asks : Open(a) /\ key[a] = want[c]
    <2>1. PICK a \in Asks :
            /\ status[a] = "none"
            /\ status' = [status EXCEPT ![a] = "pending"]
            /\ key' = [key EXCEPT ![a] = want[c]]
      BY <1>3 DEF Park
    <2>2. /\ at' = [at EXCEPT ![c] = "accepted"] /\ age' = [age EXCEPT ![c] = 0]
          /\ UNCHANGED <<op, ask, want, money, lease, overdue>>
      BY DEF Park, Goto, Ended
    <2>3. TypeOK'
      BY <1>1, <2>1, <2>2, TimesAssumption DEF TypeOK, money, Ended
    <2>4. InHand'
      BY <1>1, <2>1, <2>2 DEF InHand, TypeOK, money, OnAsk, OnKey
    <2>5. ClaimKept'
      <3>1. \A d \in Calls : Executing(d)' => d # c /\ Executing(d)
        BY <2>2 DEF Executing, TypeOK
      <3>2. \A d \in Calls : Executing(d) => ask[d] # a /\ ask[d] \in Asks
        BY <2>1 DEF ClaimKept, InHand, Executing, OnAsk
      <3>3. QED
        BY <2>1, <2>2, <3>1, <3>2 DEF ClaimKept, TypeOK
    <2>6. PaidOnce' /\ ApprovedIsPaid' /\ UsedIsCapped'
      BY <2>1, <2>2 DEF PaidOnce, ApprovedIsPaid, UsedIsCapped, money, TypeOK
    <2>7. OneOpenAsk'
      BY <1>3, <2>1, <2>2 DEF OneOpenAsk, Open, TypeOK
    <2>8. QED
      BY <2>3, <2>4, <2>5, <2>6, <2>7
  <1>4. QED
    BY <1>2, <1>3

-----------------------------------------------------------------------------
(* Steps that move money. *)

\* What a post does: it uses the key's one chance, and the cap stays cut to
\* what is spent.
LEMMA PostShape ==
    ASSUME Inv, NEW c \in Calls, want[c] \in Keys, NEW override \in BOOLEAN,
           Post(c, override)
    PROVE  /\ posts' \in [Keys -> Nat] /\ posts'[want[c]] > 0
           /\ \A k \in Keys : posts'[k] <= 1 /\ posts'[k] >= posts[k]
           /\ used' \in 0..DailyCap /\ spent' \in Nat
           /\ used' = IF spent' > DailyCap THEN DailyCap ELSE spent'
           /\ UNCHANGED <<mandate, day>>
  <1> DEFINE n == Amount[want[c]]
  <1>1. n \in Nat /\ n > 0 /\ DailyCap \in Nat
    BY CapsAssumption
  <1>2. posts \in [Keys -> Nat] /\ used \in 0..DailyCap /\ spent \in Nat
    BY DEF Inv, TypeOK
  <1>3. used = IF spent > DailyCap THEN DailyCap ELSE spent
    BY DEF Inv, UsedIsCapped
  <1>4. CASE posts[want[c]] = 0
    <2>1. /\ posts' = [posts EXCEPT ![want[c]] = 1]
          /\ used' = IF used + n > DailyCap THEN DailyCap ELSE used + n
          /\ spent' = spent + n /\ UNCHANGED <<mandate, day>>
      BY <1>4 DEF Post, Reserve
    <2>2. \A k \in Keys : posts[k] <= 1
      BY DEF Inv, PaidOnce
    <2>3. /\ used' \in 0..DailyCap /\ spent' \in Nat
          /\ used' = IF spent' > DailyCap THEN DailyCap ELSE spent'
      BY <1>1, <1>2, <1>3, <2>1
    <2>4. QED
      BY <1>2, <1>4, <2>1, <2>2, <2>3
  <1>5. CASE posts[want[c]] # 0
    <2>1. UNCHANGED <<posts, used, spent, mandate, day>>
      BY <1>5 DEF Post
    <2>2. QED
      BY <1>2, <1>3, <1>5, <2>1 DEF Inv, PaidOnce
  <1>6. QED
    BY <1>4, <1>5

\* A call that has posted goes on with its key paid, the rows untouched.
LEMMA PostInv ==
    ASSUME Inv, NEW c \in Calls, NEW override \in BOOLEAN, Post(c, override),
           UNCHANGED rows, NEW where, Goto(c, where),
           \/ at[c] = "execute" /\ where \in {"finalize", "revert"}
           \/ at[c] = "attempt" /\ where \in {"paid", "refused"}
    PROVE  Inv'
  <1> USE DEF Inv
  <1>1. want[c] \in Keys
    BY DEF InHand, OnKey, OnAsk, TypeOK
  <1>2. /\ posts' \in [Keys -> Nat] /\ posts'[want[c]] > 0
        /\ \A k \in Keys : posts'[k] <= 1 /\ posts'[k] >= posts[k]
        /\ used' \in 0..DailyCap /\ spent' \in Nat
        /\ used' = IF spent' > DailyCap THEN DailyCap ELSE spent'
        /\ UNCHANGED <<mandate, day>>
    BY <1>1, PostShape
  <1>3. /\ at' = [at EXCEPT ![c] = where] /\ UNCHANGED <<op, ask, want, rows>>
        /\ age' \in [Calls -> 0..RequestTimeout]
        /\ \A d \in Calls : d # c \/ where \notin Ended => age'[d] = age[d]
    BY TimesAssumption DEF Goto, TypeOK
  <1>4. TypeOK'
    BY <1>2, <1>3 DEF TypeOK, rows, Ended
  <1>5. InHand'
    <2>1. \A d \in Calls : at[d] = "finalize" => want[d] \in Keys
      BY DEF InHand, OnAsk, TypeOK
    <2>2. QED
      BY <1>1, <1>2, <1>3, <2>1 DEF InHand, TypeOK, rows, OnAsk, OnKey
  <1>6. ClaimKept'
    <2>1. \A d \in Calls : Executing(d)' => Executing(d) /\ age'[d] = age[d]
      BY <1>3 DEF Executing, TypeOK, Ended
    <2>2. QED
      BY <1>3, <2>1 DEF ClaimKept, rows
  <1>7. PaidOnce' /\ UsedIsCapped'
    BY <1>2 DEF PaidOnce, UsedIsCapped
  <1>8. ApprovedIsPaid' /\ OneOpenAsk'
    <2>1. \A a \in Asks : status[a] = "approved" => key[a] \in Keys
      BY DEF TypeOK
    <2>2. QED
      BY <1>2, <1>3, <2>1 DEF ApprovedIsPaid, OneOpenAsk, Open, rows, TypeOK
  <1>9. QED
    BY <1>4, <1>5, <1>6, <1>7, <1>8

-----------------------------------------------------------------------------
(* The surroundings. *)

\* Time keeps it: a claim ages no faster than its holder.
LEMMA TickInv ==
    ASSUME Inv, Tick
    PROVE  Inv'
  <1> USE DEF Inv
  <1>1. \A c \in Calls : age'[c] = IF Live(c) THEN age[c] + 1 ELSE age[c]
    BY DEF Tick
  <1>2. TypeOK'
    BY TimesAssumption DEF Tick, TypeOK, money
  <1>3. InHand'
    BY DEF Tick, InHand, money, OnAsk, OnKey
  <1>4. ClaimKept'
    <2>1. \A c \in Calls : Executing(c) => Live(c) /\ ask[c] \in Asks
      BY DEF Executing, Live, Ended, InHand, OnAsk
    <2>2. \A a \in Asks : status[a] = "executing" => lease'[a] <= lease[a] + 1
      BY TimesAssumption DEF Tick, TypeOK
    <2>3. \A c \in Calls : Executing(c) => lease'[ask[c]] <= age'[c]
      BY <1>1, <2>1, <2>2, TimesAssumption DEF ClaimKept, Tick, TypeOK
    <2>4. QED
      BY <2>3 DEF Tick, ClaimKept, Executing
  <1>5. PaidOnce' /\ ApprovedIsPaid' /\ OneOpenAsk' /\ UsedIsCapped'
    BY DEF Tick, PaidOnce, ApprovedIsPaid, OneOpenAsk, UsedIsCapped, Open, money
  <1>6. QED
    BY <1>2, <1>3, <1>4, <1>5

\* Revocation, the change of date and the passing of expires_at touch neither a
\* call nor a claim.
LEMMA AroundInv ==
    ASSUME Inv, Revoke \/ NewDay \/ \E a \in Asks : Overdue(a)
    PROVE  Inv'
  <1> USE DEF Inv
  <1>1. /\ UNCHANGED <<posts, status, key, lease, op, ask, want, at, age>>
        /\ mandate' \in {"active", "revoked"} /\ day' \in 0..Days
        /\ overdue' \in [Asks -> BOOLEAN]
        /\ \/ UNCHANGED <<used, spent>>
           \/ used' = 0 /\ spent' = 0
    <2>1. CASE Revoke
      BY <2>1 DEF Revoke, rows, TypeOK
    <2>2. CASE NewDay
      BY <2>2, TimesAssumption DEF NewDay, rows, TypeOK
    <2>3. CASE \E a \in Asks : Overdue(a)
      BY <2>3 DEF Overdue, money, TypeOK
    <2>4. QED
      BY <2>1, <2>2, <2>3
  <1>2. TypeOK'
    BY <1>1, CapsAssumption DEF TypeOK
  <1>3. InHand' /\ ClaimKept'
    BY <1>1 DEF InHand, ClaimKept, Executing
  <1>4. PaidOnce' /\ ApprovedIsPaid' /\ OneOpenAsk' /\ UsedIsCapped'
    BY <1>1, CapsAssumption DEF PaidOnce, ApprovedIsPaid, OneOpenAsk, UsedIsCapped, Open
  <1>5. QED
    BY <1>2, <1>3, <1>4

-----------------------------------------------------------------------------
(* The invariant holds. *)

\* It holds at first.
LEMMA InitInv ==
    ASSUME Init
    PROVE  Inv
  <1>1. TypeOK
    BY CapsAssumption, TimesAssumption DEF Init, TypeOK
  <1>2. InHand /\ ClaimKept
    BY DEF Init, InHand, ClaimKept, Executing, OnAsk, OnKey
  <1>3. PaidOnce /\ ApprovedIsPaid /\ OneOpenAsk /\ UsedIsCapped
    BY CapsAssumption DEF Init, PaidOnce, ApprovedIsPaid, OneOpenAsk, UsedIsCapped, Open
  <1>4. QED
    BY <1>1, <1>2, <1>3 DEF Inv

\* Every statement of a request keeps it.
LEMMA CallInv ==
    ASSUME Inv, NEW c \in Calls,
           AskApprove(c) \/ AskDecline(c) \/ AskTransfer(c) \/ Step(c) \/ Drop(c)
    PROVE  Inv'
  <1>1. CASE AskApprove(c) \/ AskDecline(c)
    <2>1. PICK a \in Asks, what \in {"approve", "decline"} :
            status[a] # "none" /\ Begin(c, what, a, key[a], "sweep")
      BY <1>1 DEF AskApprove, AskDecline
    <2>2. key[a] \in Keys
      BY <2>1 DEF Inv, TypeOK
    <2>3. QED
      BY <2>1, <2>2, BeginInv
  <1>2. CASE AskTransfer(c)
    <2>1. PICK k \in Keys : Begin(c, "transfer", NoAsk, k, "replay")
      BY <1>2 DEF AskTransfer
    <2>2. QED
      BY <2>1, BeginInv
  <1>3. CASE Sweep(c)
    BY <1>3, SweptInv DEF Sweep, Goto
  <1>4. CASE Claim(c)
    BY <1>4, ClaimInv
  <1>5. CASE Find(c)
    BY <1>5, GotoInv DEF Find
  <1>6. CASE Execute(c)
    <2>1. CASE Post(c, TRUE) /\ (Goto(c, "finalize") \/ Goto(c, "revert"))
      BY <1>6, <2>1, PostInv DEF Execute
    <2>2. CASE UNCHANGED money /\ Goto(c, "revert")
      BY <1>6, <2>2, GotoInv DEF Execute
    <2>3. QED
      BY <1>6, <2>1, <2>2 DEF Execute
  <1>7. CASE Finalize(c)
    BY <1>7, EndClaimInv DEF Finalize, Executing, Ended, Inv, InHand
  <1>8. CASE Revert(c)
    BY <1>8, EndClaimInv DEF Revert, Executing, Ended
  <1>9. CASE Decline(c)
    BY <1>9, DeclineInv
  <1>10. CASE Replay(c)
    BY <1>10, GotoInv DEF Replay, OnKey, Ended
  <1>11. CASE Lookup(c)
    BY <1>11, GotoInv DEF Lookup, OnKey, Ended
  <1>12. CASE Attempt(c)
    <2>1. CASE Post(c, FALSE) /\ (Goto(c, "paid") \/ Goto(c, "refused"))
      BY <1>12, <2>1, PostInv DEF Attempt
    <2>2. CASE UNCHANGED money /\ (Goto(c, "park") \/ Goto(c, "refused"))
      BY <1>12, <2>2, GotoInv DEF Attempt, OnKey, Ended
    <2>3. QED
      BY <1>12, <2>1, <2>2 DEF Attempt
  <1>13. CASE Park(c)
    BY <1>13, ParkInv
  <1>14. CASE Drop(c)
    BY <1>14, GotoInv DEF Drop, Ended
  <1>15. QED
    BY <1>1, <1>2, <1>3, <1>4, <1>5, <1>6, <1>7, <1>8, <1>9, <1>10, <1>11, <1>12,
       <1>13, <1>14 DEF Step, Approver, Agent

\* Every step keeps it.
LEMMA NextInv ==
    ASSUME Inv, [Next]_vars
    PROVE  Inv'
  <1>1. CASE \E c \in Calls :
               AskApprove(c) \/ AskDecline(c) \/ AskTransfer(c) \/ Step(c) \/ Drop(c)
    BY <1>1, CallInv
  <1>2. CASE Poll
    BY <1>2, SweptInv DEF Poll, Read
  <1>3. CASE Tick
    BY <1>3, TickInv
  <1>4. CASE Revoke \/ NewDay \/ \E a \in Asks : Overdue(a)
    BY <1>4, AroundInv
  <1>5. CASE UNCHANGED vars
    BY <1>5 DEF vars, money, rows, Inv, TypeOK, InHand, ClaimKept, Executing, PaidOnce,
                ApprovedIsPaid, OneOpenAsk, Open, UsedIsCapped
  <1>6. QED
    BY <1>1, <1>2, <1>3, <1>4, <1>5 DEF Next

\* So it always holds.
LEMMA InvHolds == Spec => []Inv
  <1>1. Init => Inv
    BY InitInv
  <1>2. Inv /\ [Next]_vars => Inv'
    BY NextInv
  <1>3. QED
    BY <1>1, <1>2, PTL DEF Spec

-----------------------------------------------------------------------------
(* What follows. *)

\* Every variable keeps its type, whatever requests do.
THEOREM TypeCorrect == Spec => []TypeOK
  <1>1. Inv => TypeOK
    BY DEF Inv
  <1>2. QED
    BY <1>1, InvHolds, PTL

\* No reader takes the claim of an approver that is still executing, and no two
\* approvers execute one ask, provided that a lease outlasts a request: that is
\* all the reclaim of approvals.rs rests on.
THEOREM ClaimIsHeld == Spec => []ClaimHeld
  <1>1. Inv => ClaimHeld
    BY DEF Inv, ClaimKept, ClaimHeld
  <1>2. QED
    BY <1>1, InvHolds, PTL

\* A key moves money once, a final "approved" has moved it, and a transfer has
\* one open ask, however calls, sweeps and timeouts interleave.
THEOREM AsksAreSound == Spec => [](PaidOnce /\ ApprovedIsPaid /\ OneOpenAsk)
  <1>1. Inv => PaidOnce /\ ApprovedIsPaid /\ OneOpenAsk
    BY DEF Inv
  <1>2. QED
    BY <1>1, InvHolds, PTL

\* A key moves money once, although the caller retries it, the approver executes
\* it and both may lose the answer.
THEOREM KeysMoveMoneyOnce == Spec => []PaidOnce
  BY AsksAreSound, PTL

\* A transfer has at most one ask open, however many of its retries park.
THEOREM OneAskIsOpen == Spec => []OneOpenAsk
  BY AsksAreSound, PTL

\* A transfer that the agent makes by itself keeps the day's spending, approved
\* overages included, within the mandate's cap.
THEOREM CapIsKept == Spec => WithinDailyCap
  <1>1. ASSUME Inv, [Next]_vars
        PROVE  [\A c \in Calls : AgentPosts(c) => spent' <= DailyCap]_vars
    <2> SUFFICES ASSUME Next, NEW c \in Calls, AgentPosts(c)
                 PROVE  spent' <= DailyCap
      BY <1>1 DEF AgentPosts, vars
    <2>1. want[c] \in Keys /\ DailyCap \in Nat /\ spent \in Nat /\ used \in 0..DailyCap
      BY <1>1, CapsAssumption DEF AgentPosts, Inv, InHand, OnKey, TypeOK
    <2>2. Attempt(c)
      <3>1. \A d \in Calls : d # c => ~ \E where : Goto(d, where)
        BY <1>1 DEF AgentPosts, Goto, Inv, TypeOK
      <3>2. PICK d \in Calls : Step(d) \/ Drop(d)
        <4>1. at' # at
          BY DEF AgentPosts
        <4>2. ~ (Poll \/ Revoke \/ NewDay \/ Tick \/ \E a \in Asks : Overdue(a))
          BY <4>1 DEF Poll, Read, Revoke, NewDay, Tick, Overdue
        <4>3. \A e \in Calls : ~ (AskApprove(e) \/ AskDecline(e) \/ AskTransfer(e))
          BY DEF AgentPosts, AskApprove, AskDecline, AskTransfer, Begin, money
        <4>4. QED
          BY <4>2, <4>3 DEF Next
      <3>3. QED
        BY <3>1, <3>2 DEF AgentPosts, Step, Approver, Agent, Sweep, Claim, Find, Execute,
              Finalize, Revert, Decline, Replay, Lookup, Attempt, Park, Drop, money
    <2>3. ~OverCaps(Amount[want[c]]) /\ Post(c, FALSE)
      BY <2>2 DEF Attempt, AgentPosts, money
    <2>4. Amount[want[c]] \in Nat /\ Amount[want[c]] > 0
      BY <2>1, CapsAssumption
    <2>5. used = IF spent > DailyCap THEN DailyCap ELSE spent
      BY <1>1 DEF Inv, UsedIsCapped
    <2>6. spent' = spent + Amount[want[c]]
      BY <2>3 DEF Post, AgentPosts
    <2>7. QED
      BY <2>1, <2>3, <2>4, <2>5, <2>6 DEF OverCaps
  <1>2. QED
    BY <1>1, InvHolds, PTL DEF Spec, WithinDailyCap
=============================================================================
