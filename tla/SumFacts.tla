------------------------------ MODULE SumFacts ------------------------------
(***************************************************************************)
(* Facts about sums over finite sets.  The sum is a recursive definition;  *)
(* that the recursion defines a function at all, and what it computes, is  *)
(* shown by induction on the subsets of a finite set.                      *)
(***************************************************************************)
EXTENDS Sums, FiniteSetTheorems, WellFoundedInduction, TLAPS

-----------------------------------------------------------------------------
(* Induction, with a set of sets in the place of a predicate. *)

\* Of a family of subsets of a finite set one has no smaller member.
LEMMA SmallestMember ==
    ASSUME NEW U, IsFiniteSet(U), NEW F, F \subseteq SUBSET U, F # {}
    PROVE  \E X \in F : \A Y \in F : Y \subseteq X => Y = X
  <1>1. IsWellFoundedOn(StrictSubsetOrdering(U), SUBSET U)
    BY FS_StrictSubsetOrderingWellFounded, FS_FiniteSubsetsOfFinite
  <1>2. PICK X \in F : \A Y \in F : <<Y, X>> \notin StrictSubsetOrdering(U)
    BY <1>1, WFMin
  <1>3. \A Y \in F : Y \subseteq X => Y = X
    BY <1>2 DEF StrictSubsetOrdering
  <1> QED
    BY <1>3

\* A family that has the empty set, and with a set the set and one element more,
\* has every subset.
LEMMA SubsetInduction ==
    ASSUME NEW U, IsFiniteSet(U), NEW F, {} \in F,
           \A X \in SUBSET U, x \in U : X \in F /\ x \notin X => X \cup {x} \in F
    PROVE  SUBSET U \subseteq F
  <1> DEFINE G == (SUBSET U) \ F
  <1> SUFFICES ASSUME G # {} PROVE FALSE
    OBVIOUS
  <1>1. G \subseteq SUBSET U
    OBVIOUS
  <1> HIDE DEF G
  <1>2. PICK X \in G : \A Y \in G : Y \subseteq X => Y = X
    BY <1>1, SmallestMember
  <1>3. X \in SUBSET U /\ X \notin F /\ X # {}
    <2>1. X \in G
      BY <1>2
    <2>2. X \in SUBSET U /\ X \notin F
      BY <2>1 DEF G
    <2> QED
      BY <2>2
  <1>4. PICK x \in X : TRUE
    BY <1>3
  <1>5. X \ {x} \in F
    BY <1>2, <1>3, <1>4 DEF G
  <1>6. X = (X \ {x}) \cup {x} /\ X \ {x} \in SUBSET U /\ x \in U /\ x \notin X \ {x}
    BY <1>3, <1>4
  <1> QED
    BY <1>3, <1>5, <1>6

-----------------------------------------------------------------------------
(* The recursion has a solution. *)

Pick(s) == CHOOSE x \in s : TRUE
IsSum(f, S, g) ==
    g = [s \in SUBSET S |-> IF s = {} THEN 0 ELSE f[Pick(s)] + g[s \ {Pick(s)}]]
TheSum(f, S) == CHOOSE g : IsSum(f, S, g)

LEMMA PickIsIn == ASSUME NEW s, s # {} PROVE Pick(s) \in s
  BY DEF Pick

LEMMA IsSumAt ==
    ASSUME NEW f, NEW S, NEW g, IsSum(f, S, g), NEW s \in SUBSET S
    PROVE  g[s] = IF s = {} THEN 0 ELSE f[Pick(s)] + g[s \ {Pick(s)}]
  <1> DEFINE e(t) == IF t = {} THEN 0 ELSE f[Pick(t)] + g[t \ {Pick(t)}]
  <1>1. g = [t \in SUBSET S |-> e(t)]
    BY DEF IsSum
  <1> HIDE DEF e
  <1>2. g[s] = e(s)
    BY <1>1
  <1> QED
    BY <1>2 DEF e

LEMMA SumsAgree ==
    ASSUME NEW f, NEW S, NEW g, IsSum(f, S, g), NEW R, NEW h, IsSum(f, R, h),
           IsFiniteSet(S), R \subseteq S
    PROVE  \A s \in SUBSET R : g[s] = h[s]
  <1> DEFINE D == {s \in SUBSET R : g[s] # h[s]}
  <1> SUFFICES ASSUME D # {} PROVE FALSE
    OBVIOUS
  <1>1. PICK s \in D : \A t \in D : t \subseteq s => t = s
    <2>1. D \subseteq SUBSET S
      OBVIOUS
    <2> HIDE DEF D
    <2> QED
      BY <2>1, SmallestMember
  <1>2. s \in SUBSET R /\ s \in SUBSET S /\ g[s] # h[s]
    OBVIOUS
  <1>3. s # {}
    BY <1>2, IsSumAt
  <1> DEFINE p == Pick(s)
  <1>4. p \in s
    BY <1>3, PickIsIn
  <1>5. g[s \ {p}] = h[s \ {p}]
    BY <1>1, <1>2, <1>4
  <1>6. g[s] = f[p] + g[s \ {p}] /\ h[s] = f[p] + h[s \ {p}]
    BY <1>2, <1>3, IsSumAt
  <1> QED
    BY <1>2, <1>5, <1>6

LEMMA SumExists ==
    ASSUME NEW f, NEW S, IsFiniteSet(S) PROVE IsSum(f, S, TheSum(f, S))
  <1> DEFINE N == {X \in SUBSET S : ~IsSum(f, X, TheSum(f, X))}
  <1> SUFFICES ASSUME N # {} PROVE FALSE
    OBVIOUS
  <1>1. PICK X \in N : \A Y \in N : Y \subseteq X => Y = X
    <2>1. N \subseteq SUBSET S
      OBVIOUS
    <2> HIDE DEF N
    <2> QED
      BY <2>1, SmallestMember
  <1>2. X \in SUBSET S /\ ~IsSum(f, X, TheSum(f, X))
    OBVIOUS
  <1>3. \A Y \in SUBSET X : Y # X => IsSum(f, Y, TheSum(f, Y)) /\ IsFiniteSet(Y)
    BY <1>1, <1>2, FS_Subset
  <1> DEFINE Below(s) == TheSum(f, s \ {Pick(s)})[s \ {Pick(s)}]
             e(s) == IF s = {} THEN 0 ELSE f[Pick(s)] + Below(s)
             g == [s \in SUBSET X |-> e(s)]
  <1>4. ASSUME NEW s \in SUBSET X, s # X PROVE e(s) = TheSum(f, s)[s]
    <2>1. IsSum(f, s, TheSum(f, s)) /\ IsFiniteSet(s)
      BY <1>3, <1>4
    <2>2. CASE s = {}
      BY <2>1, <2>2, IsSumAt
    <2>3. CASE s # {}
      <3> DEFINE r == s \ {Pick(s)}
      <3>1. Pick(s) \in s
        BY <2>3, PickIsIn
      <3>2. r \in SUBSET X /\ r # X /\ r \subseteq s
        BY <3>1
      <3>3. IsSum(f, r, TheSum(f, r))
        BY <1>3, <3>2
      <3>4. TheSum(f, s)[r] = TheSum(f, r)[r]
        <4>1. r \in SUBSET r
          OBVIOUS
        <4> HIDE DEF r
        <4> QED
          BY <2>1, <3>2, <3>3, <4>1, SumsAgree
      <3>5. TheSum(f, s)[s] = f[Pick(s)] + TheSum(f, s)[r]
        <4>1. s \in SUBSET s
          OBVIOUS
        <4> QED
          BY <2>1, <2>3, <4>1, IsSumAt
      <3> QED
        BY <2>3, <3>4, <3>5
    <2> QED
      BY <2>2, <2>3
  <1>5. ASSUME NEW s \in SUBSET X, s # {} PROVE Below(s) = g[s \ {Pick(s)}]
    <2>1. Pick(s) \in s
      BY <1>5, PickIsIn
    <2>2. s \ {Pick(s)} \in SUBSET X /\ s \ {Pick(s)} # X
      BY <2>1
    <2> HIDE DEF e
    <2>3. e(s \ {Pick(s)}) = Below(s)
      BY <1>4, <2>2
    <2> QED
      BY <2>2, <2>3
  <1>6. IsSum(f, X, g)
    <2>1. \A s \in SUBSET X : e(s) = IF s = {} THEN 0 ELSE f[Pick(s)] + g[s \ {Pick(s)}]
      BY <1>5
    <2> HIDE DEF e
    <2> QED
      BY <2>1 DEF IsSum
  <1>7. IsSum(f, X, TheSum(f, X))
    <2> HIDE DEF g
    <2> QED
      BY <1>6 DEF TheSum
  <1> QED
    BY <1>2, <1>7

LEMMA SumIs ==
    ASSUME NEW S, NEW f PROVE SumOver(S, f) = TheSum(f, S)[S]
  BY DEF SumOver, MapThenSumSet, MapThenFoldSet, TheSum, IsSum, Pick

LEMMA SumEmpty == ASSUME NEW f PROVE SumOver({}, f) = 0
  <1>1. IsSum(f, {}, TheSum(f, {})) /\ {} \in SUBSET {}
    BY FS_EmptySet, SumExists
  <1> QED
    BY <1>1, IsSumAt, SumIs

LEMMA SumPick ==
    ASSUME NEW f, NEW S, IsFiniteSet(S), S # {}
    PROVE  SumOver(S, f) = f[Pick(S)] + SumOver(S \ {Pick(S)}, f)
  <1> DEFINE R == S \ {Pick(S)}
  <1>1. IsFiniteSet(R) /\ R \subseteq S /\ R \in SUBSET R /\ S \in SUBSET S
    BY FS_Subset
  <1>2. IsSum(f, S, TheSum(f, S)) /\ IsSum(f, R, TheSum(f, R))
    BY <1>1, SumExists
  <1>3. TheSum(f, S)[S] = f[Pick(S)] + TheSum(f, S)[R]
    BY <1>1, <1>2, IsSumAt
  <1>4. TheSum(f, S)[R] = TheSum(f, R)[R]
    <2> HIDE DEF R
    <2> QED
      BY <1>1, <1>2, SumsAgree
  <1> QED
    BY <1>3, <1>4, SumIs

-----------------------------------------------------------------------------
(* What a sum is. *)

\* All elements of S have a whole number.
WholeOn(S, f) == \A x \in S : f[x] \in Int

LEMMA SumType ==
    ASSUME NEW S, IsFiniteSet(S), NEW f, WholeOn(S, f) PROVE SumOver(S, f) \in Int
  <1> DEFINE N == {X \in SUBSET S : SumOver(X, f) \notin Int}
  <1> SUFFICES ASSUME N # {} PROVE FALSE
    OBVIOUS
  <1>1. N \subseteq SUBSET S
    OBVIOUS
  <1> HIDE DEF N
  <1>2. PICK X \in N : \A Y \in N : Y \subseteq X => Y = X
    BY <1>1, SmallestMember
  <1>3. X \in SUBSET S /\ SumOver(X, f) \notin Int
    BY DEF N
  <1>4. X # {} /\ IsFiniteSet(X)
    <2>1. SumOver({}, f) \in Int
      BY SumEmpty
    <2> QED
      BY <1>3, <2>1, FS_Subset
  <1>5. Pick(X) \in X
    BY <1>4, PickIsIn
  <1>6. SumOver(X, f) = f[Pick(X)] + SumOver(X \ {Pick(X)}, f)
    BY <1>4, SumPick
  <1>7. SumOver(X \ {Pick(X)}, f) \in Int
    BY <1>2, <1>3, <1>5 DEF N
  <1>8. f[Pick(X)] \in Int
    BY <1>3, <1>5 DEF WholeOn
  <1> QED
    BY <1>3, <1>6, <1>7, <1>8

\* In whichever order its elements are chosen, a sum is that of one element and
\* of the others.
LEMMA SumAdd ==
    ASSUME NEW S, IsFiniteSet(S), NEW f, NEW x, x \notin S, WholeOn(S \cup {x}, f)
    PROVE  SumOver(S \cup {x}, f) = SumOver(S, f) + f[x]
  <1> DEFINE U == S \cup {x}
             Adds(X) == \A y \in U \ X : SumOver(X \cup {y}, f) = SumOver(X, f) + f[y]
             N == {X \in SUBSET U : ~Adds(X)}
  <1>1. IsFiniteSet(U)
    BY FS_AddElement
  <1> SUFFICES ASSUME N # {} PROVE FALSE
    OBVIOUS
  <1>2. N \subseteq SUBSET U
    OBVIOUS
  <1> HIDE DEF U, N
  <1>3. PICK X \in N : \A Y \in N : Y \subseteq X => Y = X
    BY <1>1, <1>2, SmallestMember
  <1>4. PICK y \in U \ X : SumOver(X \cup {y}, f) # SumOver(X, f) + f[y]
    BY <1>3 DEF N
  <1>5. X \in SUBSET U /\ WholeOn(U, f)
    BY DEF N, U
  <1> DEFINE Z == X \cup {y}  p == Pick(Z)
  <1>6. /\ IsFiniteSet(Z) /\ Z # {} /\ Z \in SUBSET U /\ Z \ {y} = X /\ y \in Z
        /\ IsFiniteSet(X)
    BY <1>1, <1>4, <1>5, FS_Subset
  <1>7. p \in Z
    BY <1>6, PickIsIn
  <1>8. SumOver(Z, f) = f[p] + SumOver(Z \ {p}, f)
    BY <1>6, SumPick
  <1>9. f[p] \in Int /\ f[y] \in Int /\ SumOver(X, f) \in Int
    BY <1>4, <1>5, <1>6, <1>7, SumType DEF WholeOn
  <1>10. CASE p = y
    <2>1. SumOver(Z, f) = f[y] + SumOver(X, f)
      BY <1>6, <1>8, <1>10
    <2> QED
      BY <1>4, <1>9, <2>1
  <1>11. CASE p # y
    <2> DEFINE Y == X \ {p}
    <2>1. p \in X /\ Y \subseteq X /\ Y # X /\ Z \ {p} = Y \cup {y} /\ X = Y \cup {p}
      BY <1>4, <1>7, <1>11
    <2>2. Adds(Y)
      BY <1>3, <1>5, <2>1 DEF N
    <2>3. /\ SumOver(Y \cup {y}, f) = SumOver(Y, f) + f[y]
          /\ SumOver(Y \cup {p}, f) = SumOver(Y, f) + f[p]
      BY <1>4, <1>5, <2>1, <2>2
    <2>4. SumOver(Y, f) \in Int
      BY <1>5, <1>6, <2>1, SumType, FS_Subset DEF WholeOn
    <2>5. /\ SumOver(Z, f) = f[p] + SumOver(Y \cup {y}, f)
          /\ SumOver(X, f) = SumOver(Y \cup {p}, f)
      BY <1>8, <2>1
    <2> HIDE DEF Z, Y, p
    <2>6. SumOver(Z, f) = SumOver(X, f) + f[y]
      BY <1>9, <2>3, <2>4, <2>5
    <2> QED
      BY <1>4, <2>6 DEF Z
  <1> QED
    BY <1>10, <1>11

LEMMA SumRemove ==
    ASSUME NEW S, IsFiniteSet(S), NEW f, NEW x \in S, WholeOn(S, f)
    PROVE  SumOver(S, f) = SumOver(S \ {x}, f) + f[x]
  <1>1. IsFiniteSet(S \ {x}) /\ (S \ {x}) \cup {x} = S /\ x \notin S \ {x}
    BY FS_Subset
  <1> QED
    BY <1>1, SumAdd

LEMMA SumSame ==
    ASSUME NEW S, IsFiniteSet(S), NEW f, NEW g, WholeOn(S, f), \A x \in S : f[x] = g[x]
    PROVE  SumOver(S, f) = SumOver(S, g)
  <1> DEFINE F == {X \in SUBSET S : SumOver(X, f) = SumOver(X, g)}
  <1>1. {} \in F
    BY SumEmpty
  <1>2. ASSUME NEW X \in SUBSET S, NEW x \in S, X \in F, x \notin X PROVE X \cup {x} \in F
    <2>1. /\ IsFiniteSet(X) /\ WholeOn(X \cup {x}, f) /\ WholeOn(X \cup {x}, g)
          /\ SumOver(X, f) = SumOver(X, g) /\ f[x] = g[x]
      BY <1>2, FS_Subset DEF WholeOn
    <2>2. SumOver(X \cup {x}, f) = SumOver(X \cup {x}, g)
      BY <1>2, <2>1, SumAdd
    <2> QED
      BY <2>2
  <1> HIDE DEF F
  <1>3. SUBSET S \subseteq F
    BY <1>1, <1>2, SubsetInduction
  <1> QED
    BY <1>3 DEF F

\* Sums of sums.
LEMMA SumPlus ==
    ASSUME NEW S, IsFiniteSet(S), NEW f, NEW g, NEW h, WholeOn(S, f), WholeOn(S, g),
           \A x \in S : h[x] = f[x] + g[x]
    PROVE  SumOver(S, h) = SumOver(S, f) + SumOver(S, g)
  <1> DEFINE F == {X \in SUBSET S : SumOver(X, h) = SumOver(X, f) + SumOver(X, g)}
  <1>1. {} \in F
    BY SumEmpty
  <1>2. ASSUME NEW X \in SUBSET S, NEW x \in S, X \in F, x \notin X PROVE X \cup {x} \in F
    <2>1. /\ IsFiniteSet(X) /\ WholeOn(X \cup {x}, f) /\ WholeOn(X \cup {x}, g)
          /\ WholeOn(X \cup {x}, h) /\ WholeOn(X, f) /\ WholeOn(X, g)
          /\ f[x] \in Int /\ g[x] \in Int /\ h[x] = f[x] + g[x]
      BY <1>2, FS_Subset DEF WholeOn
    <2>2. /\ SumOver(X \cup {x}, f) = SumOver(X, f) + f[x]
          /\ SumOver(X \cup {x}, g) = SumOver(X, g) + g[x]
          /\ SumOver(X \cup {x}, h) = SumOver(X, h) + h[x]
      <3>1. SumOver(X \cup {x}, f) = SumOver(X, f) + f[x]
        BY <1>2, <2>1, SumAdd
      <3>2. SumOver(X \cup {x}, g) = SumOver(X, g) + g[x]
        BY <1>2, <2>1, SumAdd
      <3>3. SumOver(X \cup {x}, h) = SumOver(X, h) + h[x]
        <4>1. IsFiniteSet(X) /\ x \notin X /\ WholeOn(X \cup {x}, h)
          BY <1>2, <2>1
        <4> QED
          BY <4>1, SumAdd
      <3> QED
        BY <3>1, <3>2, <3>3
    <2>3. SumOver(X, f) \in Int /\ SumOver(X, g) \in Int
      BY <2>1, SumType
    <2>4. SumOver(X, h) = SumOver(X, f) + SumOver(X, g)
      BY <1>2
    <2>5. SumOver(X \cup {x}, h) = SumOver(X \cup {x}, f) + SumOver(X \cup {x}, g)
      BY <2>1, <2>2, <2>3, <2>4
    <2> QED
      BY <2>5
  <1> HIDE DEF F
  <1>3. SUBSET S \subseteq F
    BY <1>1, <1>2, SubsetInduction
  <1> QED
    BY <1>3 DEF F

LEMMA SumZero ==
    ASSUME NEW S, IsFiniteSet(S), NEW f, \A x \in S : f[x] = 0 PROVE SumOver(S, f) = 0
  <1> DEFINE F == {X \in SUBSET S : SumOver(X, f) = 0}
  <1>1. {} \in F
    BY SumEmpty
  <1>2. ASSUME NEW X \in SUBSET S, NEW x \in S, X \in F, x \notin X PROVE X \cup {x} \in F
    <2>1. IsFiniteSet(X) /\ WholeOn(X \cup {x}, f) /\ f[x] = 0 /\ SumOver(X, f) = 0
      BY <1>2, FS_Subset DEF WholeOn
    <2>2. SumOver(X \cup {x}, f) = 0
      BY <1>2, <2>1, SumAdd
    <2> QED
      BY <2>2
  <1> HIDE DEF F
  <1>3. SUBSET S \subseteq F
    BY <1>1, <1>2, SubsetInduction
  <1> QED
    BY <1>3 DEF F

\* A sum grows with its terms, and with its set where no term is negative.
LEMMA SumMonotone ==
    ASSUME NEW S, IsFiniteSet(S), NEW f, NEW g, WholeOn(S, f), WholeOn(S, g),
           \A x \in S : f[x] <= g[x]
    PROVE  SumOver(S, f) <= SumOver(S, g)
  <1> DEFINE F == {X \in SUBSET S : SumOver(X, f) <= SumOver(X, g)}
  <1>1. {} \in F
    BY SumEmpty
  <1>2. ASSUME NEW X \in SUBSET S, NEW x \in S, X \in F, x \notin X PROVE X \cup {x} \in F
    <2>1. /\ IsFiniteSet(X) /\ WholeOn(X \cup {x}, f) /\ WholeOn(X \cup {x}, g)
          /\ WholeOn(X, f) /\ WholeOn(X, g)
          /\ f[x] \in Int /\ g[x] \in Int /\ f[x] <= g[x]
      BY <1>2, FS_Subset DEF WholeOn
    <2>2. /\ SumOver(X \cup {x}, f) = SumOver(X, f) + f[x]
          /\ SumOver(X \cup {x}, g) = SumOver(X, g) + g[x]
      BY <1>2, <2>1, SumAdd
    <2>3. SumOver(X, f) \in Int /\ SumOver(X, g) \in Int
      BY <2>1, SumType
    <2>4. SumOver(X, f) <= SumOver(X, g)
      BY <1>2
    <2>5. SumOver(X \cup {x}, f) <= SumOver(X \cup {x}, g)
      BY <2>1, <2>2, <2>3, <2>4
    <2> QED
      BY <2>5
  <1> HIDE DEF F
  <1>3. SUBSET S \subseteq F
    BY <1>1, <1>2, SubsetInduction
  <1> QED
    BY <1>3 DEF F

\* What only one element changes.
LEMMA SumChange ==
    ASSUME NEW S, IsFiniteSet(S), NEW f, NEW g, NEW x \in S, WholeOn(S, f), WholeOn(S, g),
           \A y \in S \ {x} : f[y] = g[y]
    PROVE  SumOver(S, g) = SumOver(S, f) + (g[x] - f[x])
  <1>1. IsFiniteSet(S \ {x}) /\ WholeOn(S \ {x}, f) /\ f[x] \in Int /\ g[x] \in Int
    BY FS_Subset DEF WholeOn
  <1>2. SumOver(S \ {x}, f) = SumOver(S \ {x}, g) /\ SumOver(S \ {x}, f) \in Int
    BY <1>1, SumSame, SumType
  <1>3. /\ SumOver(S, f) = SumOver(S \ {x}, f) + f[x]
        /\ SumOver(S, g) = SumOver(S \ {x}, g) + g[x]
    BY SumRemove
  <1> QED
    BY <1>1, <1>2, <1>3

LEMMA SumUnion ==
    ASSUME NEW S, IsFiniteSet(S), NEW T, IsFiniteSet(T), NEW f
    PROVE  S \cap T = {} /\ WholeOn(S \cup T, f)
               => SumOver(S \cup T, f) = SumOver(S, f) + SumOver(T, f)
  <1>0. SUFFICES ASSUME S \cap T = {}, WholeOn(S \cup T, f)
                 PROVE  SumOver(S \cup T, f) = SumOver(S, f) + SumOver(T, f)
    OBVIOUS
  <1> DEFINE F == {X \in SUBSET T : SumOver(S \cup X, f) = SumOver(S, f) + SumOver(X, f)}
  <1>1. {} \in F
    <2>1. S \cup {} = S /\ SumOver(S, f) \in Int
      BY <1>0, SumType DEF WholeOn
    <2> QED
      BY <2>1, SumEmpty
  <1>2. ASSUME NEW X \in SUBSET T, NEW x \in T, X \in F, x \notin X PROVE X \cup {x} \in F
    <2>1. /\ IsFiniteSet(X) /\ IsFiniteSet(S \cup X)
          /\ WholeOn(X \cup {x}, f) /\ WholeOn((S \cup X) \cup {x}, f) /\ x \notin S \cup X
      BY <1>0, <1>2, FS_Subset, FS_Union DEF WholeOn
    <2>2. SumOver(X \cup {x}, f) = SumOver(X, f) + f[x]
      BY <1>2, <2>1, SumAdd
    <2>3. SumOver((S \cup X) \cup {x}, f) = SumOver(S \cup X, f) + f[x]
      BY <2>1, SumAdd
    <2>4. SumOver(S, f) \in Int /\ SumOver(X, f) \in Int /\ f[x] \in Int
      BY <1>0, <2>1, SumType DEF WholeOn
    <2>5. (S \cup X) \cup {x} = S \cup (X \cup {x}) /\ X \cup {x} \in SUBSET T
      OBVIOUS
    <2>6. SumOver(S \cup X, f) = SumOver(S, f) + SumOver(X, f)
      BY <1>2
    <2>7. SumOver((S \cup X) \cup {x}, f) = SumOver(S, f) + SumOver(X \cup {x}, f)
      <3> HIDE DEF F
      <3> QED
        BY <2>2, <2>3, <2>4, <2>6
    <2>8. SumOver(S \cup (X \cup {x}), f) = SumOver(S, f) + SumOver(X \cup {x}, f)
      <3> HIDE DEF F
      <3> QED
        BY <2>5, <2>7
    <2> QED
      BY <2>5, <2>8
  <1> HIDE DEF F
  <1>3. SUBSET T \subseteq F
    <2>1. \A X \in SUBSET T, x \in T : X \in F /\ x \notin X => X \cup {x} \in F
      BY <1>2
    <2> QED
      BY <1>1, <2>1, SubsetInduction
  <1> QED
    BY <1>3 DEF F

LEMMA SumNat ==
    ASSUME NEW S, IsFiniteSet(S), NEW f, \A x \in S : f[x] \in Nat PROVE SumOver(S, f) \in Nat
  <1> DEFINE z == [x \in S |-> 0]
  <1>1. \A x \in S : z[x] = 0
    OBVIOUS
  <1> HIDE DEF z
  <1>2. WholeOn(S, z) /\ WholeOn(S, f) /\ \A x \in S : z[x] <= f[x]
    BY <1>1 DEF WholeOn
  <1>3. SumOver(S, z) = 0 /\ SumOver(S, z) <= SumOver(S, f) /\ SumOver(S, f) \in Int
    BY <1>1, <1>2, SumZero, SumMonotone, SumType
  <1> QED
    BY <1>3

\* More elements, none below zero, do not make a sum less.
LEMMA SumGrows ==
    ASSUME NEW T, IsFiniteSet(T), NEW S \in SUBSET T, NEW f, \A x \in T : f[x] \in Nat
    PROVE  SumOver(S, f) <= SumOver(T, f)
  <1>1. IsFiniteSet(S) /\ IsFiniteSet(T \ S) /\ T = S \cup (T \ S) /\ WholeOn(S \cup (T \ S), f)
    BY FS_Subset DEF WholeOn
  <1>2. SumOver(T, f) = SumOver(S, f) + SumOver(T \ S, f)
    BY <1>1, SumUnion
  <1>3. SumOver(S, f) \in Nat /\ SumOver(T \ S, f) \in Nat
    BY <1>1, SumNat
  <1> QED
    BY <1>2, <1>3

\* A table that has f in column d and nothing in the others sums to f.
LEMMA SumColumn ==
    ASSUME NEW S, IsFiniteSet(S), NEW D, IsFiniteSet(D), NEW d \in D, NEW f, NEW h,
           WholeOn(S, f), \A x \in S : h[<<x, d>>] = f[x],
           \A x \in S, e \in D \ {d} : h[<<x, e>>] = 0
    PROVE  SumOver(S \X D, h) = SumOver(S, f)
  <1> DEFINE F == {X \in SUBSET S : SumOver(X \X {d}, h) = SumOver(X, f)}
             R == S \X (D \ {d})
  <1>1. {} \in F
    <2>1. {} \X {d} = {}
      OBVIOUS
    <2> QED
      BY <2>1, SumEmpty
  <1>2. ASSUME NEW X \in SUBSET S, NEW x \in S, X \in F, x \notin X PROVE X \cup {x} \in F
    <2>1. IsFiniteSet(X) /\ IsFiniteSet({d})
      BY FS_Subset, FS_Singleton
    <2>2. IsFiniteSet(X \X {d})
      BY <2>1, FS_Product
    <2>3. /\ (X \cup {x}) \X {d} = (X \X {d}) \cup {<<x, d>>} /\ <<x, d>> \notin X \X {d}
          /\ WholeOn((X \X {d}) \cup {<<x, d>>}, h) /\ WholeOn(X \cup {x}, f)
      BY <1>2 DEF WholeOn
    <2>4. SumOver((X \X {d}) \cup {<<x, d>>}, h) = SumOver(X \X {d}, h) + h[<<x, d>>]
      <3>0. SUFFICES ASSUME NEW Y, Y = X \X {d}, NEW p, p = <<x, d>>
                     PROVE  SumOver(Y \cup {p}, h) = SumOver(Y, h) + h[p]
        OBVIOUS
      <3>1. IsFiniteSet(Y) /\ p \notin Y /\ WholeOn(Y \cup {p}, h)
        BY <2>2, <2>3, <3>0
      <3> HIDE DEF F
      <3> QED
        BY <3>1, SumAdd
    <2>5. SumOver(X \cup {x}, f) = SumOver(X, f) + f[x]
      <3> HIDE DEF F
      <3> QED
        BY <1>2, <2>1, <2>3, SumAdd
    <2> QED
      BY <1>2, <2>3, <2>4, <2>5
  <1>3. SumOver(S \X {d}, h) = SumOver(S, f)
    <2> HIDE DEF F
    <2>1. SUBSET S \subseteq F
      BY <1>1, <1>2, SubsetInduction
    <2> QED
      BY <2>1 DEF F
  <1>4. IsFiniteSet(S \X {d}) /\ IsFiniteSet(R)
    <2>1. IsFiniteSet({d}) /\ IsFiniteSet(D \ {d})
      BY FS_Singleton, FS_Subset
    <2> QED
      BY <2>1, FS_Product
  <1>5. /\ S \X D = (S \X {d}) \cup R /\ (S \X {d}) \cap R = {}
        /\ WholeOn((S \X {d}) \cup R, h) /\ \A r \in R : h[r] = 0
    BY DEF WholeOn
  <1>6. SumOver(R, h) = 0
    BY <1>4, <1>5, SumZero
  <1>7. SumOver(S \X D, h) = SumOver(S \X {d}, h) + SumOver(R, h) /\ SumOver(S, f) \in Int
    <2>0. SUFFICES ASSUME NEW Y, Y = S \X {d}, NEW Z, Z = R, NEW U, U = S \X D
                   PROVE  SumOver(U, h) = SumOver(Y, h) + SumOver(Z, h)
      BY SumType
    <2> HIDE DEF R, F
    <2>1. /\ IsFiniteSet(Y) /\ IsFiniteSet(Z) /\ Y \cap Z = {} /\ WholeOn(Y \cup Z, h)
          /\ U = Y \cup Z
      BY <1>4, <1>5, <2>0
    <2>2. SumOver(Y \cup Z, h) = SumOver(Y, h) + SumOver(Z, h)
      BY <2>1, SumUnion
    <2> QED
      BY <2>1, <2>2
  <1> QED
    BY <1>3, <1>6, <1>7
=============================================================================
