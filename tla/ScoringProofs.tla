----------------------------- MODULE ScoringProofs -----------------------------
(***************************************************************************)
(* What the scoring functions agree on, for any reviews, any day and any   *)
(* exponential.                                                            *)
(***************************************************************************)
EXTENDS Scoring, FiniteSetTheorems, WellFoundedInduction, TLAPS

-----------------------------------------------------------------------------
(* Sums.  SumFunction is a recursive function over the subsets of a domain; *)
(* that it exists and what its values are is shown by a smallest            *)
(* cardinality for which it would not be so.                                *)

\* A set of numbers with zero and with every successor is all of them.
LEMMA AllNumbers ==
    ASSUME NEW G \in SUBSET Nat, 0 \in G, \A n \in G : n + 1 \in G
    PROVE  G = Nat
<1> SUFFICES ASSUME Nat \ G # {} PROVE FALSE
  OBVIOUS
<1>1. IsWellFoundedOn(OpToRel(<, Nat), Nat)
  BY NatLessThanWellFounded
<1>2. PICK n \in Nat \ G : \A k \in Nat \ G : <<k, n>> \notin OpToRel(<, Nat)
  BY <1>1, WFMin
<1>3. \A k \in Nat \ G : ~(k < n)
  BY <1>2 DEF OpToRel
<1>4. n # 0 /\ n - 1 \in Nat
  OBVIOUS
<1>5. n - 1 \in G
  BY <1>3, <1>4
<1> QED BY <1>5, <1>4

Pick(s) == CHOOSE x \in s : TRUE

\* What iter in MapThenFoldSet is chosen to satisfy.
SumsUp(it, F, S, T) ==
    \A s \in T : it[s] = IF s = {} THEN 0 ELSE F[Pick(s)] + it[s \ {Pick(s)}]

UpTo(n, S) == {s \in SUBSET S : Cardinality(s) <= n}

LEMMA Smaller ==
    ASSUME NEW S, IsFiniteSet(S), NEW s \in SUBSET S, s # {}
    PROVE  /\ Pick(s) \in s /\ Pick(s) \in S /\ s \ {Pick(s)} \in SUBSET S
           /\ Cardinality(s \ {Pick(s)}) = Cardinality(s) - 1
           /\ Cardinality(s) \in Nat \ {0}
<1>1. Pick(s) \in s
  BY DEF Pick
<1>2. IsFiniteSet(s) /\ Cardinality(s) \in Nat
  BY FS_Subset, FS_CardinalityType
<1>3. Cardinality(s) # 0
  BY <1>2, FS_EmptySet
<1>4. Cardinality(s \ {Pick(s)}) = Cardinality(s) - 1
  BY <1>1, <1>2, FS_RemoveElement
<1> QED BY <1>1, <1>2, <1>3, <1>4

LEMMA EmptySum ==
    ASSUME NEW S, IsFiniteSet(S), NEW s \in UpTo(0, S)
    PROVE  s = {}
<1>1. IsFiniteSet(s) /\ Cardinality(s) \in Nat /\ Cardinality(s) <= 0
  BY FS_Subset, FS_CardinalityType DEF UpTo
<1>2. Cardinality(s) = 0
  BY <1>1
<1> QED BY <1>1, <1>2, FS_EmptySet

\* A sum over a finite set exists.
LEMMA SumExists ==
    ASSUME NEW S, IsFiniteSet(S), NEW F \in [S -> Nat]
    PROVE  \E it \in [SUBSET S -> Nat] : SumsUp(it, F, S, SUBSET S)
<1> DEFINE G == {n \in Nat : \E it \in [SUBSET S -> Nat] : SumsUp(it, F, S, UpTo(n, S))}
<1>1. 0 \in G
  <2> DEFINE it == [s \in SUBSET S |-> 0]
  <2>1. it \in [SUBSET S -> Nat]
    OBVIOUS
  <2>2. SumsUp(it, F, S, UpTo(0, S))
    <3>1. \A s \in UpTo(0, S) : s = {} /\ it[s] = 0
      BY EmptySum DEF UpTo
    <3> QED BY <3>1 DEF SumsUp
  <2> QED BY <2>1, <2>2
<1>2. ASSUME NEW n \in G
      PROVE  n + 1 \in G
  <2>1. PICK it \in [SUBSET S -> Nat] : SumsUp(it, F, S, UpTo(n, S))
    OBVIOUS
  <2> DEFINE up == [s \in SUBSET S |->
                       IF s = {} THEN 0 ELSE F[Pick(s)] + it[s \ {Pick(s)}]]
  <2>2. up \in [SUBSET S -> Nat]
    <3>1. ASSUME NEW s \in SUBSET S, s # {}
          PROVE  F[Pick(s)] + it[s \ {Pick(s)}] \in Nat
      <4>1. Pick(s) \in S /\ s \ {Pick(s)} \in SUBSET S
        BY <3>1, Smaller
      <4>2. F[Pick(s)] \in Nat /\ it[s \ {Pick(s)}] \in Nat
        BY <4>1
      <4> QED BY <4>2
    <3> QED BY <3>1
  <2>3. \A s \in UpTo(n, S) : up[s] = it[s]
    BY <2>1 DEF SumsUp, UpTo
  <2>4. ASSUME NEW s \in UpTo(n + 1, S), s # {}
        PROVE  s \ {Pick(s)} \in UpTo(n, S)
    <3>1. s \in SUBSET S /\ Cardinality(s) <= n + 1
      BY DEF UpTo
    <3>2. /\ s \ {Pick(s)} \in SUBSET S /\ Cardinality(s) \in Nat
          /\ Cardinality(s \ {Pick(s)}) = Cardinality(s) - 1
      BY <3>1, <2>4, Smaller
    <3>3. Cardinality(s \ {Pick(s)}) <= n
      BY <3>1, <3>2
    <3> QED BY <3>2, <3>3 DEF UpTo
  <2>5. SumsUp(up, F, S, UpTo(n + 1, S))
    <3> SUFFICES ASSUME NEW s \in UpTo(n + 1, S)
                 PROVE  up[s] = IF s = {} THEN 0 ELSE F[Pick(s)] + up[s \ {Pick(s)}]
      BY DEF SumsUp
    <3>1. s \in SUBSET S
      BY DEF UpTo
    <3>2. CASE s = {}
      BY <3>1, <3>2
    <3>3. CASE s # {}
      <4>1. up[s \ {Pick(s)}] = it[s \ {Pick(s)}]
        BY <3>3, <2>4, <2>3
      <4>2. up[s] = F[Pick(s)] + it[s \ {Pick(s)}]
        BY <3>1, <3>3
      <4> HIDE DEF up
      <4> QED BY <4>1, <4>2, <3>3
    <3> QED BY <3>2, <3>3
  <2> HIDE DEF up
  <2> QED BY <2>2, <2>5
<1>3. G = Nat
  <2> HIDE DEF G
  <2>1. G \in SUBSET Nat
    BY DEF G
  <2> QED BY <1>1, <1>2, <2>1, AllNumbers
<1>4. Cardinality(S) \in G
  BY <1>3, FS_CardinalityType
<1>5. UpTo(Cardinality(S), S) = SUBSET S
  BY FS_Subset DEF UpTo
<1> QED BY <1>4, <1>5

\* Induction over the subsets of a finite set: a collection of them that has
\* the empty one and is closed under adding an element has the whole set.
LEMMA BuiltUp ==
    ASSUME NEW S, IsFiniteSet(S), NEW C, {} \in C,
           \A s \in SUBSET S : \A x \in S \ s : s \in C => s \cup {x} \in C
    PROVE  S \in C
<1> DEFINE G == {n \in Nat : UpTo(n, S) \subseteq C}
<1>1. 0 \in G
  BY EmptySum
<1>2. ASSUME NEW n \in G
      PROVE  n + 1 \in G
  <2> SUFFICES ASSUME NEW s \in UpTo(n + 1, S)
               PROVE  s \in C
    OBVIOUS
  <2> SUFFICES ASSUME s # {}
               PROVE  s \in C
    OBVIOUS
  <2> DEFINE x == Pick(s)
  <2>1. s \in SUBSET S /\ Cardinality(s) <= n + 1
    BY DEF UpTo
  <2>2. /\ x \in s /\ x \in S /\ s \ {x} \in SUBSET S /\ Cardinality(s) \in Nat
        /\ Cardinality(s \ {x}) = Cardinality(s) - 1
    BY <2>1, Smaller
  <2> HIDE DEF x
  <2>3. Cardinality(s \ {x}) <= n
    BY <2>1, <2>2
  <2>4. s \ {x} \in C
    BY <2>2, <2>3 DEF UpTo
  <2>5. s = (s \ {x}) \cup {x}
    BY <2>2
  <2> QED BY <2>2, <2>4, <2>5
<1>3. G = Nat
  <2> HIDE DEF G
  <2>1. G \in SUBSET Nat
    BY DEF G
  <2> QED BY <1>1, <1>2, <2>1, AllNumbers
<1>4. S \in UpTo(Cardinality(S), S) /\ Cardinality(S) \in Nat
  BY FS_CardinalityType DEF UpTo
<1> QED BY <1>3, <1>4

\* The sums over all subsets, of whatever their elements are worth.
SumsAll(it, F, S) == SumsUp(it, F, S, SUBSET S)

\* SumFunction is one of the functions that sum up.
LEMMA SumIsFound ==
    ASSUME NEW S, IsFiniteSet(S), NEW F \in [S -> Nat]
    PROVE  \E it : SumsAll(it, F, S) /\ SumFunction(F) = it[S]
<1> DEFINE it == CHOOSE it : it = [s \in SUBSET S |->
                     IF s = {} THEN 0
                     ELSE F[CHOOSE x \in s : TRUE] + it[s \ {CHOOSE x \in s : TRUE}]]
<1>1. SumFunction(F) = it[S]
  BY DEF SumFunction, SumFunctionOnSet, FoldFunctionOnSet, MapThenFoldSet
<1>2. \E f : f = [s \in SUBSET S |->
                     IF s = {} THEN 0
                     ELSE F[CHOOSE x \in s : TRUE] + f[s \ {CHOOSE x \in s : TRUE}]]
  <2>1. PICK f \in [SUBSET S -> Nat] : SumsUp(f, F, S, SUBSET S)
    BY SumExists
  <2>2. f = [s \in SUBSET S |-> IF s = {} THEN 0 ELSE F[Pick(s)] + f[s \ {Pick(s)}]]
    BY <2>1 DEF SumsUp
  <2> QED BY <2>2 DEF Pick
<1>3. it = [s \in SUBSET S |->
                     IF s = {} THEN 0
                     ELSE F[CHOOSE x \in s : TRUE] + it[s \ {CHOOSE x \in s : TRUE}]]
  BY <1>2
<1> HIDE DEF it
<1>4. SumsUp(it, F, S, SUBSET S)
  BY <1>3 DEF SumsUp, Pick
<1> QED BY <1>1, <1>4 DEF SumsAll

\* Two functions that sum up the same values agree.
LEMMA SumsAgree ==
    ASSUME NEW S, IsFiniteSet(S), NEW F, NEW it, SumsAll(it, F, S),
           NEW s \in SUBSET S, NEW H, H = [x \in s |-> F[x]],
           NEW iu, SumsAll(iu, H, s)
    PROVE  \A t \in SUBSET s : iu[t] = it[t]
<1>0. IsFiniteSet(s)
  BY FS_Subset
<1> DEFINE G == {n \in Nat : \A t \in UpTo(n, s) : iu[t] = it[t]}
<1>1. iu[{}] = 0 /\ it[{}] = 0
  <2>1. {} \in SUBSET S /\ {} \in SUBSET s
    OBVIOUS
  <2> QED BY <2>1 DEF SumsUp, SumsAll
<1>2. 0 \in G
  <2>1. \A t \in UpTo(0, s) : t = {}
    BY <1>0, EmptySum
  <2> QED BY <1>1, <2>1
<1>3. ASSUME NEW n \in G
      PROVE  n + 1 \in G
  <2> SUFFICES ASSUME NEW t \in UpTo(n + 1, s) PROVE iu[t] = it[t]
    OBVIOUS
  <2>1. CASE t = {}
    BY <1>1, <2>1
  <2>2. CASE t # {}
    <3>1. t \in SUBSET s /\ t \in SUBSET S /\ Cardinality(t) <= n + 1
      BY DEF UpTo
    <3>2. /\ Pick(t) \in s /\ t \ {Pick(t)} \in SUBSET s /\ Cardinality(t) \in Nat
          /\ Cardinality(t \ {Pick(t)}) = Cardinality(t) - 1
      BY <1>0, <2>2, <3>1, Smaller
    <3>3. Cardinality(t \ {Pick(t)}) <= n
      BY <3>1, <3>2
    <3>4. t \ {Pick(t)} \in UpTo(n, s)
      BY <3>2, <3>3 DEF UpTo
    <3>5. iu[t \ {Pick(t)}] = it[t \ {Pick(t)}]
      BY <3>4
    <3>6. it[t] = F[Pick(t)] + it[t \ {Pick(t)}]
      BY <2>2, <3>1 DEF SumsUp, SumsAll
    <3>7. iu[t] = H[Pick(t)] + iu[t \ {Pick(t)}]
      BY <2>2, <3>1 DEF SumsUp, SumsAll
    <3> QED BY <3>2, <3>5, <3>6, <3>7
  <2> QED BY <2>1, <2>2
<1>4. G = Nat
  <2> HIDE DEF G
  <2>1. G \in SUBSET Nat
    BY DEF G
  <2> QED BY <1>2, <1>3, <2>1, AllNumbers
<1> SUFFICES ASSUME NEW t \in SUBSET s PROVE iu[t] = it[t]
  OBVIOUS
<1>5. t \in UpTo(Cardinality(t), s) /\ Cardinality(t) \in Nat
  BY <1>0, FS_Subset, FS_CardinalityType DEF UpTo
<1> QED BY <1>4, <1>5

LEMMA SumIs ==
    ASSUME NEW S, IsFiniteSet(S), NEW F \in [S -> Nat], NEW it, SumsAll(it, F, S)
    PROVE  SumFunction(F) = it[S]
<1>1. PICK iu : SumsAll(iu, F, S) /\ SumFunction(F) = iu[S]
  BY SumIsFound
<1>2. S \in SUBSET S /\ F = [y \in S |-> F[y]]
  OBVIOUS
<1>3. \A t \in SUBSET S : iu[t] = it[t]
  BY <1>1, <1>2, SumsAgree
<1> QED BY <1>1, <1>3

\* What is summed first makes no difference.
LEMMA AnyFirst ==
    ASSUME NEW S, IsFiniteSet(S), NEW F \in [S -> Nat],
           NEW it, \A s \in SUBSET S : it[s] \in Nat, SumsAll(it, F, S),
           NEW t \in SUBSET S, NEW z \in t
    PROVE  it[t] = F[z] + it[t \ {z}]
<1> DEFINE G == {n \in Nat : \A s \in UpTo(n, S) : \A x \in s : it[s] = F[x] + it[s \ {x}]}
<1>1. 0 \in G
  BY EmptySum
<1>2. ASSUME NEW n \in G
      PROVE  n + 1 \in G
  <2> SUFFICES ASSUME NEW s \in UpTo(n + 1, S), NEW x \in s
               PROVE  it[s] = F[x] + it[s \ {x}]
    OBVIOUS
  <2> DEFINE y == Pick(s)
  <2>1. s \in SUBSET S /\ Cardinality(s) <= n + 1 /\ s # {} /\ IsFiniteSet(s) /\ x \in S
    BY FS_Subset DEF UpTo
  <2>2. /\ y \in s /\ y \in S /\ s \ {y} \in SUBSET S /\ Cardinality(s) \in Nat
        /\ Cardinality(s \ {y}) = Cardinality(s) - 1
    BY <2>1, Smaller
  <2>3. it[s] = F[y] + it[s \ {y}]
    BY <2>1 DEF SumsUp, SumsAll
  <2> HIDE DEF y
  <2>4. CASE x = y
    BY <2>3, <2>4
  <2>5. CASE x # y
    <3>1. Cardinality(s \ {x}) = Cardinality(s) - 1
      BY <2>1, FS_RemoveElement
    <3>2. s \ {x} \in UpTo(n, S) /\ s \ {y} \in UpTo(n, S)
      BY <2>1, <2>2, <3>1 DEF UpTo
    <3>3. it[s \ {y}] = F[x] + it[(s \ {y}) \ {x}]
      BY <2>5, <3>2
    <3>4. it[s \ {x}] = F[y] + it[(s \ {x}) \ {y}]
      BY <2>2, <2>5, <3>2
    <3>5. (s \ {y}) \ {x} = (s \ {x}) \ {y} /\ (s \ {x}) \ {y} \in SUBSET S
      BY <2>1
    <3> DEFINE rest == it[(s \ {x}) \ {y}]
    <3>6. rest \in Nat /\ F[x] \in Nat /\ F[y] \in Nat
      BY <2>1, <2>2, <3>5
    <3>7. it[s] = F[y] + (F[x] + rest) /\ it[s \ {x}] = F[y] + rest
      BY <2>3, <3>3, <3>4, <3>5
    <3> HIDE DEF rest
    <3> QED BY <3>6, <3>7
  <2> QED BY <2>4, <2>5
<1>3. G = Nat
  <2> HIDE DEF G
  <2>1. G \in SUBSET Nat
    BY DEF G
  <2> QED BY <1>1, <1>2, <2>1, AllNumbers
<1>4. t \in UpTo(Cardinality(t), S) /\ Cardinality(t) \in Nat
  BY FS_Subset, FS_CardinalityType DEF UpTo
<1> QED BY <1>3, <1>4

\* Any value can be taken out of a sum.
LEMMA TakeOut ==
    ASSUME NEW S, IsFiniteSet(S), NEW F \in [S -> Nat], NEW x \in S
    PROVE  SumFunction(F) = F[x] + SumFunction([y \in S \ {x} |-> F[y]])
<1> DEFINE T == S \ {x}
           H == [y \in T |-> F[y]]
<1>1. PICK it \in [SUBSET S -> Nat] : SumsAll(it, F, S)
  BY SumExists DEF SumsAll
<1>2. it[S] = F[x] + it[T]
  <2> HIDE DEF H
  <2>1. S \in SUBSET S /\ \A s \in SUBSET S : it[s] \in Nat
    BY <1>1
  <2>2. it[S] = F[x] + it[S \ {x}]
    BY <1>1, <2>1, AnyFirst
  <2> QED BY <2>2
<1>3. SumFunction(F) = it[S]
  BY <1>1, SumIs
<1>4. SumFunction(H) = it[T]
  <2>1. IsFiniteSet(T) /\ H \in [T -> Nat] /\ T \in SUBSET S
    BY FS_RemoveElement
  <2> HIDE DEF T
  <2>2. H = [y \in T |-> F[y]]
    OBVIOUS
  <2> HIDE DEF H
  <2>3. PICK iu : SumsAll(iu, H, T) /\ SumFunction(H) = iu[T]
    BY <2>1, SumIsFound
  <2>4. \A t \in SUBSET T : iu[t] = it[t]
    BY <1>1, <2>1, <2>2, <2>3, SumsAgree
  <2> QED BY <2>3, <2>4
<1> QED BY <1>2, <1>3, <1>4

\* A sum does not leave a set that adding a value does not leave.
LEMMA SumStays ==
    ASSUME NEW S, IsFiniteSet(S), NEW F \in [S -> Nat],
           NEW T \in SUBSET Nat, 0 \in T, \A x \in S : \A n \in T : F[x] + n \in T
    PROVE  SumFunction(F) \in T
<1>1. PICK it \in [SUBSET S -> Nat] : SumsAll(it, F, S)
  BY SumExists DEF SumsAll
<1>2. \A t \in SUBSET S : \A z \in t : it[t] = F[z] + it[t \ {z}]
  <2>1. \A t \in SUBSET S : it[t] \in Nat
    OBVIOUS
  <2>2. ASSUME NEW t \in SUBSET S, NEW z \in t
        PROVE  it[t] = F[z] + it[t \ {z}]
    BY <1>1, <2>1, AnyFirst
  <2> QED BY <2>2
<1> DEFINE C == {s \in SUBSET S : it[s] \in T}
<1>3. {} \in C
  <2>1. {} \in SUBSET S
    OBVIOUS
  <2>2. it[{}] = 0
    BY <1>1, <2>1 DEF SumsAll, SumsUp
  <2> QED BY <2>1, <2>2
<1>4. ASSUME NEW s \in SUBSET S, NEW x \in S \ s, s \in C
      PROVE  s \cup {x} \in C
  <2> DEFINE t == s \cup {x}
  <2>1. t \in SUBSET S /\ x \in t /\ t \ {x} = s
    OBVIOUS
  <2>2. it[s] \in T
    BY <1>4
  <2> HIDE DEF t, C
  <2>3. it[t] = F[x] + it[s]
    BY <1>2, <2>1
  <2>4. F[x] + it[s] \in T
    BY <2>2
  <2> QED BY <2>1, <2>3, <2>4 DEF t, C
<1>5. S \in C
  <2> HIDE DEF C
  <2> QED BY <1>3, <1>4, BuiltUp
<1> QED BY <1>1, <1>5, SumIs

\* The sum of natural numbers over a finite set is one; of zeros it is zero.
LEMMA SumTyped ==
    ASSUME NEW S, IsFiniteSet(S), NEW F \in [S -> Nat]
    PROVE  SumFunction(F) \in Nat
<1>1. 0 \in Nat /\ \A x \in S : \A n \in Nat : F[x] + n \in Nat
  OBVIOUS
<1> QED BY <1>1, SumStays

LEMMA SumOfZeros ==
    ASSUME NEW S, IsFiniteSet(S), NEW F \in [S -> Nat], \A x \in S : F[x] = 0
    PROVE  SumFunction(F) = 0
<1> DEFINE T == {0}
<1>1. T \in SUBSET Nat /\ 0 \in T /\ \A x \in S : \A n \in T : F[x] + n \in T
  OBVIOUS
<1>2. SumFunction(F) \in T
  <2> HIDE DEF T
  <2> QED BY <1>1, SumStays
<1> QED BY <1>2

\* A finite family of numbers, and what is left of it.
Numbers(F, S) == IsFiniteSet(S) /\ F \in [S -> Nat]
RestOf(F, S, x) == [y \in S \ {x} |-> F[y]]

LEMMA TakeOutOf ==
    ASSUME NEW S, NEW F, Numbers(F, S), NEW x \in S
    PROVE  SumFunction(F) = F[x] + SumFunction(RestOf(F, S, x))
BY TakeOut DEF Numbers, RestOf

\* Two sums that differ in one value differ as it does.
Agree(F, H, T) == \A y \in T : F[y] = H[y]

LEMMA DifferByOne ==
    ASSUME NEW T, NEW r, r \notin T, NEW s, s \notin T,
           NEW F, Numbers(F, T \cup {r}), NEW H, Numbers(H, T \cup {s}), Agree(F, H, T)
    PROVE  \E n \in Nat : SumFunction(F) = F[r] + n /\ SumFunction(H) = H[s] + n
<1> DEFINE K == [y \in T |-> F[y]]
<1>1. RestOf(F, T \cup {r}, r) = K /\ RestOf(H, T \cup {s}, s) = K
  BY DEF RestOf, Agree
<1>2. Numbers(K, T)
  <2>1. IsFiniteSet(T)
    BY FS_Subset DEF Numbers
  <2> QED BY <2>1 DEF Numbers
<1> HIDE DEF K
<1>3. SumFunction(F) = F[r] + SumFunction(K)
  BY <1>1, TakeOutOf
<1>4. SumFunction(H) = H[s] + SumFunction(K)
  BY <1>1, TakeOutOf
<1>5. SumFunction(K) \in Nat
  BY <1>2, SumTyped DEF Numbers
<1> QED BY <1>3, <1>4, <1>5

LEMMA SwapOne ==
    ASSUME NEW T, NEW r, r \notin T, NEW s, s \notin T,
           NEW F, Numbers(F, T \cup {r}), NEW H, Numbers(H, T \cup {s}), Agree(F, H, T),
           H[s] = F[r]
    PROVE  SumFunction(H) = SumFunction(F)
BY DifferByOne

\* A sum does not depend on how its values are numbered.
LEMMA ShiftedSum ==
    ASSUME NEW n \in Nat, NEW F \in [2..n + 1 -> Nat]
    PROVE  SumFunction([i \in 1..n |-> F[i + 1]]) = SumFunction(F)
<1> DEFINE S == 1..n
           Up(s) == {i + 1 : i \in s}
           Low(s) == [i \in s |-> F[i + 1]]
           High(s) == [j \in Up(s) |-> F[j]]
           C == {s \in SUBSET S : SumFunction(Low(s)) = SumFunction(High(s))}
<1>1. IsFiniteSet(S)
  BY FS_Interval
<1>2. ASSUME NEW s \in SUBSET S
      PROVE  /\ IsFiniteSet(s) /\ IsFiniteSet(Up(s)) /\ Up(s) \subseteq 2..n + 1
             /\ Low(s) \in [s -> Nat] /\ High(s) \in [Up(s) -> Nat]
  <2>1. IsFiniteSet(s)
    BY <1>1, FS_Subset
  <2>2. Up(s) \subseteq 2..n + 1
    OBVIOUS
  <2>3. IsFiniteSet(Up(s))
    <3>1. IsFiniteSet(2..n + 1)
      BY FS_Interval
    <3> QED BY <2>2, <3>1, FS_Subset
  <2>4. Low(s) \in [s -> Nat] /\ High(s) \in [Up(s) -> Nat]
    BY <2>2
  <2> QED BY <2>1, <2>2, <2>3, <2>4
<1>3. {} \in C
  <2>1. Up({}) = {} /\ Low({}) = High({})
    OBVIOUS
  <2> QED BY <2>1
<1>4. ASSUME NEW s \in SUBSET S, NEW x \in S \ s, s \in C
      PROVE  s \cup {x} \in C
  <2> DEFINE t == s \cup {x}
  <2>1. t \in SUBSET S /\ t \ {x} = s /\ x + 1 \in Up(t) /\ Up(t) \ {x + 1} = Up(s)
    OBVIOUS
  <2>2. SumFunction(Low(t)) = Low(t)[x] + SumFunction([y \in t \ {x} |-> Low(t)[y]])
    <3>1. x \in t
      OBVIOUS
    <3>2. Numbers(Low(t), t)
      BY <1>2, <2>1 DEF Numbers
    <3> HIDE DEF t, S, C, Low, High, Up
    <3>3. SumFunction(Low(t)) = Low(t)[x] + SumFunction(RestOf(Low(t), t, x))
      BY <3>1, <3>2, TakeOutOf
    <3> QED BY <3>3 DEF RestOf
  <2>3. SumFunction(High(t))
            = High(t)[x + 1] + SumFunction([y \in Up(t) \ {x + 1} |-> High(t)[y]])
    <3>1. x + 1 \in Up(t)
      BY <2>1
    <3>2. Numbers(High(t), Up(t))
      BY <1>2, <2>1 DEF Numbers
    <3> HIDE DEF t, S, C, Low, High, Up
    <3>3. SumFunction(High(t))
              = High(t)[x + 1] + SumFunction(RestOf(High(t), Up(t), x + 1))
      BY <3>1, <3>2, TakeOutOf
    <3> QED BY <3>3 DEF RestOf
  <2>4. Low(t)[x] = F[x + 1] /\ High(t)[x + 1] = F[x + 1]
    BY <2>1
  <2>5. [y \in t \ {x} |-> Low(t)[y]] = Low(s)
    BY <2>1
  <2>6. [y \in Up(t) \ {x + 1} |-> High(t)[y]] = High(s)
    BY <2>1
  <2>7. SumFunction(Low(s)) = SumFunction(High(s))
    BY <1>4
  <2> HIDE DEF Low, High, Up
  <2>8. SumFunction(Low(t)) = SumFunction(High(t))
    BY <2>2, <2>3, <2>4, <2>5, <2>6, <2>7
  <2> QED BY <2>1, <2>8
<1>5. S \in C
  <2> HIDE DEF C
  <2>1. \A s \in SUBSET S : \A x \in S \ s : s \in C => s \cup {x} \in C
    BY <1>4
  <2> HIDE DEF S
  <2> QED BY <1>1, <1>3, <2>1, BuiltUp
<1>6. Low(S) = [i \in 1..n |-> F[i + 1]] /\ High(S) = F
  <2>1. Up(S) = 2..n + 1
    <3>1. \A j \in 2..n + 1 : j - 1 \in S /\ j = (j - 1) + 1
      OBVIOUS
    <3> QED BY <3>1, SMTT(30)
  <2> QED BY <2>1
<1> QED BY <1>5, <1>6

\* What is left of a sequence's sum without its first element.
LEMMA SumOfTail ==
    ASSUME NEW D, NEW s \in Seq(D), s # <<>>, NEW p, \A x \in D : p[x] \in Nat
    PROVE  SumFunction([i \in DOMAIN s |-> p[s[i]]])
               = p[s[1]] + SumFunction([i \in DOMAIN Tail(s) |-> p[Tail(s)[i]]])
<1> PICK n \in Nat : Len(s) = n + 1
  <2>1. Len(s) \in Nat /\ Len(s) # 0
    OBVIOUS
  <2>2. Len(s) - 1 \in Nat /\ Len(s) = (Len(s) - 1) + 1
    BY <2>1
  <2> QED BY <2>2
<1> DEFINE F == [i \in 1..n + 1 |-> p[s[i]]]
           H == [i \in 2..n + 1 |-> F[i]]
<1>1. DOMAIN s = 1..n + 1 /\ \A i \in 1..n + 1 : s[i] \in D
  OBVIOUS
<1>2. F \in [1..n + 1 -> Nat] /\ H \in [2..n + 1 -> Nat]
  BY <1>1
<1>3. /\ DOMAIN Tail(s) = 1..n
      /\ \A i \in 1..n : Tail(s)[i] = s[i + 1]
  OBVIOUS
<1>4. [i \in DOMAIN Tail(s) |-> p[Tail(s)[i]]] = [i \in 1..n |-> H[i + 1]]
  BY <1>3
<1>5. SumFunction([i \in 1..n |-> H[i + 1]]) = SumFunction(H)
  <2> HIDE DEF H
  <2> QED BY <1>2, ShiftedSum
<1>6. SumFunction(F) = F[1] + SumFunction(H)
  <2> DEFINE all == 1..n + 1
  <2>1. all \ {1} = 2..n + 1 /\ 1 \in all
    OBVIOUS
  <2>2. IsFiniteSet(all)
    <3>1. n + 1 \in Int /\ 1 \in Int
      OBVIOUS
    <3> QED BY <3>1, FS_Interval
  <2>3. Numbers(F, all)
    BY <1>2, <2>2 DEF Numbers
  <2>4. RestOf(F, all, 1) = H
    BY <2>1 DEF RestOf
  <2> HIDE DEF F, H, all
  <2>5. SumFunction(F) = F[1] + SumFunction(RestOf(F, all, 1))
    BY <2>1, <2>3, TakeOutOf
  <2> QED BY <2>4, <2>5
<1>7. [i \in DOMAIN s |-> p[s[i]]] = F /\ F[1] = p[s[1]]
  BY <1>1
<1> HIDE DEF F, H
<1> QED BY <1>4, <1>5, <1>6, <1>7

-----------------------------------------------------------------------------
(* What the scoring functions agree on.                                     *)

\* scoring.go: a record that is not scoreable reaches the score only through
\* the count of disputed records, whatever the model and the exponential.
LEMMA OnlyScoreable ==
    ASSUME NEW all, NEW day, NEW m
    PROVE  [Compute(all, day, m) EXCEPT !.disputed = 0]
               = Compute({r \in all : Scoreable(r)}, day, m)
<1> DEFINE counted == {r \in all : Scoreable(r)}
<1>1. {r \in counted : Scoreable(r)} = counted
  OBVIOUS
<1>2. Cardinality(counted \ counted) = 0
  <2>1. counted \ counted = {}
    OBVIOUS
  <2> QED BY <2>1, FS_EmptySet
<1> HIDE DEF counted
<1> DEFINE left == Cardinality(all \ counted)
<1>3. [Opening(left, m) EXCEPT !.disputed = 0] = Opening(0, m)
  <2> DEFINE no   == FALSE
             next == nextTierAbove(m.newGuestScore, m)
             gap  == tierFloor(next, m) - m.newGuestScore
             dep  == tierFor(m.newGuestScore, m).deposit
             O(n) == [rated |-> no, composite |-> m.newGuestScore, tier |-> "New",
                      deposit |-> dep, flagged |-> no, next |-> next, gap |-> gap,
                      confidence |-> "none", handling |-> "insufficient_data",
                      stays |-> 0, disputed |-> n]
  <2>1. Opening(left, m) = O(left) /\ Opening(0, m) = O(0)
    BY DEF Opening
  <2> HIDE DEF no, next, gap, dep
  <2>2. [O(left) EXCEPT !.disputed = 0] = O(0)
    OBVIOUS
  <2> QED BY <2>1, <2>2
<1>4. [Earned(counted, left, day, m) EXCEPT !.disputed = 0] = Earned(counted, 0, day, m)
  <2> DEFINE yes  == TRUE
             comp == Composite(counted, day, m)
             tier == tierFor(comp, m)
             next == nextTierAbove(comp, m)
             conf == confidenceFor(Weight(counted, day, m))
             gap  == IF next = "" THEN 0 ELSE tierFloor(next, m) - comp
             hand == handlingFor(comp, conf, counted, day, m)
             E(n) == [rated |-> yes, composite |-> comp, tier |-> tier.name,
                      deposit |-> tier.deposit, flagged |-> tier.flagged,
                      next |-> next, gap |-> gap, confidence |-> conf,
                      handling |-> hand, stays |-> Cardinality(counted), disputed |-> n]
  <2>1. Earned(counted, left, day, m) = E(left) /\ Earned(counted, 0, day, m) = E(0)
    BY DEF Earned
  <2> HIDE DEF yes, comp, tier, next, conf, gap, hand
  <2>2. [E(left) EXCEPT !.disputed = 0] = E(0)
    OBVIOUS
  <2> QED BY <2>1, <2>2
<1>5. Compute(all, day, m) = IF counted = {} THEN Opening(left, m)
                             ELSE Earned(counted, left, day, m)
  BY DEF Compute, counted
<1>6. Compute(counted, day, m) = IF counted = {} THEN Opening(0, m)
                                 ELSE Earned(counted, 0, day, m)
  BY <1>1, <1>2 DEF Compute
<1>7. [Compute(all, day, m) EXCEPT !.disputed = 0] = Compute(counted, day, m)
  BY <1>3, <1>4, <1>5, <1>6
<1> QED BY <1>7 DEF counted

-----------------------------------------------------------------------------
(* Tier, flag, handling and the gap to the next tier.                       *)

LEMMA FourTiers ==
    /\ DOMAIN DefaultTiers = 1..4 /\ Len(DefaultTiers) = 4
    /\ DefaultTiers[1].min = 8000 /\ DefaultTiers[2].min = 7000
    /\ DefaultTiers[3].min = 5000 /\ DefaultTiers[4].min = 0
    /\ DefaultTiers[1].name = "Excellent" /\ DefaultTiers[2].name = "Good"
    /\ DefaultTiers[3].name = "Fair" /\ DefaultTiers[4].name = "Poor"
    /\ \A i \in 1..4 : DefaultTiers[i].flagged <=> i = 4
<1> DEFINE no == FALSE
           yes == TRUE
<1>1. DefaultTiers =
          <<[min |-> 8000, name |-> "Excellent", deposit |-> 25,  flagged |-> no],
            [min |-> 7000, name |-> "Good",      deposit |-> 50,  flagged |-> no],
            [min |-> 5000, name |-> "Fair",      deposit |-> 100, flagged |-> no],
            [min |-> 0,    name |-> "Poor",      deposit |-> 200, flagged |-> yes]>>
  BY DEF DefaultTiers
<1>2. ~no /\ yes
  OBVIOUS
<1> HIDE DEF no, yes
<1>3. /\ DefaultTiers[1].flagged = no /\ DefaultTiers[2].flagged = no
      /\ DefaultTiers[3].flagged = no /\ DefaultTiers[4].flagged = yes
  BY <1>1
<1> QED BY <1>1, <1>2, <1>3

LEMMA LowestIn ==
    ASSUME NEW S \in SUBSET Int, NEW x \in S, \A y \in S : x <= y
    PROVE  Min(S) = x
<1>1. \A z \in S : (\A y \in S : z <= y) => z = x
  OBVIOUS
<1> QED BY <1>1 DEF Min

LEMMA HighestIn ==
    ASSUME NEW S \in SUBSET Int, NEW x \in S, \A y \in S : y <= x
    PROVE  Max(S) = x
<1>1. \A z \in S : (\A y \in S : y <= z) => z = x
  OBVIOUS
<1> QED BY <1>1 DEF Max

LEMMA LowerOf ==
    ASSUME NEW a \in Int, NEW b \in Int
    PROVE  Min({a, b}) = IF a <= b THEN a ELSE b
<1>1. CASE a <= b
  BY <1>1, LowestIn
<1>2. CASE ~(a <= b)
  <2>1. {a, b} \in SUBSET Int /\ b \in {a, b} /\ \A y \in {a, b} : b <= y
    BY <1>2
  <2>2. Min({a, b}) = b
    BY <2>1, LowestIn
  <2> QED BY <1>2, <2>2
<1> QED BY <1>1, <1>2

LEMMA HigherOf ==
    ASSUME NEW a \in Int, NEW b \in Int
    PROVE  Max({a, b}) = IF b <= a THEN a ELSE b
<1>1. CASE b <= a
  BY <1>1, HighestIn
<1>2. CASE ~(b <= a)
  <2>1. {a, b} \in SUBSET Int /\ b \in {a, b} /\ \A y \in {a, b} : y <= b
    BY <1>2
  <2>2. Max({a, b}) = b
    BY <2>1, HighestIn
  <2> QED BY <1>2, <2>2
<1> QED BY <1>1, <1>2

\* The tier a score falls into, and the one above it.
TierOf(s) == IF s >= 8000 THEN 1 ELSE IF s >= 7000 THEN 2 ELSE IF s >= 5000 THEN 3 ELSE 4
NameOf(i) == DefaultTiers[i].name

LEMMA TierForScore ==
    ASSUME NEW s \in Nat
    PROVE  tierFor(s, DefaultModel) = DefaultTiers[TierOf(s)]
<1> DEFINE reached == {i \in 1..4 : s >= DefaultTiers[i].min}
<1>1. TierOf(s) \in reached /\ \A j \in reached : TierOf(s) <= j
  BY FourTiers DEF TierOf
<1>2. reached \in SUBSET Int /\ reached # {}
  BY <1>1
<1>3. tierFor(s, DefaultModel) = DefaultTiers[IF reached = {} THEN 4 ELSE Min(reached)]
  BY FourTiers DEF tierFor, DefaultModel
<1> HIDE DEF reached
<1>4. Min(reached) = TierOf(s)
  BY <1>1, <1>2, LowestIn
<1> QED BY <1>2, <1>3, <1>4

LEMMA NextTier ==
    ASSUME NEW s \in Nat
    PROVE  nextTierAbove(s, DefaultModel) =
               IF TierOf(s) = 1 THEN "" ELSE NameOf(TierOf(s) - 1)
<1> DEFINE above == {i \in 1..4 : DefaultTiers[i].min > s}
<1>1. nextTierAbove(s, DefaultModel) = IF above = {} THEN "" ELSE NameOf(Max(above))
  BY FourTiers DEF nextTierAbove, NameOf, DefaultModel
<1>2. TierOf(s) = 1 => above = {}
  BY FourTiers DEF TierOf
<1>3. ASSUME TierOf(s) # 1
      PROVE  above # {} /\ Max(above) = TierOf(s) - 1
  <2>1. TierOf(s) - 1 \in above /\ \A j \in above : j <= TierOf(s) - 1
    BY <1>3, FourTiers DEF TierOf
  <2>2. above \in SUBSET Int
    OBVIOUS
  <2> HIDE DEF above
  <2> QED BY <2>1, <2>2, HighestIn
<1> QED BY <1>1, <1>2, <1>3

LEMMA FloorOf ==
    ASSUME NEW i \in 1..4
    PROVE  tierFloor(NameOf(i), DefaultModel) = DefaultTiers[i].min
<1> DEFINE named == {j \in 1..4 : DefaultTiers[j].name = NameOf(i)}
<1>1. named = {i}
  BY FourTiers DEF NameOf
<1>2. tierFloor(NameOf(i), DefaultModel)
          = IF named = {} THEN 0 ELSE DefaultTiers[Min(named)].min
  BY FourTiers DEF tierFloor, DefaultModel
<1> HIDE DEF named
<1>3. Min(named) = i
  BY <1>1, LowestIn
<1> QED BY <1>1, <1>2, <1>3
-----------------------------------------------------------------------------
(* The range of a score.                                                    *)

\* The scale, in tenths of a point.
Points == 0..10000

HalfLives == {180, 270, 365, 693}

\* 2^(-x) lies between zero and one, however large x is.
HalvingIsFraction ==
    \A life \in HalfLives : \A age \in Nat : Halving(age, life) \in 0..1000

LEMMA HalvingTyped ==
    ASSUME HalvingIsFraction, NEW age \in Nat, NEW life \in HalfLives
    PROVE  Halving(age, life) \in 0..1000
BY SMTT(30) DEF HalvingIsFraction

LEMMA DecayTyped ==
    ASSUME HalvingIsFraction, NEW age \in Int, NEW life \in HalfLives
    PROVE  decay(age, life) \in 0..1000
<1>1. CASE age <= 0
  BY <1>1 DEF decay
<1>2. CASE ~(age <= 0)
  <2>1. age \in Nat
    BY <1>2
  <2>2. decay(age, life) = Halving(age, life)
    BY <1>2 DEF decay
  <2> QED BY <2>1, <2>2, HalvingTyped, SMTT(30)
<1> QED BY <1>1, <1>2

LEMMA ClampTyped ==
    ASSUME NEW v \in Int
    PROVE  clamp(v, 0, 10000) \in Points
<1>3. Min({10000, v}) = IF 10000 <= v THEN 10000 ELSE v
  BY LowerOf
<1> DEFINE w == Min({10000, v})
<1>4. w \in Int /\ w <= 10000
  BY <1>3
<1>5. clamp(v, 0, 10000) = Max({0, w})
  BY DEF clamp
<1> HIDE DEF w
<1>6. Max({0, w}) = IF w <= 0 THEN 0 ELSE w
  BY <1>4, HigherOf
<1>7. ASSUME NEW z, z = IF w <= 0 THEN 0 ELSE w
      PROVE  z \in Points
  BY <1>4, <1>7 DEF Points
<1> QED BY <1>5, <1>6, <1>7

\* Saturation keeps any total on the scale.
LEMMA SaturateTyped ==
    ASSUME HalvingIsFraction, NEW v \in Int
    PROVE  saturate(v, DefaultModel) \in Points
<1>1. ASSUME NEW x \in Nat
      PROVE  (1000 * Fraction(x, 1000)) \div 1000 \in 0..1000
  <2>1. Fraction(x, 1000) = Halving(x, 693)
    <3>1. (1000 * 693) \div 1000 = 693
      OBVIOUS
    <3> QED BY <3>1 DEF Fraction
  <2>2. 693 \in HalfLives
    BY DEF HalfLives
  <2>3. \A life \in HalfLives : Halving(x, life) \in 0..1000
    BY SMTT(30) DEF HalvingIsFraction
  <2>4. Halving(x, 693) \in 0..1000
    BY <2>2, <2>3
  <2> QED BY <2>1, <2>4
<1> DEFINE high == (1000 * Fraction(v - 9000, 1000)) \div 1000
           low  == (1000 * Fraction(1000 - v, 1000)) \div 1000
<1>2. saturate(v, DefaultModel) =
          IF v > 9000 THEN 10000 - high ELSE IF v < 1000 THEN 0 + low
          ELSE clamp(v, 0, 10000)
  BY DEF saturate, DefaultModel
<1>3. v > 9000 => high \in 0..1000
  <2>1. v > 9000 => v - 9000 \in Nat
    OBVIOUS
  <2> QED BY <1>1, <2>1, SMTT(30)
<1>4. v < 1000 => low \in 0..1000
  <2>1. v < 1000 => 1000 - v \in Nat
    OBVIOUS
  <2> QED BY <1>1, <2>1, SMTT(30)
<1> HIDE DEF high, low
<1>5. clamp(v, 0, 10000) \in Points
  BY ClampTyped
<1>6. \A n \in 0..1000 : 10000 - n \in Points /\ 0 + n \in Points
  BY DEF Points
<1>7. CASE v > 9000
  <2>1. saturate(v, DefaultModel) = 10000 - high
    BY <1>2, <1>7
  <2>2. high \in 0..1000
    BY <1>3, <1>7
  <2> QED BY <1>6, <2>1, <2>2
<1>8. CASE ~(v > 9000)
  <2>1. saturate(v, DefaultModel) = IF v < 1000 THEN 0 + low ELSE clamp(v, 0, 10000)
    BY <1>2, <1>8
  <2> QED BY <1>4, <1>5, <1>6, <2>1
<1> QED BY <1>7, <1>8

\* A set of natural numbers has a least one.
LEMMA HasLeast ==
    ASSUME NEW S \in SUBSET Nat, S # {}
    PROVE  Min(S) \in S /\ \A y \in S : Min(S) <= y
<1>1. PICK x \in S : \A y \in S : ~ (<<y, x>> \in OpToRel(<, Nat))
  BY NatLessThanWellFounded, WFMin
<1>2. \A y \in S : x <= y
  <2> TAKE y \in S
  <2>1. ~ (y < x)
    BY <1>1 DEF OpToRel
  <2> QED BY <2>1
<1> QED BY <1>2 DEF Min

\* A finite set of numbers has a greatest one.
LEMMA HasGreatest ==
    ASSUME NEW S \in SUBSET Int, IsFiniteSet(S), S # {}
    PROVE  \E x \in S : \A y \in S : y <= x
<1> DEFINE C == {s \in SUBSET S : s # {} => \E x \in s : \A y \in s : y <= x}
<1>1. {} \in C
  OBVIOUS
<1>2. ASSUME NEW s \in SUBSET S, NEW z \in S \ s, s \in C
      PROVE  s \cup {z} \in C
  <2>1. z \in Int /\ \A y \in s : y \in Int
    OBVIOUS
  <2>2. \E x \in s \cup {z} : \A y \in s \cup {z} : y <= x
    <3>1. CASE s = {}
      BY <2>1, <3>1
    <3>2. CASE s # {}
      <4>1. PICK x \in s : \A y \in s : y <= x
        BY <1>2, <3>2
      <4>2. CASE z <= x
        BY <4>1, <4>2
      <4>3. CASE ~(z <= x)
        <5>1. \A y \in s : y <= z
          BY <2>1, <4>1, <4>3
        <5> QED BY <2>1, <5>1
      <4> QED BY <4>2, <4>3
    <3> QED BY <3>1, <3>2
  <2>3. s \cup {z} \in SUBSET S
    OBVIOUS
  <2> QED BY <2>2, <2>3
<1>3. S \in C
  <2> HIDE DEF C
  <2> QED BY <1>1, <1>2, BuiltUp
<1> QED BY <1>3

\* Reviews that a score is computed from.
Countable(R, now) ==
    /\ IsFiniteSet(R) /\ R # {} /\ now \in Int
    /\ \A r \in R : /\ r.submittedAt \in Int /\ r.q \in Nat
                    /\ r.incidents \in Seq(Incidents)
                    /\ r.commendations \in Seq(DOMAIN BaseBonus)

LEMMA WeighedTyped ==
    ASSUME HalvingIsFraction, NEW R, NEW now, Countable(R, now), NEW r \in R,
           NEW life \in HalfLives
    PROVE  decay(Age(r, now), life) \in Nat
<1>1. Age(r, now) \in Int
  BY DEF Age, Countable
<1>2. decay(Age(r, now), life) \in 0..1000
  BY <1>1, DecayTyped
<1>3. \A n \in 0..1000 : n \in Nat
  OBVIOUS
<1> QED BY <1>2, <1>3

LEMMA LifeOfModel ==
    /\ DefaultModel.reviewHalfLife \in HalfLives
    /\ DefaultModel.incidentHalfLife \in HalfLives
    /\ DefaultModel.commendationHalfLife \in HalfLives
BY DEF DefaultModel, HalfLives

\* What the reviews weigh, and weigh in with.
RowWeights(R, now) == [r \in R |-> decay(Age(r, now), DefaultModel.reviewHalfLife)]
RowQualities(R, now) == [r \in R |-> r.q * decay(Age(r, now), DefaultModel.reviewHalfLife)]

LEMMA WeightsTyped ==
    ASSUME HalvingIsFraction, NEW R, NEW now, Countable(R, now)
    PROVE  Numbers(RowWeights(R, now), R)
BY WeighedTyped, LifeOfModel DEF Numbers, RowWeights, Countable

LEMMA QualitiesTyped ==
    ASSUME HalvingIsFraction, NEW R, NEW now, Countable(R, now)
    PROVE  Numbers(RowQualities(R, now), R)
<1>1. ASSUME NEW r \in R
      PROVE  r.q * decay(Age(r, now), DefaultModel.reviewHalfLife) \in Nat
  <2>1. r.q \in Nat /\ decay(Age(r, now), DefaultModel.reviewHalfLife) \in Nat
    BY WeighedTyped, LifeOfModel DEF Countable
  <2>2. \A a, b \in Nat : a * b \in Nat
    OBVIOUS
  <2> QED BY <2>1, <2>2
<1> QED BY <1>1 DEF Numbers, RowQualities, Countable

LEMMA WeightTyped ==
    ASSUME HalvingIsFraction, NEW R, NEW now, Countable(R, now)
    PROVE  Weight(R, now, DefaultModel) \in Nat
<1>1. Weight(R, now, DefaultModel) = SumFunction(RowWeights(R, now))
  BY DEF Weight, RowWeights
<1> QED BY <1>1, WeightsTyped, SumTyped DEF Numbers

LEMMA AdjustedTyped ==
    ASSUME HalvingIsFraction, NEW R, NEW now, Countable(R, now)
    PROVE  Adjusted(R, now, DefaultModel) \in Int
<1> DEFINE sum == SumFunction(RowQualities(R, now))
           weight == Weight(R, now, DefaultModel)
<1>1. sum \in Nat
  BY QualitiesTyped, SumTyped DEF Numbers
<1>2. weight \in Nat
  BY WeightTyped
<1>3. Adjusted(R, now, DefaultModel)
          = (10 * (DefaultModel.priorMean * DefaultModel.priorStrength + sum))
                \div (DefaultModel.priorStrength + weight)
  BY DEF Adjusted, RowQualities
<1>4. DefaultModel.priorMean = 390 /\ DefaultModel.priorStrength = 3000
  BY DEF DefaultModel
<1> HIDE DEF sum, weight
<1>5. (10 * (390 * 3000 + sum)) \div (3000 + weight) \in Int
  <2>1. 10 * (390 * 3000 + sum) \in Int /\ 3000 + weight \in Nat \ {0}
    BY <1>1, <1>2
  <2>2. \A a \in Int : \A b \in Nat \ {0} : a \div b \in Int
    OBVIOUS
  <2> QED BY <2>1, <2>2
<1> QED BY <1>3, <1>4, <1>5

LEMMA BaseTyped ==
    ASSUME HalvingIsFraction, NEW R, NEW now, Countable(R, now)
    PROVE  Base(R, now, DefaultModel) \in Int
<1> DEFINE quality == Adjusted(R, now, DefaultModel)
           score   == qualityToScore(quality, DefaultModel)
<1>1. quality \in Int
  BY AdjustedTyped
<1>2. score \in Int
  <2> HIDE DEF quality
  <2>1. score = IF quality >= 3900
                THEN 6000 + ((quality - 3900) * 3180) \div 1000
                ELSE 6000 - ((3900 - quality) * 1720) \div 1000
    BY DEF qualityToScore, DefaultModel
  <2>2. /\ 6000 + ((quality - 3900) * 3180) \div 1000 \in Int
        /\ 6000 - ((3900 - quality) * 1720) \div 1000 \in Int
    BY <1>1
  <2> QED BY <2>1, <2>2
<1>3. Base(R, now, DefaultModel) = clamp(score, 0, 10000)
  BY DEF Base, DefaultModel
<1> HIDE DEF score
<1>4. clamp(score, 0, 10000) \in Points
  BY <1>2, ClampTyped
<1>5. \A n \in Points : n \in Int
  BY DEF Points
<1> QED BY <1>3, <1>4, <1>5

LEMMA TenureTyped ==
    ASSUME NEW R, NEW now, Countable(R, now)
    PROVE  Tenure(R, now, DefaultModel) \in Int
<1> DEFINE ages   == {Age(r, now) : r \in R}
           oldest == Max({0} \cup ages)
<1>1. {0} \cup ages \in SUBSET Int /\ IsFiniteSet({0} \cup ages)
  <2>1. \A r \in R : Age(r, now) \in Int
    BY DEF Countable, Age
  <2>2. IsFiniteSet(ages)
    <3>1. IsFiniteSet(R)
      BY DEF Countable
    <3> DEFINE f == [r \in R |-> Age(r, now)]
    <3>2. f \in Surjection(R, ages)
      BY DEF Surjection
    <3> HIDE DEF f, ages
    <3> QED BY <3>1, <3>2, FS_Surjection
  <2>3. IsFiniteSet({0} \cup ages)
    <3> HIDE DEF ages
    <3>1. ages \cup {0} = {0} \cup ages
      OBVIOUS
    <3> QED BY <2>2, <3>1, FS_AddElement
  <2> QED BY <2>1, <2>3
<1>2. oldest \in Int
  <2> HIDE DEF ages
  <2>1. PICK x \in {0} \cup ages : \A y \in {0} \cup ages : y <= x
    BY <1>1, HasGreatest
  <2>2. Max({0} \cup ages) = x /\ x \in Int
    BY <1>1, <2>1, HighestIn
  <2> QED BY <2>2
<1>3. Tenure(R, now, DefaultModel) = Min({1000, (oldest * 1000) \div 365})
  BY DEF Tenure, DefaultModel
<1> HIDE DEF oldest
<1>4. (oldest * 1000) \div 365 \in Int
  BY <1>2
<1>5. ASSUME NEW a \in Int, NEW b \in Int
      PROVE  Min({a, b}) \in Int
  <2>1. CASE a <= b
    BY <2>1, LowestIn
  <2>2. CASE ~(a <= b)
    <3>1. {a, b} \in SUBSET Int /\ b \in {a, b} /\ \A y \in {a, b} : b <= y
      BY <2>2
    <3> QED BY <3>1, LowestIn
  <2> QED BY <2>1, <2>2
<1> QED BY <1>3, <1>4, <1>5

LEMMA PenaltyOfTyped ==
    ASSUME NEW x \in Incidents, NEW age, decay(age, DefaultModel.incidentHalfLife) \in Nat
    PROVE  PenaltyOf(x, age, DefaultModel) \in Nat
<1> DEFINE d == decay(age, DefaultModel.incidentHalfLife)
<1>1. BasePenalty[x.type] \in Nat
  BY DEF Incidents, BasePenalty
<1>2. Multiplier[x.severity] \in Nat
  BY DEF Incidents, Multiplier
<1>3. PenaltyOf(x, age, DefaultModel)
          = (BasePenalty[x.type] * Multiplier[x.severity] * d) \div 1000
  BY DEF PenaltyOf
<1>4. d \in Nat
  OBVIOUS
<1> HIDE DEF d
<1>5. \A a, b, e \in Nat : a * b * e \in Nat
  OBVIOUS
<1>6. \A n \in Nat : n \div 1000 \in Nat
  OBVIOUS
<1> QED BY <1>1, <1>2, <1>3, <1>4, <1>5, <1>6

LEMMA BonusOfTyped ==
    ASSUME NEW x \in DOMAIN BaseBonus, NEW age,
           decay(age, DefaultModel.commendationHalfLife) \in Nat
    PROVE  BonusOf(x, age, DefaultModel) \in Nat
<1> DEFINE d == decay(age, DefaultModel.commendationHalfLife)
<1>1. BaseBonus[x] \in Nat
  BY DEF BaseBonus
<1>2. BonusOf(x, age, DefaultModel) = (10 * BaseBonus[x] * d) \div 1000
  BY DEF BonusOf
<1>3. d \in Nat
  OBVIOUS
<1> HIDE DEF d
<1>4. \A b, e \in Nat : 10 * b * e \in Nat
  OBVIOUS
<1>5. \A n \in Nat : n \div 1000 \in Nat
  OBVIOUS
<1> QED BY <1>1, <1>2, <1>3, <1>4, <1>5

\* What the incidents, or the commendations, of one review come to.
RowPenalty(r, now) ==
    SumFunction([i \in DOMAIN r.incidents |->
        PenaltyOf(r.incidents[i], Age(r, now), DefaultModel)])

RowBonus(r, now) ==
    SumFunction([i \in DOMAIN r.commendations |->
        BonusOf(r.commendations[i], Age(r, now), DefaultModel)])

RowPenalties(R, now) == [r \in R |-> RowPenalty(r, now)]
RowBonuses(R, now)   == [r \in R |-> RowBonus(r, now)]

LEMMA SumOfRow ==
    ASSUME NEW D, NEW s \in Seq(D), NEW p, \A x \in D : p[x] \in Nat
    PROVE  SumFunction([i \in DOMAIN s |-> p[s[i]]]) \in Nat
<1> DEFINE G == [i \in DOMAIN s |-> p[s[i]]]
<1>1. G \in [DOMAIN s -> Nat]
  OBVIOUS
<1>2. IsFiniteSet(DOMAIN s)
  <2>1. DOMAIN s = 1..Len(s) /\ Len(s) \in Nat
    OBVIOUS
  <2> QED BY <2>1, FS_Interval
<1> HIDE DEF G
<1>3. SumFunction(G) \in Nat
  BY <1>1, <1>2, SumTyped
<1> QED BY <1>3 DEF G

LEMMA RowPenaltyIs ==
    ASSUME HalvingIsFraction, NEW R, NEW now, Countable(R, now), NEW r \in R
    PROVE  LET p == [x \in Incidents |-> PenaltyOf(x, Age(r, now), DefaultModel)] IN
           /\ r.incidents \in Seq(Incidents)
           /\ \A x \in Incidents : p[x] \in Nat
           /\ RowPenalty(r, now) = SumFunction([i \in DOMAIN r.incidents |-> p[r.incidents[i]]])
<1>1. r.incidents \in Seq(Incidents)
  BY DEF Countable
<1>2. \A x \in Incidents : PenaltyOf(x, Age(r, now), DefaultModel) \in Nat
  BY WeighedTyped, LifeOfModel, PenaltyOfTyped
<1>3. \A i \in DOMAIN r.incidents : r.incidents[i] \in Incidents
  BY <1>1
<1> QED BY <1>1, <1>2, <1>3 DEF RowPenalty

LEMMA RowBonusIs ==
    ASSUME HalvingIsFraction, NEW R, NEW now, Countable(R, now), NEW r \in R
    PROVE  LET p == [x \in DOMAIN BaseBonus |-> BonusOf(x, Age(r, now), DefaultModel)] IN
           /\ r.commendations \in Seq(DOMAIN BaseBonus)
           /\ \A x \in DOMAIN BaseBonus : p[x] \in Nat
           /\ RowBonus(r, now)
                  = SumFunction([i \in DOMAIN r.commendations |-> p[r.commendations[i]]])
<1>1. r.commendations \in Seq(DOMAIN BaseBonus)
  BY DEF Countable
<1>2. \A x \in DOMAIN BaseBonus : BonusOf(x, Age(r, now), DefaultModel) \in Nat
  BY WeighedTyped, LifeOfModel, BonusOfTyped
<1>3. \A i \in DOMAIN r.commendations : r.commendations[i] \in DOMAIN BaseBonus
  BY <1>1
<1> QED BY <1>1, <1>2, <1>3 DEF RowBonus

LEMMA RowsTyped ==
    ASSUME HalvingIsFraction, NEW R, NEW now, Countable(R, now), NEW r \in R
    PROVE  RowPenalty(r, now) \in Nat /\ RowBonus(r, now) \in Nat
<1>1. RowPenalty(r, now) \in Nat
  <2> DEFINE p == [x \in Incidents |-> PenaltyOf(x, Age(r, now), DefaultModel)]
  <2>1. /\ r.incidents \in Seq(Incidents)
        /\ \A x \in Incidents : p[x] \in Nat
        /\ RowPenalty(r, now) = SumFunction([i \in DOMAIN r.incidents |-> p[r.incidents[i]]])
    BY RowPenaltyIs
  <2> HIDE DEF p
  <2> QED BY <2>1, SumOfRow
<1>2. RowBonus(r, now) \in Nat
  <2> DEFINE p == [x \in DOMAIN BaseBonus |-> BonusOf(x, Age(r, now), DefaultModel)]
  <2>1. /\ r.commendations \in Seq(DOMAIN BaseBonus)
        /\ \A x \in DOMAIN BaseBonus : p[x] \in Nat
        /\ RowBonus(r, now)
               = SumFunction([i \in DOMAIN r.commendations |-> p[r.commendations[i]]])
    BY RowBonusIs
  <2> HIDE DEF p
  <2> QED BY <2>1, SumOfRow
<1> QED BY <1>1, <1>2

LEMMA PenaltyIsSum ==
    ASSUME HalvingIsFraction, NEW R, NEW now, Countable(R, now)
    PROVE  /\ Numbers(RowPenalties(R, now), R)
           /\ Penalty(R, now, DefaultModel) = SumFunction(RowPenalties(R, now))
BY RowsTyped DEF Countable, Numbers, RowPenalties, Penalty, RowPenalty

LEMMA PenaltyTyped ==
    ASSUME HalvingIsFraction, NEW R, NEW now, Countable(R, now)
    PROVE  Penalty(R, now, DefaultModel) \in Nat
BY PenaltyIsSum, SumTyped DEF Numbers

LEMMA BonusIsSum ==
    ASSUME HalvingIsFraction, NEW R, NEW now, Countable(R, now)
    PROVE  /\ Numbers(RowBonuses(R, now), R)
           /\ Bonus(R, now, DefaultModel) = SumFunction(RowBonuses(R, now))
BY RowsTyped DEF Countable, Numbers, RowBonuses, Bonus, RowBonus

LEMMA BonusTyped ==
    ASSUME HalvingIsFraction, NEW R, NEW now, Countable(R, now)
    PROVE  Bonus(R, now, DefaultModel) \in Nat
BY BonusIsSum, SumTyped DEF Numbers

LEMMA RawTyped ==
    ASSUME HalvingIsFraction, NEW R, NEW now, Countable(R, now)
    PROVE  Raw(R, now, DefaultModel) \in Int
<1>1. /\ Base(R, now, DefaultModel) \in Int /\ Bonus(R, now, DefaultModel) \in Int
      /\ Tenure(R, now, DefaultModel) \in Int
  BY BaseTyped, BonusTyped, TenureTyped
<1> QED BY <1>1 DEF Raw

\* scoring.go:375-384: whatever is on file, the score is on the scale.
LEMMA CompositeTyped ==
    ASSUME HalvingIsFraction, NEW R, NEW now, Countable(R, now)
    PROVE  Composite(R, now, DefaultModel) \in Points
<1> DEFINE raw    == Raw(R, now, DefaultModel)
           lifted == saturate(raw, DefaultModel)
<1>1. raw \in Int
  BY RawTyped
<1>2. lifted \in Points
  <2> HIDE DEF raw
  <2> QED BY <1>1, SaturateTyped
<1>3. Composite(R, now, DefaultModel)
          = saturate(lifted - Penalty(R, now, DefaultModel), DefaultModel)
  BY DEF Composite
<1> HIDE DEF lifted
<1>4. lifted - Penalty(R, now, DefaultModel) \in Int
  <2>1. \A n \in Points : n \in Int
    BY DEF Points
  <2> QED BY <1>2, <2>1, PenaltyTyped
<1> QED BY <1>3, <1>4, SaturateTyped

-----------------------------------------------------------------------------
(* What tier, flag, handling and gap say of one score.                      *)

\* The desk escalates what is below the floor of "Fair", and that is flagged.
LEMMA EscalatedIsFlagged ==
    ASSUME NEW s \in Nat, NEW conf, NEW R, NEW now
    PROVE  /\ tierFor(s, DefaultModel).flagged <=> s < 5000
           /\ handlingFor(s, conf, R, now, DefaultModel) = "escalate" <=> s < 5000
<1>1. tierFor(s, DefaultModel).flagged <=> s < 5000
  <2>1. tierFor(s, DefaultModel) = DefaultTiers[TierOf(s)] /\ TierOf(s) \in 1..4
    BY TierForScore DEF TierOf
  <2>2. DefaultTiers[TierOf(s)].flagged <=> TierOf(s) = 4
    BY <2>1, FourTiers
  <2>3. TierOf(s) = 4 <=> s < 5000
    BY DEF TierOf
  <2> QED BY <2>1, <2>2, <2>3
<1>2. handlingFor(s, conf, R, now, DefaultModel) = "escalate" <=> s < 5000
  <2>1. tierFloor("Fair", DefaultModel) = 5000
    <3>1. tierFloor(NameOf(3), DefaultModel) = DefaultTiers[3].min
      BY FloorOf
    <3> QED BY <3>1, FourTiers DEF NameOf
  <2>2. CASE s < 5000
    BY <2>1, <2>2 DEF handlingFor
  <2>3. CASE ~(s < 5000)
    BY <2>1, <2>3 DEF handlingFor
  <2> QED BY <2>2, <2>3
<1> QED BY <1>1, <1>2

LEMMA VIPHasNoRecentIncident ==
    ASSUME NEW s, NEW conf, NEW R, NEW now, NEW m,
           handlingFor(s, conf, R, now, m) = "vip_treatment"
    PROVE  \A r \in R : Age(r, now) <= 365 => r.incidents = <<>>
<1>1. Recent(R, now, 365) = {}
  BY DEF handlingFor
<1> QED BY <1>1 DEF Recent

\* The gap ends on the floor of the next tier up.
LEMMA GapReachesNext ==
    ASSUME NEW s \in Nat, TierOf(s) # 1
    PROVE  LET next == nextTierAbove(s, DefaultModel)
               gap  == tierFloor(next, DefaultModel) - s
           IN  /\ gap > 0
               /\ tierFor(s + gap, DefaultModel).name = next
               /\ tierFor(s + gap - 1, DefaultModel).name # next
<1> DEFINE next  == nextTierAbove(s, DefaultModel)
           floor == tierFloor(next, DefaultModel)
<1>1. TierOf(s) \in 1..4
  BY DEF TierOf
<1>2. PICK i \in 1..3 : TierOf(s) = i + 1
  BY <1>1
<1>3. next = NameOf(i) /\ floor = DefaultTiers[i].min
  <2>1. TierOf(s) - 1 = i
    BY <1>2
  <2>2. next = NameOf(i)
    BY <1>1, <2>1, NextTier
  <2> HIDE DEF next
  <2>3. tierFloor(NameOf(i), DefaultModel) = DefaultTiers[i].min
    BY FloorOf
  <2> QED BY <2>2, <2>3
<1> HIDE DEF next, floor
<1>4. /\ floor \in Nat /\ floor > s /\ floor - 1 \in Nat
      /\ TierOf(floor) = i /\ TierOf(floor - 1) = i + 1
  <2>1. \/ i = 1 /\ floor = 8000 /\ s < 8000
        \/ i = 2 /\ floor = 7000 /\ s < 7000
        \/ i = 3 /\ floor = 5000 /\ s < 5000
    <3>1. i = 1 \/ i = 2 \/ i = 3
      OBVIOUS
    <3>2. /\ i = 1 => floor = 8000
          /\ i = 2 => floor = 7000
          /\ i = 3 => floor = 5000
      BY <1>3, FourTiers
    <3>3. /\ i = 1 => s < 8000
          /\ i = 2 => s < 7000
          /\ i = 3 => s < 5000
      BY <1>2 DEF TierOf
    <3> QED BY <3>1, <3>2, <3>3
  <2> QED BY <2>1 DEF TierOf
<1>5. tierFor(floor, DefaultModel).name = next
  <2>1. tierFor(floor, DefaultModel) = DefaultTiers[i]
    BY <1>4, TierForScore
  <2> QED BY <2>1, <1>3 DEF NameOf
<1>6. tierFor(floor - 1, DefaultModel).name # next
  <2>1. tierFor(floor - 1, DefaultModel) = DefaultTiers[i + 1]
    BY <1>4, TierForScore
  <2>2. NameOf(i + 1) # NameOf(i)
    <3>1. i = 1 \/ i = 2 \/ i = 3
      OBVIOUS
    <3>2. /\ NameOf(1) = "Excellent" /\ NameOf(2) = "Good"
          /\ NameOf(3) = "Fair" /\ NameOf(4) = "Poor"
      BY FourTiers DEF NameOf
    <3> QED BY <3>1, <3>2
  <2> QED BY <2>1, <2>2, <1>3 DEF NameOf
<1>7. floor - s > 0 /\ s + (floor - s) = floor /\ s + (floor - s) - 1 = floor - 1
  BY <1>4
<1> QED BY <1>5, <1>6, <1>7 DEF next, floor

\* What a score consists of.
LEMMA EarnedFields ==
    ASSUME NEW R, NEW n, NEW now, NEW m
    PROVE  LET score == Earned(R, n, now, m)
               conf  == confidenceFor(Weight(R, now, m))
           IN  /\ score.rated /\ score.stays = Cardinality(R)
               /\ score.composite = Composite(R, now, m)
               /\ score.tier = tierFor(score.composite, m).name
               /\ score.flagged = tierFor(score.composite, m).flagged
               /\ score.next = nextTierAbove(score.composite, m)
               /\ score.handling = handlingFor(score.composite, conf, R, now, m)
<1> DEFINE yes  == TRUE
           comp == Composite(R, now, m)
           tier == tierFor(comp, m)
           next == nextTierAbove(comp, m)
           conf == confidenceFor(Weight(R, now, m))
           gap  == IF next = "" THEN 0 ELSE tierFloor(next, m) - comp
           hand == handlingFor(comp, conf, R, now, m)
           E    == [rated |-> yes, composite |-> comp, tier |-> tier.name,
                    deposit |-> tier.deposit, flagged |-> tier.flagged,
                    next |-> next, gap |-> gap, confidence |-> conf,
                    handling |-> hand, stays |-> Cardinality(R), disputed |-> n]
<1>1. Earned(R, n, now, m) = E
  BY DEF Earned
<1>0. yes
  OBVIOUS
<1> HIDE DEF yes, comp, tier, next, conf, gap, hand
<1>2. /\ E.composite = comp /\ E.flagged = tier.flagged /\ E.next = next
      /\ E.handling = hand /\ E.rated = yes /\ E.tier = tier.name
      /\ E.stays = Cardinality(R)
  OBVIOUS
<1> HIDE DEF E
<1>3. E.rated
  BY <1>0, <1>2
<1> QED BY <1>1, <1>2, <1>3 DEF comp, tier, next, conf, hand

LEMMA EarnedGap ==
    ASSUME NEW R, NEW n, NEW now, NEW m
    PROVE  LET score == Earned(R, n, now, m) IN
           score.gap = IF score.next = "" THEN 0
                       ELSE tierFloor(score.next, m) - score.composite
BY Zenon DEF Earned

LEMMA OpeningFields ==
    ASSUME NEW n, NEW m
    PROVE  LET score == Opening(n, m)
               next  == nextTierAbove(m.newGuestScore, m)
           IN  /\ ~score.rated /\ score.stays = 0
               /\ score.composite = m.newGuestScore
               /\ ~score.flagged
               /\ score.next = next
               /\ score.gap = tierFloor(next, m) - m.newGuestScore
               /\ score.handling = "insufficient_data"
<1> DEFINE no   == FALSE
           next == nextTierAbove(m.newGuestScore, m)
           gap  == tierFloor(next, m) - m.newGuestScore
           dep  == tierFor(m.newGuestScore, m).deposit
           O    == [rated |-> no, composite |-> m.newGuestScore, tier |-> "New",
                    deposit |-> dep, flagged |-> no, next |-> next, gap |-> gap,
                    confidence |-> "none", handling |-> "insufficient_data",
                    stays |-> 0, disputed |-> n]
<1>1. Opening(n, m) = O
  BY DEF Opening
<1>2. ~no
  OBVIOUS
<1> HIDE DEF no, next, gap, dep
<1>3. /\ O.composite = m.newGuestScore /\ O.flagged = no /\ O.next = next
      /\ O.gap = gap /\ O.handling = "insufficient_data" /\ O.rated = no /\ O.stays = 0
  OBVIOUS
<1> QED BY <1>1, <1>2, <1>3 DEF next, gap

\* 2^(-x) falls.
HalvingFalls ==
    \A life \in HalfLives : \A a, b \in Nat : a <= b => Halving(b, life) <= Halving(a, life)

LEMMA FractionTyped ==
    ASSUME HalvingIsFraction, NEW x \in Nat
    PROVE  /\ (1000 * Fraction(x, 1000)) \div 1000 = Halving(x, 693)
           /\ Halving(x, 693) \in Int /\ 0 <= Halving(x, 693) /\ Halving(x, 693) <= 1000
<1>1. Fraction(x, 1000) = Halving(x, 693)
  <2>1. (1000 * 693) \div 1000 = 693
    OBVIOUS
  <2> QED BY <2>1 DEF Fraction
<1>2. Halving(x, 693) \in 0..1000
  <2>1. 693 \in HalfLives
    BY DEF HalfLives
  <2>2. \A life \in HalfLives : Halving(x, life) \in 0..1000
    BY SMTT(30) DEF HalvingIsFraction
  <2> QED BY <2>1, <2>2
<1> QED BY <1>1, <1>2

\* What is rounded off at the ends, and what is not.
LEMMA Saturated ==
    ASSUME HalvingIsFraction, NEW v \in Int
    PROVE  saturate(v, DefaultModel) =
               IF v > 9000 THEN 10000 - Halving(v - 9000, 693)
               ELSE IF v < 1000 THEN Halving(1000 - v, 693)
               ELSE v
<1>1. saturate(v, DefaultModel) =
          IF v > 9000 THEN 10000 - (1000 * Fraction(v - 9000, 1000)) \div 1000
          ELSE IF v < 1000 THEN 0 + (1000 * Fraction(1000 - v, 1000)) \div 1000
          ELSE clamp(v, 0, 10000)
  BY DEF saturate, DefaultModel
<1>2. CASE v > 9000
  <2>1. v - 9000 \in Nat
    BY <1>2
  <2> QED BY <1>1, <1>2, <2>1, FractionTyped
<1>3. CASE v < 1000
  <2>1. 1000 - v \in Nat
    BY <1>3
  <2>2. Halving(1000 - v, 693) \in Int
    BY <2>1, FractionTyped
  <2> QED BY <1>1, <1>3, <2>1, <2>2, FractionTyped
<1>4. CASE ~(v > 9000) /\ ~(v < 1000)
  <2>1. Min({10000, v}) = v
    BY <1>4, LowerOf
  <2>2. Max({0, v}) = v
    BY <1>4, HigherOf
  <2> QED BY <1>1, <1>4, <2>1, <2>2 DEF clamp
<1> QED BY <1>2, <1>3, <1>4

\* scoring.go:762-774: saturation keeps the order of two totals.
LEMMA SaturateKeepsOrder ==
    ASSUME HalvingIsFraction, HalvingFalls, NEW v \in Int, NEW w \in Int, v <= w
    PROVE  saturate(v, DefaultModel) <= saturate(w, DefaultModel)
<1> DEFINE h(x) == Halving(x, 693)
<1>1. \A x \in Nat : h(x) \in Int /\ 0 <= h(x) /\ h(x) <= 1000
  BY FractionTyped
<1>2. \A a, b \in Nat : a <= b => h(b) <= h(a)
  <2>1. 693 \in HalfLives
    BY DEF HalfLives
  <2> QED BY <2>1 DEF HalvingFalls
<1>3. /\ saturate(v, DefaultModel) =
             IF v > 9000 THEN 10000 - h(v - 9000)
             ELSE IF v < 1000 THEN h(1000 - v) ELSE v
      /\ saturate(w, DefaultModel) =
             IF w > 9000 THEN 10000 - h(w - 9000)
             ELSE IF w < 1000 THEN h(1000 - w) ELSE w
  BY Saturated
<1> HIDE DEF h
<1>4. CASE v > 9000
  <2>1. v - 9000 \in Nat /\ w - 9000 \in Nat /\ v - 9000 <= w - 9000
    BY <1>4
  <2>2. h(w - 9000) <= h(v - 9000) /\ h(w - 9000) \in Int /\ h(v - 9000) \in Int
    BY <1>1, <1>2, <2>1
  <2> QED BY <1>3, <1>4, <2>2
<1>5. CASE w < 1000
  <2>1. 1000 - v \in Nat /\ 1000 - w \in Nat /\ 1000 - w <= 1000 - v
    BY <1>5
  <2>2. h(1000 - v) <= h(1000 - w)
    BY <1>2, <2>1
  <2> QED BY <1>3, <1>5, <2>2
<1>6. CASE ~(v > 9000) /\ ~(w < 1000)
  <2>1. v < 1000 => h(1000 - v) \in Int /\ h(1000 - v) <= 1000
    <3>1. v < 1000 => 1000 - v \in Nat
      OBVIOUS
    <3> QED BY <1>1, <3>1
  <2>2. w > 9000 => h(w - 9000) \in Int /\ h(w - 9000) <= 1000
    <3>1. w > 9000 => w - 9000 \in Nat
      OBVIOUS
    <3> QED BY <1>1, <3>1
  <2> QED BY <1>3, <1>6, <2>1, <2>2
<1> QED BY <1>4, <1>5, <1>6

\* A review, and the same review without its first incident.
Relieved(r, s) ==
    /\ r.incidents # <<>> /\ s.incidents = Tail(r.incidents)
    /\ s.submittedAt = r.submittedAt /\ s.q = r.q /\ s.commendations = r.commendations

LEMMA RelievedCosts ==
    ASSUME HalvingIsFraction, NEW R, NEW now, Countable(R, now), NEW r \in R,
           NEW s, Relieved(r, s)
    PROVE  /\ r.incidents[1] \in Incidents
           /\ RowPenalty(r, now)
                  = PenaltyOf(r.incidents[1], Age(r, now), DefaultModel) + RowPenalty(s, now)
<1> DEFINE p == [x \in Incidents |-> PenaltyOf(x, Age(r, now), DefaultModel)]
           i == r.incidents
<1>1. /\ i \in Seq(Incidents) /\ \A x \in Incidents : p[x] \in Nat
      /\ RowPenalty(r, now) = SumFunction([j \in DOMAIN i |-> p[i[j]]])
  BY RowPenaltyIs
<1>2. i # <<>>
  BY DEF Relieved
<1>3. Tail(i) \in Seq(Incidents) /\ i[1] \in Incidents
  BY <1>1, <1>2
<1>4. RowPenalty(s, now) = SumFunction([j \in DOMAIN Tail(i) |-> p[Tail(i)[j]]])
  <2>1. Age(s, now) = Age(r, now) /\ s.incidents = Tail(i)
    BY DEF Relieved, Age
  <2>2. \A j \in DOMAIN Tail(i) : Tail(i)[j] \in Incidents
    BY <1>3
  <2>3. \A j \in DOMAIN Tail(i) :
            PenaltyOf(Tail(i)[j], Age(r, now), DefaultModel) = p[Tail(i)[j]]
    BY <2>2
  <2> HIDE DEF p, i
  <2> QED BY <2>1, <2>3 DEF RowPenalty
<1> HIDE DEF p, i
<1>5. SumFunction([j \in DOMAIN i |-> p[i[j]]])
          = p[i[1]] + SumFunction([j \in DOMAIN Tail(i) |-> p[Tail(i)[j]]])
  BY <1>1, <1>2, SumOfTail
<1>6. RowPenalty(r, now) = p[i[1]] + RowPenalty(s, now)
  BY <1>1, <1>4, <1>5
<1>7. p[i[1]] = PenaltyOf(i[1], Age(r, now), DefaultModel)
  BY <1>3 DEF p
<1> QED BY <1>3, <1>6, <1>7 DEF i

\* What a score is computed from but for its penalty stays as it is.
LEMMA RelievedIsRawTheSame ==
    ASSUME HalvingIsFraction, NEW T, NEW now, NEW r, r \notin T, NEW s, s \notin T,
           Countable(T \cup {r}, now), Countable(T \cup {s}, now), Relieved(r, s)
    PROVE  Raw(T \cup {s}, now, DefaultModel) = Raw(T \cup {r}, now, DefaultModel)
<1> DEFINE R == T \cup {r}
           Q == T \cup {s}
<1>0. r \in R /\ s \in Q /\ (\A y \in T : y \in R /\ y \in Q)
  OBVIOUS
<1>1. Age(s, now) = Age(r, now) /\ s.q = r.q /\ s.commendations = r.commendations
  BY DEF Age, Relieved
<1> HIDE DEF R, Q
<1>2. Weight(Q, now, DefaultModel) = Weight(R, now, DefaultModel)
  <2>1. Numbers(RowWeights(R, now), R) /\ Numbers(RowWeights(Q, now), Q)
    BY WeightsTyped DEF R, Q
  <2>2. Agree(RowWeights(R, now), RowWeights(Q, now), T)
    BY <1>0 DEF Agree, RowWeights
  <2>3. RowWeights(Q, now)[s] = RowWeights(R, now)[r]
    BY <1>0, <1>1 DEF RowWeights
  <2>4. SumFunction(RowWeights(Q, now)) = SumFunction(RowWeights(R, now))
    BY <2>1, <2>2, <2>3, SwapOne DEF R, Q
  <2> QED BY <2>4 DEF Weight, RowWeights
<1>3. SumFunction(RowQualities(Q, now)) = SumFunction(RowQualities(R, now))
  <2>1. Numbers(RowQualities(R, now), R) /\ Numbers(RowQualities(Q, now), Q)
    BY QualitiesTyped DEF R, Q
  <2>2. Agree(RowQualities(R, now), RowQualities(Q, now), T)
    BY <1>0 DEF Agree, RowQualities
  <2>3. RowQualities(Q, now)[s] = RowQualities(R, now)[r]
    BY <1>0, <1>1 DEF RowQualities
  <2> QED BY <2>1, <2>2, <2>3, SwapOne DEF R, Q
<1>4. Base(Q, now, DefaultModel) = Base(R, now, DefaultModel)
  <2>1. Adjusted(Q, now, DefaultModel) = Adjusted(R, now, DefaultModel)
    BY <1>2, <1>3 DEF Adjusted, RowQualities
  <2> QED BY <2>1 DEF Base
<1>5. Bonus(Q, now, DefaultModel) = Bonus(R, now, DefaultModel)
  <2>1. /\ Numbers(RowBonuses(R, now), R) /\ Numbers(RowBonuses(Q, now), Q)
        /\ Bonus(R, now, DefaultModel) = SumFunction(RowBonuses(R, now))
        /\ Bonus(Q, now, DefaultModel) = SumFunction(RowBonuses(Q, now))
    BY BonusIsSum DEF R, Q
  <2>2. Agree(RowBonuses(R, now), RowBonuses(Q, now), T)
    BY <1>0 DEF Agree, RowBonuses
  <2>3. RowBonuses(Q, now)[s] = RowBonuses(R, now)[r]
    BY <1>0, <1>1 DEF RowBonuses, RowBonus
  <2>4. SumFunction(RowBonuses(Q, now)) = SumFunction(RowBonuses(R, now))
    BY <2>1, <2>2, <2>3, SwapOne DEF R, Q
  <2> QED BY <2>1, <2>4
<1>6. Tenure(Q, now, DefaultModel) = Tenure(R, now, DefaultModel)
  <2>1. {Age(x, now) : x \in Q} = {Age(x, now) : x \in R}
    BY <1>1 DEF R, Q
  <2> QED BY <2>1 DEF Tenure
<1>7. Raw(Q, now, DefaultModel) = Raw(R, now, DefaultModel)
  BY <1>4, <1>5, <1>6 DEF Raw
<1> QED BY <1>7 DEF R, Q

\* R's penalties take cost more than Q's off the same unsaturated score.
CostsMore(R, Q, now, cost) ==
    \E lifted \in Points, less \in Nat :
        /\ Composite(R, now, DefaultModel) = saturate(lifted - (less + cost), DefaultModel)
        /\ Composite(Q, now, DefaultModel) = saturate(lifted - less, DefaultModel)

\* A record without one of its incidents costs what that incident did less.
LEMMA RelievedTotals ==
    ASSUME HalvingIsFraction,
           NEW T, NEW now, NEW r, r \notin T, NEW s, s \notin T,
           Countable(T \cup {r}, now), Countable(T \cup {s}, now), Relieved(r, s)
    PROVE  LET cost == PenaltyOf(r.incidents[1], Age(r, now), DefaultModel) IN
           /\ r.incidents[1] \in Incidents /\ cost \in Nat
           /\ CostsMore(T \cup {r}, T \cup {s}, now, cost)
<1> DEFINE R == T \cup {r}
           Q == T \cup {s}
           lifted == saturate(Raw(R, now, DefaultModel), DefaultModel)
           more == Penalty(R, now, DefaultModel)
           less == Penalty(Q, now, DefaultModel)
           cost == PenaltyOf(r.incidents[1], Age(r, now), DefaultModel)
<1>0. r \in R /\ s \in Q /\ (\A y \in T : y \in R /\ y \in Q)
  OBVIOUS
<1>1. r.incidents[1] \in Incidents /\ RowPenalty(r, now) = cost + RowPenalty(s, now)
  <2> HIDE DEF R
  <2> QED BY <1>0, RelievedCosts DEF R
<1>2. cost \in Nat
  <2>1. \A x \in Incidents : PenaltyOf(x, Age(r, now), DefaultModel) \in Nat
    <3> HIDE DEF R
    <3>1. Countable(R, now)
      BY DEF R
    <3> QED BY <1>0, <3>1, WeighedTyped, LifeOfModel, PenaltyOfTyped
  <2> QED BY <1>1, <2>1
<1>3. more \in Nat /\ less \in Nat
  BY PenaltyTyped
<1>4. more = less + cost
  <2>1. RowPenalty(r, now) \in Nat /\ RowPenalty(s, now) \in Nat
    BY <1>0, RowsTyped
  <2> HIDE DEF R, Q, cost
  <2>2. /\ Numbers(RowPenalties(R, now), R) /\ Numbers(RowPenalties(Q, now), Q)
        /\ more = SumFunction(RowPenalties(R, now))
        /\ less = SumFunction(RowPenalties(Q, now))
    BY PenaltyIsSum DEF R, Q
  <2>3. Agree(RowPenalties(R, now), RowPenalties(Q, now), T)
    BY <1>0 DEF Agree, RowPenalties
  <2>4. /\ RowPenalties(R, now)[r] = RowPenalty(r, now)
        /\ RowPenalties(Q, now)[s] = RowPenalty(s, now)
    BY <1>0 DEF RowPenalties
  <2>5. \E n \in Nat : /\ more = RowPenalty(r, now) + n
                        /\ less = RowPenalty(s, now) + n
    <3> DEFINE F == RowPenalties(R, now)
               H == RowPenalties(Q, now)
    <3>1. Numbers(F, T \cup {r}) /\ Numbers(H, T \cup {s}) /\ Agree(F, H, T)
      BY <2>2, <2>3 DEF R, Q
    <3> HIDE DEF F, H
    <3>2. \E n \in Nat : SumFunction(F) = F[r] + n /\ SumFunction(H) = H[s] + n
      BY <3>1, DifferByOne
    <3> QED BY <2>2, <2>4, <3>2 DEF F, H
  <2> HIDE DEF more, less
  <2> QED BY <1>1, <1>2, <1>3, <2>1, <2>5
<1>5. lifted \in Points
  <2>1. Raw(R, now, DefaultModel) \in Int
    BY RawTyped
  <2> QED BY <2>1, SaturateTyped
<1>6. /\ Composite(R, now, DefaultModel) = saturate(lifted - more, DefaultModel)
      /\ Composite(Q, now, DefaultModel) = saturate(lifted - less, DefaultModel)
  BY RelievedIsRawTheSame DEF Composite
<1> HIDE DEF lifted, more, less, cost
<1>7. CostsMore(R, Q, now, cost)
  BY <1>3, <1>4, <1>5, <1>6 DEF CostsMore
<1> QED BY <1>1, <1>2, <1>7 DEF cost

\* scoring.go:382-384: without one of its incidents a record scores no less.
LEMMA RelievedScoresNoLess ==
    ASSUME HalvingIsFraction, HalvingFalls,
           NEW T, NEW now, NEW r, r \notin T, NEW s, s \notin T,
           Countable(T \cup {r}, now), Countable(T \cup {s}, now), Relieved(r, s)
    PROVE  Composite(T \cup {r}, now, DefaultModel) <= Composite(T \cup {s}, now, DefaultModel)
<1> DEFINE cost == PenaltyOf(r.incidents[1], Age(r, now), DefaultModel)
<1>1. cost \in Nat /\ CostsMore(T \cup {r}, T \cup {s}, now, cost)
  BY RelievedTotals
<1>2. PICK lifted \in Points, less \in Nat :
          /\ Composite(T \cup {r}, now, DefaultModel)
                 = saturate(lifted - (less + cost), DefaultModel)
          /\ Composite(T \cup {s}, now, DefaultModel) = saturate(lifted - less, DefaultModel)
  BY <1>1 DEF CostsMore
<1> HIDE DEF cost
<1>3. /\ lifted - (less + cost) \in Int /\ lifted - less \in Int
      /\ lifted - (less + cost) <= lifted - less
  BY <1>1 DEF Points
<1> QED BY <1>2, <1>3, SaturateKeepsOrder

\* 2^(-x) is still a quarter of the whole after two half-lives and a bit, and
\* falls by a thousandth within thirty days while a tenth of the whole is left,
\* which it is for more than a half-life.
HalvingIsSteep ==
    /\ \A age \in 1..365 : Halving(age, 180) >= 240
    /\ Halving(1000, 693) >= 100
    /\ \A a, b \in Nat :
           a + 30 <= b /\ Halving(b, 693) >= 100 => Halving(b, 693) < Halving(a, 693)

\* Three points more are told apart, but at the bottom of the scale.
LEMMA SaturateTells ==
    ASSUME HalvingIsFraction, HalvingFalls, HalvingIsSteep,
           NEW v \in Int, NEW w \in Int, v + 30 <= w, w <= 10000,
           saturate(v, DefaultModel) >= 100
    PROVE  saturate(v, DefaultModel) < saturate(w, DefaultModel)
<1> DEFINE h(x) == Halving(x, 693)
<1>1. \A x \in Nat : h(x) \in Int /\ 0 <= h(x) /\ h(x) <= 1000
  BY FractionTyped
<1>2. \A a, b \in Nat : a <= b => h(b) <= h(a)
  <2>1. 693 \in HalfLives
    BY DEF HalfLives
  <2> QED BY <2>1 DEF HalvingFalls
<1>3. h(0) = 1000
  BY HalvingAssumption
<1>4. /\ h(1000) >= 100
      /\ \A a, b \in Nat : a + 30 <= b /\ h(b) >= 100 => h(b) < h(a)
  BY DEF HalvingIsSteep
<1>5. /\ saturate(v, DefaultModel) =
             IF v > 9000 THEN 10000 - h(v - 9000)
             ELSE IF v < 1000 THEN h(1000 - v) ELSE v
      /\ saturate(w, DefaultModel) =
             IF w > 9000 THEN 10000 - h(w - 9000)
             ELSE IF w < 1000 THEN h(1000 - w) ELSE w
  BY Saturated
<1> HIDE DEF h
<1>6. CASE w > 9000
  <2>1. w - 9000 \in Nat /\ w - 9000 <= 1000 /\ h(w - 9000) \in Int /\ h(w - 9000) <= 1000
    BY <1>1, <1>6
  <2>2. h(w - 9000) >= 100
    <3>1. h(1000) <= h(w - 9000) /\ h(1000) \in Int
      BY <1>1, <1>2, <2>1
    <3> QED BY <1>4, <2>1, <3>1
  <2>3. CASE v > 9000
    <3>1. v - 9000 \in Nat /\ (v - 9000) + 30 <= w - 9000
      BY <2>3
    <3>2. h(w - 9000) < h(v - 9000) /\ h(v - 9000) \in Int
      BY <1>1, <1>4, <2>1, <2>2, <3>1
    <3> QED BY <1>5, <1>6, <2>1, <2>3, <3>2
  <2>4. CASE v = 9000
    <3>1. 0 + 30 <= w - 9000
      BY <2>4
    <3>2. h(w - 9000) < h(0)
      BY <1>4, <2>1, <2>2, <3>1
    <3> QED BY <1>3, <1>5, <1>6, <2>1, <2>4, <3>2
  <2>5. CASE v < 9000
    <3>1. v < 1000 => h(1000 - v) \in Int /\ h(1000 - v) <= 1000
      <4>1. v < 1000 => 1000 - v \in Nat
        OBVIOUS
      <4> QED BY <1>1, <4>1
    <3> QED BY <1>5, <1>6, <2>1, <2>5, <3>1
  <2> QED BY <2>3, <2>4, <2>5
<1>7. CASE w <= 9000 /\ v >= 1000
  BY <1>5, <1>7
<1>8. CASE w <= 9000 /\ v < 1000
  <2>1. 1000 - v \in Nat /\ saturate(v, DefaultModel) = h(1000 - v)
        /\ h(1000 - v) \in Int /\ h(1000 - v) <= 1000 /\ h(1000 - v) >= 100
    <3>1. 1000 - v \in Nat /\ saturate(v, DefaultModel) = h(1000 - v)
      BY <1>5, <1>8
    <3> QED BY <1>1, <3>1
  <2>2. CASE w < 1000
    <3>1. 1000 - w \in Nat /\ (1000 - w) + 30 <= 1000 - v
      BY <2>2
    <3>2. h(1000 - v) < h(1000 - w)
      BY <1>4, <2>1, <3>1
    <3> QED BY <1>5, <2>1, <2>2, <3>2
  <2>3. CASE w = 1000
    <3>1. 0 + 30 <= 1000 - v
      BY <2>3
    <3>2. h(1000 - v) < h(0)
      BY <1>4, <2>1, <3>1
    <3> QED BY <1>3, <1>5, <2>1, <2>3, <3>2
  <2>4. CASE w > 1000
    BY <1>5, <1>8, <2>1, <2>4
  <2> QED BY <2>2, <2>3, <2>4
<1> QED BY <1>6, <1>7, <1>8

LEMMA CostTells ==
    ASSUME HalvingIsFraction, HalvingFalls, HalvingIsSteep,
           NEW lifted \in Points, NEW less \in Nat, NEW cost \in Nat, cost >= 30,
           saturate(lifted - (less + cost), DefaultModel) >= 100
    PROVE  saturate(lifted - (less + cost), DefaultModel) < saturate(lifted - less, DefaultModel)
<1> DEFINE v == lifted - (less + cost)
           w == lifted - less
<1>1. v \in Int /\ w \in Int /\ v + 30 <= w /\ w <= 10000
  BY DEF Points
<1>2. saturate(v, DefaultModel) >= 100
  OBVIOUS
<1> HIDE DEF v, w
<1>3. saturate(v, DefaultModel) < saturate(w, DefaultModel)
  BY <1>1, <1>2, SaturateTells
<1> QED BY <1>3 DEF v, w

\* Any incident of the last year costs three points before saturation.
LEMMA RecentCosts ==
    ASSUME HalvingIsFraction, HalvingIsSteep, NEW x \in Incidents, NEW age \in Int, age <= 365
    PROVE  PenaltyOf(x, age, DefaultModel) >= 30
<1> DEFINE d == decay(age, 180)
           b == BasePenalty[x.type]
           m == Multiplier[x.severity]
<1>1. d \in Nat /\ d >= 240
  <2>1. CASE age <= 0
    BY <2>1 DEF decay
  <2>2. CASE age > 0
    <3>1. age \in 1..365 /\ d = Halving(age, 180)
      BY <2>2 DEF decay
    <3>2. 180 \in HalfLives /\ age \in Nat
      BY <3>1 DEF HalfLives
    <3>3. Halving(age, 180) \in 0..1000
      BY <3>2, SMTT(30) DEF HalvingIsFraction
    <3>4. Halving(age, 180) >= 240
      <4>1. \A n \in 1..365 : Halving(n, 180) >= 240
        BY DEF HalvingIsSteep
      <4> QED BY <3>1, <4>1
    <3> QED BY <3>1, <3>3, <3>4
  <2> QED BY <2>1, <2>2
<1>2. b \in Nat /\ b >= 25
  BY DEF Incidents, BasePenalty
<1>3. m \in {5, 10, 18}
  BY DEF Incidents, Multiplier
<1>4. PenaltyOf(x, age, DefaultModel) = (b * m * d) \div 1000
  BY DEF PenaltyOf, DefaultModel
<1> HIDE DEF d, b, m
<1>5. b * m \in Nat /\ b * m >= 125
  BY <1>2, <1>3
<1>6. ASSUME NEW k \in Nat, k >= 125
      PROVE  k * d \in Nat /\ k * d >= 30000
  <2>1. k * d >= 125 * d /\ k * d \in Nat
    BY <1>1, <1>6
  <2> QED BY <1>1, <2>1
<1>7. \A n \in Nat : n >= 30000 => n \div 1000 >= 30
  OBVIOUS
<1>8. (b * m) * d \in Nat /\ (b * m) * d >= 30000
  BY <1>5, <1>6
<1> QED BY <1>4, <1>7, <1>8

\* scoring.go:382-384: without one of its incidents of the last year a record
\* scores more.
LEMMA RelievedScoresMore ==
    ASSUME HalvingIsFraction, HalvingFalls, HalvingIsSteep,
           NEW T, NEW now, NEW r, r \notin T, NEW s, s \notin T,
           Countable(T \cup {r}, now), Countable(T \cup {s}, now), Relieved(r, s),
           Age(r, now) <= 365, Composite(T \cup {r}, now, DefaultModel) >= 100
    PROVE  Composite(T \cup {r}, now, DefaultModel) < Composite(T \cup {s}, now, DefaultModel)
<1> DEFINE cost == PenaltyOf(r.incidents[1], Age(r, now), DefaultModel)
<1>1. /\ cost \in Nat /\ r.incidents[1] \in Incidents
      /\ CostsMore(T \cup {r}, T \cup {s}, now, cost)
  BY RelievedTotals
<1>2. PICK lifted \in Points, less \in Nat :
          /\ Composite(T \cup {r}, now, DefaultModel)
                 = saturate(lifted - (less + cost), DefaultModel)
          /\ Composite(T \cup {s}, now, DefaultModel) = saturate(lifted - less, DefaultModel)
  BY <1>1 DEF CostsMore
<1>3. Age(r, now) \in Int
  <2>1. r \in T \cup {r}
    OBVIOUS
  <2>2. now \in Int /\ r.submittedAt \in Int
    BY <2>1 DEF Countable
  <2> QED BY <2>2 DEF Age
<1>4. cost >= 30
  BY <1>1, <1>3, RecentCosts
<1> HIDE DEF cost
<1>5. saturate(lifted - (less + cost), DefaultModel) >= 100
  BY <1>2
<1>6. saturate(lifted - (less + cost), DefaultModel) < saturate(lifted - less, DefaultModel)
  BY <1>1, <1>4, <1>5, CostTells
<1> QED BY <1>2, <1>6

\* A score of somebody with a record is computed from what counts.
LEMMA ComputedFrom ==
    ASSUME NEW all, NEW now, NEW m, {r \in all : Scoreable(r)} # {}
    PROVE  Compute(all, now, m).composite
               = Composite({r \in all : Scoreable(r)}, now, m)
<1> DEFINE R == {r \in all : Scoreable(r)}
<1>1. Compute(all, now, m) = Earned(R, Cardinality(all \ R), now, m)
  BY DEF Compute
<1> HIDE DEF R
<1>2. Compute(all, now, m).composite = Composite(R, now, m)
  BY <1>1, EarnedFields
<1> QED BY <1>2 DEF R
=============================================================================
