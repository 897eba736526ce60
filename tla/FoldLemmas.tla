----------------------------- MODULE FoldLemmas -----------------------------
(***************************************************************************)
(* What the operators that the model folds with give, for every finite set  *)
(* and sequence: division by parts, sums over finite sets, sequences put    *)
(* together.  Nothing is proved by induction: a set of naturals, and a set  *)
(* of subsets of a finite set, have a least member, and a claim without a   *)
(* least counterexample has none.                                          *)
(***************************************************************************)
EXTENDS Integers, Sequences, FiniteSets, SequencesExt, FiniteSetTheorems,
        FunctionTheorems, SequenceTheorems, WellFoundedInduction, TLAPS

-----------------------------------------------------------------------------
(* Division. *)

\* Whole parts of L of size R.
LEMMA Parts ==
    ASSUME NEW L \in Nat \ {0}, NEW R \in Nat \ {0}, L % R = 0
    PROVE  L \div R \in Nat \ {0} /\ R * (L \div R) = L
<1>1. L = R * (L \div R)
  OBVIOUS
<1> DEFINE p == L \div R
<1>2. R * p = L /\ p \in Nat
  BY <1>1
<1>. HIDE DEF p
<1>3. \A r \in Nat \ {0}, n \in Int : r * n > 0 => n > 0
  OBVIOUS
<1>4. p > 0
  BY <1>2, <1>3
<1>. QED BY <1>2, <1>4 DEF p

\* A multiple of y.
LEMMA Divisor ==
    ASSUME NEW x \in Nat, NEW y \in Nat \ {0}, x % y = 0
    PROVE  \E d \in Nat : x = y * d
<1>1. x = y * (x \div y) /\ x \div y \in Nat
  OBVIOUS
<1>. QED BY <1>1

\* Quotient and remainder are determined.
LEMMA DivMod ==
    ASSUME NEW x \in Nat, NEW y \in Nat \ {0}, NEW z \in 0..(y - 1)
    PROVE  (x * y + z) \div y = x /\ (x * y + z) % y = z
<1> DEFINE a == x * y + z
           d == a \div y
<1>1. a \in Nat /\ x * y \in Nat
  OBVIOUS
<1>2. d \in Nat /\ y * d <= a /\ a < y * d + y
  <2>. HIDE DEF a
  <2>. QED BY <1>1
<1>. HIDE DEF d
<1>3. \A u \in Nat, v \in Nat, w \in Nat \ {0} : w * u < w * v => u < v
  OBVIOUS
<1>4. d = x
  <2>1. y * d < y * (x + 1) /\ y * x < y * (d + 1)
    BY <1>1, <1>2
  <2>. QED BY <1>2, <1>3, <2>1
<1>5. a % y = a - y * d
  <2>1. \A u \in Nat, w \in Nat \ {0} : u % w = u - w * (u \div w)
    OBVIOUS
  <2>. HIDE DEF a
  <2>. QED BY <1>1, <2>1 DEF d
<1>6. a % y = z
  BY <1>1, <1>4, <1>5
<1>. QED BY <1>4, <1>6 DEF d

\* Numbers below R * P that leave m when divided by P.
Leaving(m, P, R) == {l \in 0..(R * P - 1) : l >= m /\ (l - m) % P = 0}

\* The members of a class of remainders, and how many there are.
LEMMA Class ==
    ASSUME NEW R \in Nat \ {0}, NEW P \in Nat \ {0}, NEW m \in 0..(P - 1)
    PROVE  /\ m \in Leaving(m, P, R) /\ \A l \in Leaving(m, P, R) : l % P = m
           /\ IsFiniteSet(Leaving(m, P, R)) /\ Cardinality(Leaving(m, P, R)) = R
<1> DEFINE S == Leaving(m, P, R)
           f == [j \in 0..(R - 1) |-> m + j * P]
<1>1. R * P \in Nat /\ R * P >= P
  <2>1. \A r \in Nat \ {0}, p \in Nat : r * p >= p
    OBVIOUS
  <2>. QED BY <2>1
<1> HIDE DEF S
<1>0. ASSUME NEW l \in S PROVE \E d \in Nat : l - m = P * d
  <2> DEFINE x == l - m
  <2>1. x \in Nat /\ x % P = 0
    BY <1>1 DEF S, Leaving
  <2>. HIDE DEF x
  <2>2. \E d \in Nat : x = P * d
    BY <2>1, Divisor
  <2>. QED BY <2>2 DEF x
<1>2. m \in S
  BY <1>1 DEF S, Leaving
<1>3. \A l \in S : l % P = m
  <2>1. SUFFICES ASSUME NEW l \in S PROVE l % P = m
    OBVIOUS
  <2>2. PICK d \in Nat : l - m = P * d
    BY <1>0
  <2>3. l = d * P + m
    BY <2>2 DEF S, Leaving
  <2>. QED BY <2>2, <2>3, DivMod
<1>4. f \in Bijection(0..(R - 1), S)
  <2>1. ASSUME NEW j \in 0..(R - 1) PROVE f[j] \in S
    <3>1. j * P \in Nat /\ j * P <= R * P - P
      <4>1. (R - 1) * P = R * P - P
        OBVIOUS
      <4>2. \A x \in Nat, y \in Nat, z \in Nat : x <= y => x * z <= y * z
        OBVIOUS
      <4>3. j * P <= (R - 1) * P
        BY <4>2
      <4>. QED BY <4>1, <4>3
    <3>2. (m + j * P) - m = j * P /\ (j * P) % P = 0
      <4>1. \A x \in Nat, z \in Nat \ {0} : (x * z) % z = 0
        OBVIOUS
      <4>. QED BY <3>1, <4>1
    <3>3. m + j * P \in 0..(R * P - 1) /\ m + j * P >= m
      BY <1>1, <3>1
    <3>. QED BY <3>2, <3>3 DEF S, Leaving
  <2>2. ASSUME NEW i \in 0..(R - 1), NEW j \in 0..(R - 1), f[i] = f[j] PROVE i = j
    <3>1. i * P = j * P
      BY <2>2
    <3>2. \A x \in Nat, y \in Nat, z \in Nat \ {0} : x * z = y * z => x = y
      OBVIOUS
    <3>. QED BY <3>1, <3>2
  <2>3. ASSUME NEW l \in S PROVE \E j \in 0..(R - 1) : f[j] = l
    <3>1. PICK d \in Nat : l - m = P * d
      BY <1>0
    <3>2. l \in 0..(R * P - 1) /\ l >= m
      BY DEF S, Leaving
    <3>3. d < R
      <4>1. P * d < P * R
        BY <1>1, <3>1, <3>2
      <4>2. \A x \in Int, y \in Nat, z \in Nat \ {0} : z * x < z * y => x < y
        OBVIOUS
      <4>. QED BY <4>1, <4>2
    <3>4. d \in 0..(R - 1) /\ f[d] = l
      BY <3>1, <3>2, <3>3
    <3>. QED BY <3>4
  <2>4. f \in [0..(R - 1) -> S]
    BY <2>1
  <2>. QED BY <2>2, <2>3, <2>4, Fun_IsBij
<1>5. IsFiniteSet(0..(R - 1)) /\ Cardinality(0..(R - 1)) = R
  BY FS_Interval
<1>6. IsFiniteSet(S) /\ Cardinality(S) = R
  <2>. HIDE DEF f
  <2>1. ExistsBijection(0..(R - 1), S)
    BY <1>4 DEF ExistsBijection
  <2>. QED BY <1>5, <2>1, FS_Bijection
<1>. QED BY <1>2, <1>3, <1>6 DEF S

-----------------------------------------------------------------------------
(* Least members. *)

\* A set of naturals has a least one.
LEMMA LeastNatural ==
    ASSUME NEW T, T \subseteq Nat, T # {}
    PROVE  \E n \in T : \A m \in T : n <= m
<1> DEFINE R == {ss \in Nat \X Nat : ss[1] < ss[2]}
<1>1. IsWellFoundedOn(R, Nat)
  BY NatLessThanWellFounded DEF OpToRel
<1>2. \A m, n \in Nat : m < n => <<m, n>> \in R
  OBVIOUS
<1>. HIDE DEF R
<1>3. PICK n \in T : \A m \in T : ~(<<m, n>> \in R)
  BY <1>1, WFMin
<1>4. ASSUME NEW m \in T PROVE n <= m
  <2>1. m \in Nat /\ n \in Nat
    OBVIOUS
  <2>2. ~(m < n)
    BY <1>2, <1>3, <2>1
  <2>. QED BY <2>1, <2>2
<1>. QED BY <1>4

\* A set of finite sets has a least one.
LEMMA LeastSet ==
    ASSUME NEW S, IsFiniteSet(S), NEW T, T \subseteq SUBSET S, T # {}
    PROVE  \E s \in T : \A r \in T : ~(r \subseteq s /\ r # s)
<1>1. IsWellFoundedOn(StrictSubsetOrdering(S), SUBSET S)
  BY FS_StrictSubsetOrderingWellFounded, FS_FiniteSubsetsOfFinite
<1>2. PICK s \in T : \A r \in T : ~(<<r, s>> \in StrictSubsetOrdering(S))
  BY <1>1, WFMin
<1>3. ASSUME NEW r \in T, r \subseteq s, r # s PROVE FALSE
  <2>1. <<r, s>> \in StrictSubsetOrdering(S)
    BY <1>3 DEF StrictSubsetOrdering
  <2>. QED BY <1>2, <2>1
<1>. QED BY <1>3

\* A set that holds each subset of S whose own parts it holds has S.
LEMMA Shrinking ==
    ASSUME NEW S, IsFiniteSet(S), NEW P,
           \A T \in SUBSET S : (\A U \in SUBSET T : U # T => U \in P) => T \in P
    PROVE  S \in P
<1> DEFINE Bad == {T \in SUBSET S : T \notin P}
<1>1. SUFFICES ASSUME Bad # {} PROVE FALSE
  OBVIOUS
<1>2. PICK T \in Bad : \A U \in Bad : ~(U \subseteq T /\ U # T)
  <2>1. Bad \subseteq SUBSET S
    OBVIOUS
  <2>. HIDE DEF Bad
  <2>. QED BY <1>1, <2>1, LeastSet
<1>3. T \in SUBSET S /\ \A U \in SUBSET T : U # T => U \in P
  BY <1>2
<1>. QED BY <1>2, <1>3

\* A set of naturals up to n that is not empty has a greatest one.
LEMMA Greatest ==
    ASSUME NEW S, S \subseteq Nat, S # {}, NEW n \in Nat, \A x \in S : x <= n
    PROVE  Max(S) \in S /\ \A x \in S : x <= Max(S)
<1> DEFINE B == {b \in Nat : \A x \in S : x <= b}
<1>1. PICK b \in B : \A c \in B : b <= c
  <2>1. B \subseteq Nat /\ B # {}
    OBVIOUS
  <2>. HIDE DEF B
  <2>. QED BY <2>1, LeastNatural
<1>2. b \in S
  <2>1. CASE b = 0
    <3>1. PICK x \in S : x <= b /\ x \in Nat
      BY <1>1
    <3>. QED BY <2>1, <3>1
  <2>2. CASE b # 0
    <3>1. b - 1 \in Nat /\ b - 1 \notin B
      BY <1>1, <2>2
    <3>2. PICK x \in S : ~(x <= b - 1)
      BY <3>1
    <3>. QED BY <1>1, <3>1, <3>2
  <2>. QED BY <2>1, <2>2
<1>3. \E x \in S : \A y \in S : x >= y
  BY <1>1, <1>2
<1>. QED BY <1>3 DEF Max

\* The least member of a set of naturals.
LEMMA LeastOf ==
    ASSUME NEW S, S \subseteq Nat, S # {}
    PROVE  Min(S) \in S /\ \A x \in S : Min(S) <= x
<1>1. \E x \in S : \A y \in S : x =< y
  BY LeastNatural
<1>. QED BY <1>1 DEF Min

\* A finite set of naturals has a bound.
LEMMA Bound ==
    ASSUME NEW S, S \subseteq Nat, IsFiniteSet(S)
    PROVE  \E n \in Nat : \A x \in S : x <= n
<1> DEFINE P == {T \in SUBSET S : \E n \in Nat : \A x \in T : x <= n}
<1>1. ASSUME NEW T \in SUBSET S, \A U \in SUBSET T : U # T => U \in P PROVE T \in P
  <2>1. CASE T = {}
    BY <2>1
  <2>2. CASE T # {}
    <3>1. PICK b \in T : TRUE
      BY <2>2
    <3>2. PICK n \in Nat : \A x \in T \ {b} : x <= n
      <4>1. T \ {b} \in SUBSET T /\ T \ {b} # T
        BY <3>1
      <4>2. T \ {b} \in P
        BY <1>1, <4>1
      <4>. QED BY <4>2
    <3>3. b \in Nat
      OBVIOUS
    <3>4. PICK m \in Nat : b <= m /\ n <= m
      <4>1. b <= b + n /\ n <= b + n /\ b + n \in Nat
        BY <3>3
      <4>. QED BY <4>1
    <3>5. \A x \in T : x <= m
      BY <3>2, <3>3, <3>4
    <3>. QED BY <3>5
  <2>. QED BY <2>1, <2>2
<1>2. S \in P
  <2>. HIDE DEF P
  <2>. QED BY <1>1, Shrinking
<1>. QED BY <1>2

\* The greatest of a finite set of naturals.
LEMMA GreatestOf ==
    ASSUME NEW S, S \subseteq Nat, IsFiniteSet(S), S # {}
    PROVE  Max(S) \in S /\ \A x \in S : x <= Max(S)
<1>1. PICK n \in Nat : \A x \in S : x <= n
  BY Bound
<1>. QED BY <1>1, Greatest

\* The image of a finite set under a function.
LEMMA ImageFinite ==
    ASSUME NEW S, IsFiniteSet(S), NEW f, DOMAIN f = S
    PROVE  IsFiniteSet({f[x] : x \in S})
<1> DEFINE I == {f[x] : x \in S}
<1>1. [x \in S |-> f[x]] \in Surjection(S, I)
  <2>1. [x \in S |-> f[x]] \in [S -> I] /\ \A y \in I : \E x \in S : [z \in S |-> f[z]][x] = y
    OBVIOUS
  <2>. HIDE DEF I
  <2>. QED BY <2>1, Fun_IsSurj
<1>. HIDE DEF I
<1>2. IsFiniteSet(I)
  BY <1>1, FS_Surjection
<1>. QED BY <1>2 DEF I

-----------------------------------------------------------------------------
(* Sums over finite sets. *)

\* The member a fold of a set takes out of it next.
Pick(s) == CHOOSE x \in s : TRUE

\* f holds the sums of w over every subset of S.
Sums(f, w, S) ==
    f = [s \in SUBSET S |-> IF s = {} THEN 0 ELSE w[Pick(s)] + f[s \ {Pick(s)}]]

\* Taking the member out leaves a smaller set.
LEMMA PickIsIn ==
    ASSUME NEW s, s # {}
    PROVE  Pick(s) \in s /\ s \ {Pick(s)} \subseteq s /\ s \ {Pick(s)} # s
<1>1. Pick(s) \in s
  BY DEF Pick
<1>. QED BY <1>1

\* The sum of a subset is that of one member and of the rest.
LEMMA SumsOfSubsets ==
    ASSUME NEW S, NEW w, NEW f, Sums(f, w, S)
    PROVE  \A s \in SUBSET S : f[s] = IF s = {} THEN 0 ELSE w[Pick(s)] + f[s \ {Pick(s)}]
BY DEF Sums

\* The sums over the subsets of a finite set are determined,
LEMMA SumsUnique ==
    ASSUME NEW S, IsFiniteSet(S), NEW w, NEW f, Sums(f, w, S), NEW g, Sums(g, w, S)
    PROVE  \A s \in SUBSET S : f[s] = g[s]
<1> DEFINE Bad == {s \in SUBSET S : f[s] # g[s]}
<1>1. SUFFICES ASSUME Bad # {} PROVE FALSE
  OBVIOUS
<1>2. PICK s \in Bad : \A r \in Bad : ~(r \subseteq s /\ r # s)
  <2>1. Bad \subseteq SUBSET S
    OBVIOUS
  <2>. HIDE DEF Bad
  <2>. QED BY <1>1, <2>1, LeastSet
<1>3. CASE s = {}
  BY <1>2, <1>3, SumsOfSubsets
<1>4. CASE s # {}
  <2>1. s \ {Pick(s)} \notin Bad /\ s \ {Pick(s)} \in SUBSET S
    BY <1>2, <1>4, PickIsIn
  <2>2. f[s \ {Pick(s)}] = g[s \ {Pick(s)}]
    BY <2>1
  <2>. QED BY <1>2, <1>4, <2>2, SumsOfSubsets
<1>. QED BY <1>3, <1>4

\* those over the subsets of a part of it are the same,
LEMMA SumsRestrict ==
    ASSUME NEW S, NEW w, NEW f, Sums(f, w, S), NEW T \in SUBSET S
    PROVE  Sums([s \in SUBSET T |-> f[s]], w, T)
<1> DEFINE g == [s \in SUBSET T |-> f[s]]
<1>1. ASSUME NEW s \in SUBSET T
      PROVE  g[s] = IF s = {} THEN 0 ELSE w[Pick(s)] + g[s \ {Pick(s)}]
  <2>1. s \ {Pick(s)} \in SUBSET T /\ s \in SUBSET S
    OBVIOUS
  <2>2. f[s] = IF s = {} THEN 0 ELSE w[Pick(s)] + f[s \ {Pick(s)}]
    <3>1. \A r \in SUBSET S : f[r] = IF r = {} THEN 0 ELSE w[Pick(r)] + f[r \ {Pick(r)}]
      BY SumsOfSubsets
    <3>. QED BY <2>1, <3>1
  <2>3. g[s] = f[s] /\ g[s \ {Pick(s)}] = f[s \ {Pick(s)}]
    BY <2>1
  <2>. QED BY <2>2, <2>3
<1>2. g = [s \in SUBSET T |-> IF s = {} THEN 0 ELSE w[Pick(s)] + g[s \ {Pick(s)}]]
  BY <1>1
<1>. QED BY <1>2 DEF Sums

\* and there are such sums.
LEMMA SumsExist ==
    ASSUME NEW S, IsFiniteSet(S), NEW w
    PROVE  \E f : Sums(f, w, S)
<1> DEFINE Bad == {T \in SUBSET S : ~\E f : Sums(f, w, T)}
           G(U) == CHOOSE e : Sums(e, w, U)
<1>1. SUFFICES ASSUME Bad # {} PROVE FALSE
  OBVIOUS
<1>2. PICK T \in Bad : \A U \in Bad : ~(U \subseteq T /\ U # T)
  <2>1. Bad \subseteq SUBSET S
    OBVIOUS
  <2>. HIDE DEF Bad
  <2>. QED BY <1>1, <2>1, LeastSet
<1>3. ASSUME NEW U \in SUBSET T, U # T PROVE Sums(G(U), w, U)
  <2>1. U \notin Bad
    BY <1>2, <1>3
  <2>2. \E f : Sums(f, w, U)
    BY <2>1, <1>2
  <2>. QED BY <2>2
<1>4. ASSUME NEW U \in SUBSET T, U # T, NEW V \in SUBSET U PROVE G(U)[V] = G(V)[V]
  <2>1. V # T /\ V \in SUBSET T
    BY <1>4
  <2>2. Sums(G(V), w, V) /\ Sums(G(U), w, U)
    BY <1>3, <1>4, <2>1
  <2>3. Sums([s \in SUBSET V |-> G(U)[s]], w, V)
    BY <2>2, SumsRestrict
  <2>4. IsFiniteSet(V)
    BY <1>2, <2>1, FS_Subset
  <2>5. [s \in SUBSET V |-> G(U)[s]][V] = G(V)[V]
    BY <2>2, <2>3, <2>4, SumsUnique
  <2>. QED BY <2>5
<1> DEFINE h == [s \in SUBSET T |-> IF s = {} THEN 0 ELSE w[Pick(s)] + G(s \ {Pick(s)})[s \ {Pick(s)}]]
<1>5. ASSUME NEW U \in SUBSET T, U # T PROVE h[U] = G(U)[U]
  <2>1. Sums(G(U), w, U)
    BY <1>3, <1>5
  <2>2. G(U)[U] = IF U = {} THEN 0 ELSE w[Pick(U)] + G(U)[U \ {Pick(U)}]
    BY <2>1, SumsOfSubsets
  <2>3. G(U)[U \ {Pick(U)}] = G(U \ {Pick(U)})[U \ {Pick(U)}]
    BY <1>4, <1>5
  <2>. HIDE DEF G
  <2>. QED BY <2>2, <2>3
<1>6. ASSUME NEW s \in SUBSET T
      PROVE  h[s] = IF s = {} THEN 0 ELSE w[Pick(s)] + h[s \ {Pick(s)}]
  <2>1. CASE s = {}
    BY <2>1
  <2>2. CASE s # {}
    <3>1. s \ {Pick(s)} \in SUBSET T /\ s \ {Pick(s)} # T
      BY <2>2, PickIsIn
    <3>2. h[s \ {Pick(s)}] = G(s \ {Pick(s)})[s \ {Pick(s)}]
      BY <1>5, <3>1
    <3>. HIDE DEF G
    <3>. QED BY <2>2, <3>2
  <2>. QED BY <2>1, <2>2
<1>7. Sums(h, w, T)
  <2>1. h = [s \in SUBSET T |-> IF s = {} THEN 0 ELSE w[Pick(s)] + h[s \ {Pick(s)}]]
    <3>. HIDE DEF G
    <3>1. DOMAIN h = SUBSET T
      OBVIOUS
    <3>. QED BY <1>6, <3>1
  <2>. HIDE DEF h
  <2>. QED BY <2>1 DEF Sums
<1>. QED BY <1>2, <1>7

\* What a fold of a finite set adds up.
SumOf(w, S) == (CHOOSE f : Sums(f, w, S))[S]

\* The sums a fold chooses are sums.
LEMMA SumOfPart ==
    ASSUME NEW S, IsFiniteSet(S), NEW w
    PROVE  Sums(CHOOSE f : Sums(f, w, S), w, S)
BY SumsExist

\* A sum of naturals up to m: the least subset whose sum is more would be one
\* member larger than one whose sum is not.
LEMMA SumOfNaturals ==
    ASSUME NEW S, IsFiniteSet(S), NEW w, NEW m \in Nat, \A x \in S : w[x] \in 0..m
    PROVE  SumOf(w, S) \in Nat /\ SumOf(w, S) <= m * Cardinality(S)
<1> DEFINE f == CHOOSE e : Sums(e, w, S)
           Bad == {s \in SUBSET S : ~(f[s] \in Nat /\ f[s] <= m * Cardinality(s))}
<1>1. Sums(f, w, S)
  BY SumOfPart
<1>. HIDE DEF f
<1>2. Bad = {}
  <2>1. SUFFICES ASSUME Bad # {} PROVE FALSE
    OBVIOUS
  <2>2. PICK s \in Bad : \A r \in Bad : ~(r \subseteq s /\ r # s)
    <3>1. Bad \subseteq SUBSET S
      OBVIOUS
    <3>. HIDE DEF Bad
    <3>. QED BY <2>1, <3>1, LeastSet
  <2>3. f[s] = IF s = {} THEN 0 ELSE w[Pick(s)] + f[s \ {Pick(s)}]
    BY <1>1, SumsOfSubsets
  <2>4. IsFiniteSet(s) /\ Cardinality(s) \in Nat
    BY FS_Subset, FS_CardinalityType
  <2>5. CASE s = {}
    BY <2>3, <2>5, FS_EmptySet
  <2>6. CASE s # {}
    <3> DEFINE r == s \ {Pick(s)}
    <3>1. r \in SUBSET S /\ r \notin Bad /\ Pick(s) \in S
      BY <2>2, <2>6, PickIsIn
    <3>2. f[r] \in Nat /\ f[r] <= m * Cardinality(r)
      BY <3>1
    <3>3. Cardinality(r) = Cardinality(s) - 1
      BY <2>4, <2>6, PickIsIn, FS_RemoveElement
    <3>4. w[Pick(s)] \in 0..m
      BY <3>1
    <3>5. m * Cardinality(r) + m = m * Cardinality(s)
      BY <2>4, <3>3
    <3>6. Cardinality(r) \in Nat
      BY <2>4, FS_RemoveElement, FS_CardinalityType
    <3>7. m * Cardinality(r) \in Int /\ m * Cardinality(s) \in Int
      BY <2>4, <3>6
    <3>. HIDE DEF r
    <3>8. f[s] = w[Pick(s)] + f[r]
      BY <2>3, <2>6 DEF r
    <3>9. f[s] \in Nat /\ f[s] <= m * Cardinality(s)
      BY <3>2, <3>4, <3>5, <3>7, <3>8
    <3>. QED BY <2>2, <3>9
  <2>. QED BY <2>5, <2>6
<1>3. f[S] \in Nat /\ f[S] <= m * Cardinality(S)
  BY <1>2
<1>. QED BY <1>3 DEF SumOf, f

\* Zeros add up to zero.
LEMMA SumOfZero ==
    ASSUME NEW S, IsFiniteSet(S), NEW w, \A x \in S : w[x] = 0
    PROVE  SumOf(w, S) = 0
<1>1. SumOf(w, S) \in Nat /\ SumOf(w, S) <= 0 * Cardinality(S)
  BY SumOfNaturals
<1>2. Cardinality(S) \in Nat
  BY FS_CardinalityType
<1>. QED BY <1>1, <1>2

\* One member more by d is a sum more by d.
LEMMA SumOfMore ==
    ASSUME NEW S, IsFiniteSet(S), NEW w, NEW b \in S, NEW d \in Nat, NEW v,
           \A x \in S : w[x] \in Nat, v[b] = w[b] + d, \A x \in S \ {b} : v[x] = w[x]
    PROVE  SumOf(w, S) \in Nat /\ SumOf(v, S) = SumOf(w, S) + d
<1> DEFINE f == CHOOSE e : Sums(e, w, S)
           g == CHOOSE e : Sums(e, v, S)
           Bad == {s \in SUBSET S : ~(f[s] \in Nat /\ g[s] = f[s] + IF b \in s THEN d ELSE 0)}
<1>1. Sums(f, w, S) /\ Sums(g, v, S)
  BY SumOfPart
<1>. HIDE DEF f, g
<1>2. Bad = {}
  <2>1. SUFFICES ASSUME Bad # {} PROVE FALSE
    OBVIOUS
  <2>2. PICK s \in Bad : \A r \in Bad : ~(r \subseteq s /\ r # s)
    <3>1. Bad \subseteq SUBSET S
      OBVIOUS
    <3>. HIDE DEF Bad
    <3>. QED BY <2>1, <3>1, LeastSet
  <2>3. /\ f[s] = IF s = {} THEN 0 ELSE w[Pick(s)] + f[s \ {Pick(s)}]
        /\ g[s] = IF s = {} THEN 0 ELSE v[Pick(s)] + g[s \ {Pick(s)}]
    <3>1. s \in SUBSET S
      BY <2>2
    <3>2. f[s] = IF s = {} THEN 0 ELSE w[Pick(s)] + f[s \ {Pick(s)}]
      <4>1. \A r \in SUBSET S : f[r] = IF r = {} THEN 0 ELSE w[Pick(r)] + f[r \ {Pick(r)}]
        BY <1>1, SumsOfSubsets
      <4>. QED BY <3>1, <4>1
    <3>3. g[s] = IF s = {} THEN 0 ELSE v[Pick(s)] + g[s \ {Pick(s)}]
      <4>1. \A r \in SUBSET S : g[r] = IF r = {} THEN 0 ELSE v[Pick(r)] + g[r \ {Pick(r)}]
        BY <1>1, SumsOfSubsets
      <4>. QED BY <3>1, <4>1
    <3>. QED BY <3>2, <3>3
  <2>4. CASE s = {}
    BY <2>2, <2>3, <2>4
  <2>5. CASE s # {}
    <3> DEFINE r == s \ {Pick(s)}
    <3>1. r \in SUBSET S /\ r \notin Bad /\ Pick(s) \in S /\ Pick(s) \in s
      BY <2>2, <2>5, PickIsIn
    <3>2. f[r] \in Nat /\ g[r] = f[r] + IF b \in r THEN d ELSE 0
      BY <3>1
    <3>3. CASE Pick(s) = b
      BY <2>2, <2>3, <2>5, <3>1, <3>2, <3>3
    <3>4. CASE Pick(s) # b
      BY <2>2, <2>3, <2>5, <3>1, <3>2, <3>4
    <3>. QED BY <3>3, <3>4
  <2>. QED BY <2>4, <2>5
<1>3. f[S] \in Nat /\ g[S] = f[S] + d
  BY <1>2
<1>. QED BY <1>3 DEF SumOf, f, g

\* The sum of a field of what is indexed.
LEMMA SumOfField ==
    ASSUME NEW S, NEW v, NEW w, \A t \in S : v[t].sm = w[t]
    PROVE  MapThenSumSet(LAMBDA t : v[t].sm, S) = SumOf(w, S)
<1> DEFINE P(f) == f = [s \in SUBSET S |-> IF s = {} THEN 0 ELSE v[Pick(s)].sm + f[s \ {Pick(s)}]]
<1>1. MapThenSumSet(LAMBDA t : v[t].sm, S) = (CHOOSE f : P(f))[S]
  BY DEF MapThenSumSet, MapThenFoldSet, Pick
<1>2. \A f : P(f) <=> Sums(f, w, S)
  <2>1. ASSUME NEW s \in SUBSET S, s # {} PROVE v[Pick(s)].sm = w[Pick(s)]
    BY <2>1, PickIsIn
  <2>2. ASSUME NEW f
        PROVE  [s \in SUBSET S |-> IF s = {} THEN 0 ELSE v[Pick(s)].sm + f[s \ {Pick(s)}]]
               = [s \in SUBSET S |-> IF s = {} THEN 0 ELSE w[Pick(s)] + f[s \ {Pick(s)}]]
    BY <2>1
  <2>. QED BY <2>2 DEF Sums
<1>. HIDE DEF P
<1>3. (CHOOSE f : P(f)) = (CHOOSE f : Sums(f, w, S))
  BY <1>2
<1>. QED BY <1>1, <1>3 DEF SumOf

-----------------------------------------------------------------------------
(* Sums of integers. *)

\* The sum over a part of S is among those of S.
LEMMA SumOfWithin ==
    ASSUME NEW S, IsFiniteSet(S), NEW w, NEW f, Sums(f, w, S), NEW T \in SUBSET S
    PROVE  SumOf(w, T) = f[T]
<1> DEFINE g == CHOOSE e : Sums(e, w, T)
<1>1. IsFiniteSet(T)
  BY FS_Subset
<1>2. Sums(g, w, T)
  BY <1>1, SumOfPart
<1>3. Sums([s \in SUBSET T |-> f[s]], w, T)
  BY SumsRestrict
<1>. HIDE DEF g
<1>4. [s \in SUBSET T |-> f[s]][T] = g[T]
  BY <1>1, <1>2, <1>3, SumsUnique
<1>. QED BY <1>4 DEF SumOf, g

\* The sum of nothing is zero.
LEMMA SumOfNone ==
    ASSUME NEW w
    PROVE  SumOf(w, {}) = 0
<1> DEFINE f == CHOOSE e : Sums(e, w, {})
<1>1. Sums(f, w, {})
  BY SumOfPart, FS_EmptySet
<1>. HIDE DEF f
<1>2. f[{}] = 0
  BY <1>1, SumsOfSubsets
<1>. QED BY <1>2 DEF SumOf, f

\* A sum is one member and the sum of the others, whichever member.
LEMMA SumOfTake ==
    ASSUME NEW S, IsFiniteSet(S), NEW w, \A x \in S : w[x] \in Int
    PROVE  /\ SumOf(w, S) \in Int
           /\ \A b \in S : SumOf(w, S) = w[b] + SumOf(w, S \ {b})
<1> DEFINE f == CHOOSE e : Sums(e, w, S)
           P == {T \in SUBSET S : f[T] \in Int /\ \A b \in T : f[T] = w[b] + f[T \ {b}]}
<1>1. Sums(f, w, S)
  BY SumOfPart
<1>. HIDE DEF f
<1>2. ASSUME NEW T \in SUBSET S, \A U \in SUBSET T : U # T => U \in P PROVE T \in P
  <2> DEFINE p == Pick(T)
  <2>1. f[T] = IF T = {} THEN 0 ELSE w[p] + f[T \ {p}]
    BY <1>1, SumsOfSubsets
  <2>2. CASE T = {}
    BY <2>1, <2>2
  <2>3. CASE T # {}
    <3>1. p \in T /\ T \ {p} \in SUBSET T /\ T \ {p} # T
      BY <2>3, PickIsIn
    <3>. HIDE DEF p
    <3>2. f[T \ {p}] \in Int /\ \A b \in T \ {p} : f[T \ {p}] = w[b] + f[(T \ {p}) \ {b}]
      BY <1>2, <3>1
    <3>3. f[T] \in Int
      BY <2>1, <2>3, <3>1, <3>2
    <3>4. ASSUME NEW b \in T, b # p PROVE f[T] = w[b] + f[T \ {b}]
      <4>1. T \ {b} \in SUBSET T /\ T \ {b} # T /\ p \in T \ {b} /\ b \in T \ {p}
        BY <3>1, <3>4
      <4>2. f[T \ {b}] = w[p] + f[(T \ {b}) \ {p}]
        BY <1>2, <4>1
      <4>3. f[T \ {p}] = w[b] + f[(T \ {p}) \ {b}]
        BY <3>2, <4>1
      <4>4. (T \ {p}) \ {b} = (T \ {b}) \ {p}
        OBVIOUS
      <4>5. (T \ {p}) \ {b} \in SUBSET T /\ (T \ {p}) \ {b} # T
        BY <4>1
      <4>6. f[(T \ {p}) \ {b}] \in Int
        BY <1>2, <4>5
      <4>7. f[T] = w[p] + (w[b] + f[(T \ {p}) \ {b}])
        BY <2>1, <2>3, <4>3
      <4>8. w[p] \in Int /\ w[b] \in Int
        BY <3>1
      <4>9. \A x, y, z \in Int : x + (y + z) = y + (x + z)
        OBVIOUS
      <4>10. f[T] = w[b] + (w[p] + f[(T \ {p}) \ {b}])
        BY <4>6, <4>7, <4>8, <4>9
      <4>. QED BY <4>2, <4>4, <4>10
    <3>5. f[T] = w[p] + f[T \ {p}]
      BY <2>1, <2>3
    <3>6. \A b \in T : f[T] = w[b] + f[T \ {b}]
      BY <3>4, <3>5
    <3>. QED BY <3>3, <3>6
  <2>. QED BY <2>2, <2>3
<1>3. S \in P
  <2>. HIDE DEF P
  <2>. QED BY <1>2, Shrinking
<1>4. SumOf(w, S) = f[S] /\ \A b \in S : SumOf(w, S \ {b}) = f[S \ {b}]
  BY <1>1, SumOfWithin
<1>. QED BY <1>3, <1>4

\* Sums of the same members.
LEMMA SumOfSame ==
    ASSUME NEW S, IsFiniteSet(S), NEW w, NEW v,
           \A x \in S : w[x] \in Int, \A x \in S : v[x] = w[x]
    PROVE  SumOf(v, S) = SumOf(w, S)
<1> DEFINE P == {T \in SUBSET S : SumOf(v, T) = SumOf(w, T)}
<1>1. ASSUME NEW T \in SUBSET S, \A U \in SUBSET T : U # T => U \in P PROVE T \in P
  <2>1. CASE T = {}
    BY <2>1, SumOfNone
  <2>2. CASE T # {}
    <3>1. PICK b \in T : TRUE
      BY <2>2
    <3>2. IsFiniteSet(T) /\ \A x \in T : w[x] \in Int /\ v[x] \in Int
      BY FS_Subset
    <3>3. SumOf(w, T) = w[b] + SumOf(w, T \ {b})
      BY <3>2, SumOfTake
    <3>4. SumOf(v, T) = v[b] + SumOf(v, T \ {b})
      BY <3>2, SumOfTake
    <3>5. SumOf(v, T \ {b}) = SumOf(w, T \ {b})
      BY <1>1
    <3>. QED BY <3>3, <3>4, <3>5
  <2>. QED BY <2>1, <2>2
<1>2. S \in P
  <2>. HIDE DEF P
  <2>. QED BY <1>1, Shrinking
<1>. QED BY <1>2

\* Sums of multiples.
LEMMA SumOfScaled ==
    ASSUME NEW S, IsFiniteSet(S), NEW w, NEW v, NEW c \in Int,
           \A x \in S : w[x] \in Int, \A x \in S : v[x] = w[x] * c
    PROVE  SumOf(w, S) * c = SumOf(v, S)
<1> DEFINE P == {T \in SUBSET S : SumOf(w, T) * c = SumOf(v, T)}
<1>1. ASSUME NEW T \in SUBSET S, \A U \in SUBSET T : U # T => U \in P PROVE T \in P
  <2>1. CASE T = {}
    BY <2>1, SumOfNone
  <2>2. CASE T # {}
    <3>1. PICK b \in T : TRUE
      BY <2>2
    <3>2. IsFiniteSet(T) /\ \A x \in T : w[x] \in Int /\ v[x] \in Int
      BY FS_Subset
    <3>3. SumOf(w, T) = w[b] + SumOf(w, T \ {b})
      BY <3>2, SumOfTake
    <3>4. SumOf(v, T) = v[b] + SumOf(v, T \ {b})
      BY <3>2, SumOfTake
    <3>5. SumOf(w, T \ {b}) * c = SumOf(v, T \ {b})
      BY <1>1
    <3>6. IsFiniteSet(T \ {b}) /\ \A x \in T \ {b} : w[x] \in Int
      BY <3>2, FS_RemoveElement
    <3>7. SumOf(w, T \ {b}) \in Int
      BY <3>6, SumOfTake
    <3>8. (w[b] + SumOf(w, T \ {b})) * c = w[b] * c + SumOf(w, T \ {b}) * c
      <4>1. \A x, y \in Int : (x + y) * c = x * c + y * c
        OBVIOUS
      <4>. QED BY <3>2, <3>7, <4>1
    <3>. QED BY <3>3, <3>4, <3>5, <3>8
  <2>. QED BY <2>1, <2>2
<1>2. S \in P
  <2>. HIDE DEF P
  <2>. QED BY <1>1, Shrinking
<1>. QED BY <1>2

\* A sum is as large as that of the bounds of its members.
LEMMA SumOfBounds ==
    ASSUME NEW S, IsFiniteSet(S), NEW w, NEW v,
           \A x \in S : w[x] \in Int /\ v[x] \in Int /\ w[x] <= v[x] /\ -v[x] <= w[x]
    PROVE  /\ SumOf(w, S) \in Int /\ SumOf(v, S) \in Int
           /\ SumOf(w, S) <= SumOf(v, S) /\ -SumOf(v, S) <= SumOf(w, S)
<1> DEFINE Bounded(T) == /\ SumOf(w, T) \in Int /\ SumOf(v, T) \in Int
                         /\ SumOf(w, T) <= SumOf(v, T) /\ -SumOf(v, T) <= SumOf(w, T)
           P == {T \in SUBSET S : Bounded(T)}
<1>1. ASSUME NEW T \in SUBSET S, \A U \in SUBSET T : U # T => U \in P PROVE T \in P
  <2>1. CASE T = {}
    BY <2>1, SumOfNone
  <2>2. CASE T # {}
    <3>1. PICK b \in T : TRUE
      BY <2>2
    <3>2. IsFiniteSet(T) /\ \A x \in T : w[x] \in Int /\ v[x] \in Int
      BY FS_Subset
    <3>3. SumOf(w, T) = w[b] + SumOf(w, T \ {b})
      BY <3>2, SumOfTake
    <3>4. SumOf(v, T) = v[b] + SumOf(v, T \ {b})
      BY <3>2, SumOfTake
    <3>5. Bounded(T \ {b})
      BY <1>1
    <3>6. w[b] \in Int /\ v[b] \in Int /\ w[b] <= v[b] /\ -v[b] <= w[b]
      OBVIOUS
    <3>7. Bounded(T)
      BY <3>3, <3>4, <3>5, <3>6
    <3>. QED BY <3>7
  <2>. QED BY <2>1, <2>2
<1>2. S \in P
  <2>. HIDE DEF P
  <2>. QED BY <1>1, Shrinking
<1>. QED BY <1>2

\* A part whose leavings are nothing is the whole, and otherwise less.
LEMMA SumOfPartial ==
    ASSUME NEW S, IsFiniteSet(S), NEW w, \A x \in S : w[x] \in Nat, NEW T \in SUBSET S
    PROVE  /\ SumOf(w, T) \in Nat /\ SumOf(w, S) \in Nat /\ SumOf(w, T) <= SumOf(w, S)
           /\ (\A x \in S \ T : w[x] = 0) => SumOf(w, T) = SumOf(w, S)
<1> DEFINE Holds(R) == /\ SumOf(w, T) \in Int /\ SumOf(w, R) \in Int
                       /\ 0 <= SumOf(w, T) /\ SumOf(w, T) <= SumOf(w, R)
                       /\ (\A x \in R \ T : w[x] = 0) => SumOf(w, T) = SumOf(w, R)
           P == {R \in SUBSET S : T \subseteq R => Holds(R)}
<1>0. /\ IsFiniteSet(T) /\ \A x \in T : w[x] \in Int
      /\ SumOf(w, T) \in Int /\ 0 <= SumOf(w, T)
  <2>1. IsFiniteSet(T) /\ \A x \in T : w[x] \in Int /\ w[x] <= w[x] /\ -w[x] <= w[x]
    BY FS_Subset
  <2>2. SumOf(w, T) \in Int /\ -SumOf(w, T) <= SumOf(w, T)
    BY <2>1, SumOfBounds
  <2>. QED BY <2>1, <2>2
<1>1. ASSUME NEW R \in SUBSET S, \A U \in SUBSET R : U # R => U \in P PROVE R \in P
  <2>1. SUFFICES ASSUME T \subseteq R PROVE Holds(R)
    OBVIOUS
  <2>2. CASE R = T
    BY <1>0, <2>2
  <2>3. CASE R # T
    <3>1. PICK b \in R : b \notin T
      BY <2>1, <2>3
    <3>2. IsFiniteSet(R) /\ \A x \in R : w[x] \in Int
      BY FS_Subset
    <3>3. SumOf(w, R) = w[b] + SumOf(w, R \ {b})
      BY <3>2, SumOfTake
    <3>4. R \ {b} \in P
      BY <1>1
    <3>5. Holds(R \ {b})
      BY <2>1, <3>1, <3>4
    <3>6. w[b] \in Nat
      OBVIOUS
    <3>7. SumOf(w, R) \in Int /\ SumOf(w, T) <= SumOf(w, R)
      BY <3>3, <3>5, <3>6
    <3>8. ASSUME \A x \in R \ T : w[x] = 0 PROVE SumOf(w, T) = SumOf(w, R)
      <4>1. w[b] = 0 /\ \A x \in (R \ {b}) \ T : w[x] = 0
        BY <3>1, <3>8
      <4>. QED BY <3>3, <3>5, <4>1
    <3>. QED BY <1>0, <3>7, <3>8
  <2>. QED BY <2>2, <2>3
<1>2. S \in P
  <2>. HIDE DEF P
  <2>. QED BY <1>1, Shrinking
<1>. QED BY <1>2

\* The same members under other names.
LEMMA SumOfRenamed ==
    ASSUME NEW S, IsFiniteSet(S), NEW R, NEW p \in Bijection(S, R), NEW w, NEW v,
           \A x \in S : v[p[x]] \in Int, \A x \in S : w[x] = v[p[x]]
    PROVE  SumOf(w, S) = SumOf(v, R)
<1> DEFINE I(T) == {p[x] : x \in T}
           P == {T \in SUBSET S : SumOf(w, T) = SumOf(v, I(T))}
<1>0. /\ p \in [S -> R] /\ \A a, b \in S : p[a] = p[b] => a = b
      /\ \A t \in R : \E s \in S : p[s] = t
  BY Fun_BijectionProperties
<1>1. ASSUME NEW T \in SUBSET S, \A U \in SUBSET T : U # T => U \in P PROVE T \in P
  <2>1. CASE T = {}
    <3>1. I(T) = {}
      BY <2>1
    <3>. QED BY <2>1, <3>1, SumOfNone
  <2>2. CASE T # {}
    <3>1. PICK b \in T : TRUE
      BY <2>2
    <3>2. IsFiniteSet(T) /\ \A x \in T : w[x] \in Int
      BY FS_Subset
    <3>3. IsFiniteSet(I(T)) /\ \A y \in I(T) : v[y] \in Int
      <4>1. IsFiniteSet(I(T))
        <5> DEFINE q == [x \in T |-> p[x]]
        <5>1. q \in Surjection(T, I(T))
          <6>1. q \in [T -> I(T)] /\ \A y \in I(T) : \E x \in T : q[x] = y
            OBVIOUS
          <6>. HIDE DEF q, I
          <6>. QED BY <6>1, Fun_IsSurj
        <5>. HIDE DEF q, I
        <5>. QED BY <3>2, <5>1, FS_Surjection
      <4>. QED BY <4>1
    <3>4. SumOf(w, T) = w[b] + SumOf(w, T \ {b})
      BY <3>2, SumOfTake
    <3>5. p[b] \in I(T)
      OBVIOUS
    <3>6. SumOf(v, I(T)) = v[p[b]] + SumOf(v, I(T) \ {p[b]})
      <4>. HIDE DEF I
      <4>. QED BY <3>3, <3>5, SumOfTake
    <3>7. I(T) \ {p[b]} = I(T \ {b})
      BY <1>0
    <3>8. SumOf(w, T \ {b}) = SumOf(v, I(T \ {b}))
      BY <1>1
    <3>9. SumOf(w, T) = SumOf(v, I(T))
      <4>. HIDE DEF I
      <4>. QED BY <3>4, <3>6, <3>7, <3>8
    <3>. QED BY <3>9
  <2>. QED BY <2>1, <2>2
<1>2. S \in P
  <2>. HIDE DEF P
  <2>. QED BY <1>1, Shrinking
<1>3. I(S) = R
  BY <1>0
<1>. QED BY <1>2, <1>3

\* What the sum of a function over a set, or over its domain, adds up.
LEMMA SumFunctionIs ==
    ASSUME NEW w, NEW S
    PROVE  SumFunctionOnSet(w, S) = SumOf(w, S)
<1> DEFINE P(f) == f = [s \in SUBSET S |-> IF s = {} THEN 0 ELSE w[Pick(s)] + f[s \ {Pick(s)}]]
<1>1. SumFunctionOnSet(w, S) = (CHOOSE f : P(f))[S]
  BY DEF SumFunctionOnSet, FoldFunctionOnSet, MapThenFoldSet, Pick
<1>2. \A f : P(f) <=> Sums(f, w, S)
  BY DEF Sums
<1>. HIDE DEF P
<1>3. (CHOOSE f : P(f)) = (CHOOSE f : Sums(f, w, S))
  BY <1>2
<1>. QED BY <1>1, <1>3 DEF SumOf

\* The sum of a function is the sum over its domain.
LEMMA SumFunctionAll ==
    ASSUME NEW w
    PROVE  SumFunction(w) = SumOf(w, DOMAIN w)
BY SumFunctionIs DEF SumFunction

-----------------------------------------------------------------------------
(* Sequences put together. *)

\* A sequence of sequences put together, one after the other: the parts of a
\* flattened sequence.
Joined(f, s, n) == f = [i \in 1..n |-> IF i = 1 THEN s[i] ELSE f[i - 1] \o s[i]]

\* The partial concatenations of a sequence of sequences are defined.
LEMMA JoinedExist ==
    ASSUME NEW s, NEW n \in Nat
    PROVE  \E f : Joined(f, s, n)
<1> DEFINE Bad == {m \in Nat : ~\E f : Joined(f, s, m)}
<1>1. SUFFICES ASSUME Bad # {} PROVE FALSE
  OBVIOUS
<1>2. PICK m \in Bad : \A k \in Bad : m <= k
  <2>. HIDE DEF Bad
  <2>1. Bad \subseteq Nat
    BY DEF Bad
  <2>. QED BY <1>1, <2>1, LeastNatural
<1>3. m # 0
  <2>1. Joined(<<>>, s, 0)
    BY DEF Joined
  <2>. QED BY <1>2, <2>1
<1>4. m - 1 \in Nat /\ m - 1 \notin Bad
  BY <1>2, <1>3
<1>5. PICK f : Joined(f, s, m - 1)
  BY <1>4
<1> DEFINE g == [i \in 1..m |-> IF i = 1 THEN s[i] ELSE f[i - 1] \o s[i]]
<1>6. ASSUME NEW i \in 1..m, i # 1 PROVE g[i - 1] = f[i - 1]
  <2>1. i - 1 \in 1..(m - 1) /\ i - 1 \in 1..m
    BY <1>4, <1>6
  <2>2. f[i - 1] = IF i - 1 = 1 THEN s[i - 1] ELSE f[(i - 1) - 1] \o s[i - 1]
    <3>1. \A j \in 1..(m - 1) : f[j] = IF j = 1 THEN s[j] ELSE f[j - 1] \o s[j]
      BY <1>5 DEF Joined
    <3>. QED BY <2>1, <3>1
  <2>3. g[i - 1] = IF i - 1 = 1 THEN s[i - 1] ELSE f[(i - 1) - 1] \o s[i - 1]
    BY <2>1
  <2>. QED BY <2>2, <2>3
<1>7. g = [i \in 1..m |-> IF i = 1 THEN s[i] ELSE g[i - 1] \o s[i]]
  BY <1>6
<1>8. Joined(g, s, m)
  <2>. HIDE DEF g
  <2>. QED BY <1>7 DEF Joined
<1>. QED BY <1>2, <1>8

\* A flattened sequence is the last of them.
LEMMA Flattened ==
    ASSUME NEW s, NEW n \in Nat \ {0}, Len(s) = n
    PROVE  \E f : Joined(f, s, n) /\ FlattenSeq(s) = f[n]
<1> DEFINE f == CHOOSE e : Joined(e, s, n)
<1>1. Joined(f, s, n)
  BY JoinedExist
<1>2. FlattenSeq(s) = f[n]
  BY DEF FlattenSeq, Joined
<1>. HIDE DEF f
<1>. QED BY <1>1, <1>2
=============================================================================
