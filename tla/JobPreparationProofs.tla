------------------------- MODULE JobPreparationProofs -------------------------
(***************************************************************************)
(* Proofs about JobPreparation, for any graphs, kernels, capacities and     *)
(* widths of the machine types.  The job in the staging buffers is the job  *)
(* at hand: a node's halves can be sorted, so that its row lists each edge  *)
(* of it once; rows follow one another, so that a position belongs to one   *)
(* half and is claimed by the edge of that half alone; and a sum over a     *)
(* row is the sum over the edges of its node.  Plans are sound: the scale   *)
(* is the coarsest that keeps every coefficient whole, and no field exceeds *)
(* the largest local field, which the plan compared with its limits.        *)
(*                                                                         *)
(* Graphs first, then their layout, the coefficients in it, the coloring,   *)
(* scales, local fields and plans; the inductive invariant comes last.      *)
(***************************************************************************)
EXTENDS JobPreparation, FoldLemmas

-----------------------------------------------------------------------------
(* Graphs and the halves of their edges. *)

IsGraph(g) ==
    /\ g.h \in Seq(Int \cup {OffGrid}) /\ g.j \in Seq(Int \cup {OffGrid})
    /\ g.edges \in Seq(Nat \X Nat)

\* Nodes and edges of a graph are finitely many, and an edge has two ends.
LEMMA GraphParts ==
    ASSUME NEW g, IsGraph(g)
    PROVE  /\ Len(g.h) \in Nat /\ Nodes(g) = 1..Len(g.h) /\ IsFiniteSet(Nodes(g))
           /\ Len(g.edges) \in Nat /\ Edges(g) = 1..Len(g.edges) /\ IsFiniteSet(Edges(g))
           /\ \A k \in Edges(g) : g.edges[k][1] \in Nat /\ g.edges[k][2] \in Nat
<1>1. /\ Len(g.h) \in Nat /\ Nodes(g) = 1..Len(g.h)
      /\ Len(g.edges) \in Nat /\ Edges(g) = 1..Len(g.edges)
      /\ \A k \in Edges(g) : g.edges[k] \in Nat \X Nat
  BY DEF IsGraph, Nodes, Edges
<1>2. \A k \in Edges(g) : g.edges[k][1] \in Nat /\ g.edges[k][2] \in Nat
  BY <1>1
<1>3. \A n \in Nat : IsFiniteSet(1..n)
  BY FS_Interval
<1>. QED BY <1>1, <1>2, <1>3

\* x is the half of edge k that node i lists.
HalfOf(g, i, k, x) ==
    /\ k \in Edges(g) /\ InRange(g, k)
    /\ \/ g.edges[k][1] = i /\ x = Half(g.edges[k][2], k, TRUE)
       \/ g.edges[k][2] = i /\ g.edges[k][1] # i /\ x = Half(g.edges[k][1], k, FALSE)

\* A node lists the halves of its edges and nothing else.
LEMMA HalvesAre ==
    ASSUME NEW g, NEW i, NEW x
    PROVE  x \in Halves(g, i) <=> \E k \in Edges(g) : HalfOf(g, i, k, x)
BY DEF Halves, HalfOf

\* A half names its edge and a neighbour in range.
LEMMA HalfIs ==
    ASSUME NEW g, IsGraph(g), NEW i, NEW x \in Halves(g, i)
    PROVE  /\ x.edge \in Edges(g) /\ HalfOf(g, i, x.edge, x)
           /\ x.nbr \in Nodes(g) /\ x.nbr \in Nat /\ x.forward \in BOOLEAN
           /\ i \in Nodes(g)
<1>1. PICK k \in Edges(g) : HalfOf(g, i, k, x)
  BY HalvesAre
<1>2. x.edge = k
  BY <1>1 DEF HalfOf, Half
<1>3. x.nbr \in Nodes(g) /\ i \in Nodes(g) /\ x.forward \in BOOLEAN
  <2>1. g.edges[k][1] \in Nodes(g) /\ g.edges[k][2] \in Nodes(g)
    BY <1>1 DEF HalfOf, InRange
  <2>2. x.nbr \in Nodes(g) /\ i \in Nodes(g)
    BY <1>1, <2>1 DEF HalfOf, Half
  <2>3. x.forward = TRUE \/ x.forward = FALSE
    BY <1>1 DEF HalfOf, Half
  <2>. QED BY <2>2, <2>3
<1>. QED BY <1>1, <1>2, <1>3, GraphParts

\* A node has finitely many halves.
LEMMA HalvesFinite ==
    ASSUME NEW g, IsGraph(g), NEW i
    PROVE  IsFiniteSet(Halves(g, i))
<1> DEFINE F == {e \in Edges(g) : InRange(g, e) /\ g.edges[e][1] = i}
           B == {e \in Edges(g) : InRange(g, e) /\ g.edges[e][2] = i /\ g.edges[e][1] # i}
           f == [k \in F |-> Half(g.edges[k][2], k, TRUE)]
           b == [k \in B |-> Half(g.edges[k][1], k, FALSE)]
<1>1. IsFiniteSet(F) /\ IsFiniteSet(B)
  <2>1. F \in SUBSET Edges(g) /\ B \in SUBSET Edges(g) /\ IsFiniteSet(Edges(g))
    BY GraphParts
  <2>. HIDE DEF F, B
  <2>. QED BY <2>1, FS_Subset
<1>2. IsFiniteSet({f[k] : k \in F}) /\ IsFiniteSet({b[k] : k \in B})
  <2>1. DOMAIN f = F /\ DOMAIN b = B
    OBVIOUS
  <2>. HIDE DEF F, B, f, b
  <2>. QED BY <1>1, <2>1, ImageFinite
<1>3. Halves(g, i) = {f[k] : k \in F} \cup {b[k] : k \in B}
  BY DEF Halves
<1>. HIDE DEF F, B, f, b
<1>. QED BY <1>2, <1>3, FS_Union

\* A set of halves has an order by neighbour.
Sorted(row, T) ==
    /\ row \in [1..Cardinality(T) -> T]
    /\ \A a, b \in 1..Cardinality(T) : row[a] = row[b] => a = b
    /\ \A a, b \in 1..Cardinality(T) : a < b => row[a].nbr <= row[b].nbr

\* The halves of a node can be put in order, so that its row is one: one more
\* half goes after all those whose neighbour is not larger.
LEMMA SortedExists ==
    ASSUME NEW g, IsGraph(g), NEW i
    PROVE  \E row : Sorted(row, Halves(g, i))
<1> DEFINE S == Halves(g, i)
           P == {T \in SUBSET S : \E row : Sorted(row, T)}
<1>0. IsFiniteSet(S) /\ \A x \in S : x.nbr \in Nat /\ x.nbr <= Len(g.h)
  BY HalvesFinite, HalfIs, GraphParts
<1>. HIDE DEF S
<1>1. ASSUME NEW T \in SUBSET S, \A U \in SUBSET T : U # T => U \in P PROVE T \in P
  <2>0. IsFiniteSet(T) /\ Cardinality(T) \in Nat
    BY <1>0, FS_Subset, FS_CardinalityType
  <2>1. CASE T = {}
    <3>1. Cardinality(T) = 0
      BY <2>1, FS_EmptySet
    <3>2. Sorted([a \in {} |-> a], T)
      BY <2>1, <3>1 DEF Sorted
    <3>. QED BY <3>2
  <2>2. CASE T # {}
    <3> DEFINE N == {x.nbr : x \in T}
    <3>1. PICK b \in T : \A x \in T : x.nbr <= b.nbr
      <4>1. N \subseteq Nat /\ N # {} /\ Len(g.h) \in Nat /\ \A y \in N : y <= Len(g.h)
        BY <1>0, <2>2, GraphParts
      <4>2. Max(N) \in N /\ \A y \in N : y <= Max(N)
        <5>. HIDE DEF N
        <5>. QED BY <4>1, Greatest
      <4>. QED BY <4>2
    <3> DEFINE U == T \ {b}
               n == Cardinality(T)
    <3>2. U \in SUBSET T /\ U # T
      BY <3>1
    <3>3. U \in P
      BY <1>1, <3>2
    <3>4. PICK r : Sorted(r, U)
      BY <3>3
    <3>5. Cardinality(U) = n - 1 /\ n \in Nat \ {0}
      <4>1. Cardinality(T \ {b}) = Cardinality(T) - 1
        BY <2>0, FS_RemoveElement
      <4>2. Cardinality(T) # 0
        BY <2>0, <2>2, FS_EmptySet
      <4>. QED BY <2>0, <4>1, <4>2
    <3> DEFINE row == [a \in 1..n |-> IF a = n THEN b ELSE r[a]]
    <3>. HIDE DEF U, n, P, N
    <3>6. /\ r \in [1..(n - 1) -> U]
          /\ \A a, c \in 1..(n - 1) : r[a] = r[c] => a = c
          /\ \A a, c \in 1..(n - 1) : a < c => r[a].nbr <= r[c].nbr
      BY <3>4, <3>5 DEF Sorted
    <3>7. \A a \in 1..n : a # n => a \in 1..(n - 1)
      BY <3>5
    <3>8. b \notin U /\ U \subseteq T
      BY DEF U
    <3>9. row \in [1..n -> T]
      BY <3>1, <3>6, <3>7, <3>8
    <3>10. ASSUME NEW a \in 1..n, NEW c \in 1..n, row[a] = row[c] PROVE a = c
      BY <3>6, <3>7, <3>8, <3>10
    <3>11. ASSUME NEW a \in 1..n, NEW c \in 1..n, a < c PROVE row[a].nbr <= row[c].nbr
      <4>1. a # n /\ a \in 1..(n - 1)
        BY <3>5, <3>11
      <4>2. CASE c = n
        <5>1. r[a] \in T
          BY <3>6, <3>8, <4>1
        <5>. QED BY <3>1, <4>1, <4>2, <5>1
      <4>3. CASE c # n
        <5>1. c \in 1..(n - 1)
          BY <3>7, <4>3
        <5>. QED BY <3>6, <3>11, <4>1, <4>3, <5>1
      <4>. QED BY <4>2, <4>3
    <3>12. Sorted(row, T)
      <4>. HIDE DEF row
      <4>. QED BY <3>9, <3>10, <3>11 DEF Sorted, n
    <3>. QED BY <3>12 DEF P
  <2>. QED BY <2>1, <2>2
<1>2. S \in P
  <2>. HIDE DEF P
  <2>. QED BY <1>0, <1>1, Shrinking
<1>. QED BY <1>2 DEF S

\* The row of a node lists its halves, each once.
LEMMA RowLists ==
    ASSUME NEW g, IsGraph(g), NEW i
    PROVE  /\ Cardinality(Halves(g, i)) \in Nat
           /\ Row(g, i) \in Bijection(1..Cardinality(Halves(g, i)), Halves(g, i))
           /\ DOMAIN Row(g, i) = 1..Cardinality(Halves(g, i))
<1> DEFINE S == Halves(g, i)
           n == Cardinality(S)
<1>1. IsFiniteSet(S) /\ n \in Nat
  BY HalvesFinite, FS_CardinalityType
<1>2. \E row : Sorted(row, S)
  BY SortedExists
<1>3. Row(g, i) \in [1..n -> S] /\ \A a, b \in 1..n : Row(g, i)[a] = Row(g, i)[b] => a = b
  BY <1>2 DEF Row, Sorted
<1>. HIDE DEF S
<1>4. Row(g, i) \in Injection(1..n, S)
  <2>. HIDE DEF n
  <2>. QED BY <1>3, Fun_IsInj
<1>5. IsFiniteSet(1..n) /\ Cardinality(1..n) = n
  BY <1>1, FS_Interval
<1>6. Row(g, i) \in Surjection(1..n, S)
  BY <1>1, <1>4, <1>5, FS_Injection
<1>. QED BY <1>1, <1>3, <1>4, <1>6, Fun_IsBij DEF S

-----------------------------------------------------------------------------
(* Positions. *)

Degree(g, i) == Cardinality(Halves(g, i))
Degrees(g)   == [m \in Nodes(g) |-> Degree(g, m)]
Total(g)     == SumOf(Degrees(g), Nodes(g))
Before(g, i) == {m \in Nodes(g) : m < i}

\* The rows of the nodes follow one another.
LEMMA RowsApart ==
    ASSUME NEW g, IsGraph(g), NEW i \in Nodes(g)
    PROVE  /\ RowStart(g, i) \in Nat /\ Degree(g, i) \in Nat
           /\ Total(g) \in Nat /\ RowStart(g, i) + Degree(g, i) <= Total(g)
           /\ \A m \in Nodes(g) : i < m => RowStart(g, i) + Degree(g, i) <= RowStart(g, m)
<1> DEFINE w == Degrees(g)
           D == Before(g, i) \cup {i}
<1>1. IsFiniteSet(Nodes(g)) /\ Nodes(g) \subseteq Nat
  BY GraphParts
<1>2. \A m \in Nodes(g) : Degree(g, m) \in Nat /\ w[m] = Degree(g, m)
  BY RowLists DEF Degree, Degrees
<1>3. \A m \in Nodes(g) : RowStart(g, m) = SumOf(w, Before(g, m)) /\ Before(g, m) \subseteq Nodes(g)
  BY SumFunctionIs DEF RowStart, Degrees, Degree, Before
<1>4. D \in SUBSET Nodes(g) /\ i \in D /\ D \ {i} = Before(g, i)
  BY <1>1 DEF Before
<1>5. \A m \in Nodes(g) : i < m => D \in SUBSET Before(g, m)
  BY <1>1 DEF Before
<1>. HIDE DEF w, D
<1>6. IsFiniteSet(D) /\ \A m \in D : w[m] \in Int
  BY <1>1, <1>2, <1>4, FS_Subset
<1>7. SumOf(w, D) = w[i] + SumOf(w, D \ {i})
  BY <1>4, <1>6, SumOfTake
<1>8. RowStart(g, i) + Degree(g, i) = SumOf(w, D) /\ RowStart(g, i) \in Nat
  <2>1. \A m \in Nodes(g) : w[m] \in Nat
    BY <1>2
  <2>2. Before(g, i) \in SUBSET Nodes(g)
    BY <1>3
  <2>3. SumOf(w, Before(g, i)) \in Nat
    BY <1>1, <2>1, <2>2, SumOfPartial
  <2>4. RowStart(g, i) = SumOf(w, Before(g, i)) /\ w[i] = Degree(g, i) /\ Degree(g, i) \in Nat
    BY <1>2, <1>3
  <2>. QED BY <1>4, <1>7, <2>3, <2>4
<1>9. SumOf(w, D) <= SumOf(w, Nodes(g)) /\ SumOf(w, Nodes(g)) \in Nat
  BY <1>1, <1>2, <1>4, SumOfPartial
<1>10. ASSUME NEW m \in Nodes(g), i < m PROVE SumOf(w, D) <= RowStart(g, m)
  <2>1. Before(g, m) \subseteq Nodes(g) /\ RowStart(g, m) = SumOf(w, Before(g, m))
    BY <1>3
  <2>2. IsFiniteSet(Before(g, m)) /\ \A x \in Before(g, m) : w[x] \in Nat
    BY <1>1, <1>2, <2>1, FS_Subset
  <2>3. D \in SUBSET Before(g, m)
    BY <1>5, <1>10
  <2>. QED BY <2>1, <2>2, <2>3, SumOfPartial
<1>. QED BY <1>2, <1>8, <1>9, <1>10 DEF Total, w

\* A position is one place of one row.
LEMMA Placed ==
    ASSUME NEW g, IsGraph(g), NEW i \in Nodes(g), NEW a \in 1..Degree(g, i)
    PROVE  /\ RowStart(g, i) + a \in 1..Total(g)
           /\ \A m \in Nodes(g) : \A c \in 1..Degree(g, m) :
                  RowStart(g, i) + a = RowStart(g, m) + c => i = m /\ a = c
<1>1. i \in Nat /\ \A m \in Nodes(g) : m \in Nat
  BY GraphParts
<1>2. /\ RowStart(g, i) \in Nat /\ Degree(g, i) \in Nat
      /\ Total(g) \in Nat /\ RowStart(g, i) + Degree(g, i) <= Total(g)
  BY RowsApart
<1>3. ASSUME NEW m \in Nodes(g), NEW c \in 1..Degree(g, m),
             RowStart(g, i) + a = RowStart(g, m) + c
      PROVE  i = m /\ a = c
  <2>1. RowStart(g, m) \in Nat /\ Degree(g, m) \in Nat
    BY RowsApart
  <2>2. i < m => RowStart(g, i) + Degree(g, i) <= RowStart(g, m)
    BY RowsApart
  <2>3. m < i => RowStart(g, m) + Degree(g, m) <= RowStart(g, i)
    BY RowsApart
  <2>4. i = m
    BY <1>1, <1>2, <1>3, <2>1, <2>2, <2>3
  <2>. QED BY <1>2, <1>3, <2>4
<1>4. RowStart(g, i) + a \in 1..Total(g)
  BY <1>2
<1>. QED BY <1>3, <1>4

-----------------------------------------------------------------------------
(* The topology of a graph. *)

Rows(g) == [i \in Nodes(g) |-> Row(g, i)]

\* top is the layout of the rows of g.
LaysOut(top, g) ==
    /\ top.n = Len(g.h) /\ Nnz(top) = Total(g)
    /\ \A i \in Nodes(g) : /\ top.rowStart[i] = RowStart(g, i)
                            /\ top.col[i] = [a \in 1..Degree(g, i) |-> Row(g, i)[a].nbr]
                            /\ Len(top.col[i]) = Degree(g, i)
    /\ \A k \in Edges(g) : /\ top.edgePos[k][1] = EdgePos(g, Rows(g), k, TRUE)
                            /\ top.edgePos[k][2] = EdgePos(g, Rows(g), k, FALSE)

\* The topology of a graph lays it out, row after row.
LEMMA TopologyIs ==
    ASSUME NEW g, IsGraph(g), NEW order, NEW top, top = Topology(g, order)
    PROVE  LaysOut(top, g) /\ top.color = GreedyColor(g, order)
<1>1. /\ top.n = Len(g.h)
      /\ top.rowStart = [i \in Nodes(g) |-> RowStart(g, i)]
      /\ top.col = [i \in Nodes(g) |-> [a \in DOMAIN Rows(g)[i] |-> Rows(g)[i][a].nbr]]
      /\ top.edgePos = [k \in Edges(g) |-> <<EdgePos(g, Rows(g), k, TRUE), EdgePos(g, Rows(g), k, FALSE)>>]
      /\ top.color = GreedyColor(g, order)
  BY DEF Topology, Rows
<1>2. ASSUME NEW i \in Nodes(g)
      PROVE  /\ top.col[i] = [a \in 1..Degree(g, i) |-> Row(g, i)[a].nbr]
             /\ Len(top.col[i]) = Degree(g, i)
  <2>1. DOMAIN Row(g, i) = 1..Degree(g, i) /\ Degree(g, i) \in Nat
    BY RowLists DEF Degree
  <2>2. Rows(g)[i] = Row(g, i)
    BY DEF Rows
  <2>3. top.col[i] = [a \in 1..Degree(g, i) |-> Row(g, i)[a].nbr]
    BY <1>1, <2>1, <2>2
  <2>. QED BY <2>1, <2>3
<1>3. Nnz(top) = Total(g)
  <2>1. Nodes(g) = 1..top.n
    BY <1>1, GraphParts
  <2>2. [i \in 1..top.n |-> Len(top.col[i])] = Degrees(g)
    BY <1>2, <2>1 DEF Degrees
  <2>3. DOMAIN Degrees(g) = Nodes(g)
    BY DEF Degrees
  <2>4. SumFunction(Degrees(g)) = SumOf(Degrees(g), Nodes(g))
    BY <2>3, SumFunctionAll
  <2>. QED BY <2>2, <2>4 DEF Nnz, Total
<1>. QED BY <1>1, <1>2, <1>3 DEF LaysOut

\* Every half of an edge has the position of its place in the rows.
LEMMA PositionOf ==
    ASSUME NEW g, IsGraph(g), NEW i \in Nodes(g), NEW a \in 1..Degree(g, i)
    PROVE  /\ Row(g, i)[a] \in Halves(g, i)
           /\ EdgePos(g, Rows(g), Row(g, i)[a].edge, Row(g, i)[a].forward) = RowStart(g, i) + a
<1> DEFINE x == Row(g, i)[a]
           At(m) == {c \in DOMAIN Rows(g)[m] : Rows(g)[m][c].edge = x.edge /\ Rows(g)[m][c].forward = x.forward}
           owner == {m \in Nodes(g) : At(m) # {}}
<1>1. ASSUME NEW m \in Nodes(g)
      PROVE  /\ Rows(g)[m] = Row(g, m) /\ DOMAIN Row(g, m) = 1..Degree(g, m)
             /\ \A c \in 1..Degree(g, m) : Row(g, m)[c] \in Halves(g, m)
             /\ \A c, d \in 1..Degree(g, m) : Row(g, m)[c] = Row(g, m)[d] => c = d
  <2>1. /\ Row(g, m) \in Bijection(1..Degree(g, m), Halves(g, m))
        /\ DOMAIN Row(g, m) = 1..Degree(g, m)
    BY RowLists DEF Degree
  <2>2. /\ Row(g, m) \in [1..Degree(g, m) -> Halves(g, m)]
        /\ \A c, d \in 1..Degree(g, m) : Row(g, m)[c] = Row(g, m)[d] => c = d
    <3>1. \A S, T : \A f \in Bijection(S, T) :
              f \in [S -> T] /\ \A c, d \in S : f[c] = f[d] => c = d
      BY Fun_BijectionProperties
    <3>. QED BY <2>1, <3>1
  <2>. QED BY <2>1, <2>2 DEF Rows
<1>2. x \in Halves(g, i)
  BY <1>1
<1>. HIDE DEF x
<1>3. ASSUME NEW m \in Nodes(g), NEW c \in 1..Degree(g, m),
             Row(g, m)[c].edge = x.edge, Row(g, m)[c].forward = x.forward
      PROVE  m = i /\ c = a
  <2> DEFINE y == Row(g, m)[c]
  <2>1. y \in Halves(g, m)
    BY <1>1
  <2>. HIDE DEF y
  <2>2. HalfOf(g, m, y.edge, y) /\ HalfOf(g, i, x.edge, x)
    BY <1>2, <2>1, HalfIs
  <2>3. y.edge = x.edge /\ y.forward = x.forward
    BY <1>3 DEF y
  <2>4. m = i /\ y = x
    BY <2>2, <2>3 DEF HalfOf, Half
  <2>5. Row(g, i)[c] = Row(g, i)[a] /\ c \in 1..Degree(g, i)
    BY <2>4 DEF x, y
  <2>6. \A e, d \in 1..Degree(g, i) : Row(g, i)[e] = Row(g, i)[d] => e = d
    BY <1>1
  <2>. QED BY <2>4, <2>5, <2>6
<1>4. At(i) = {a}
  <2>1. Rows(g)[i] = Row(g, i) /\ DOMAIN Row(g, i) = 1..Degree(g, i)
    BY <1>1
  <2>. QED BY <1>3, <2>1 DEF x
<1>5. owner = {i}
  <2>1. ASSUME NEW m \in owner PROVE m = i
    <3>1. PICK c \in At(m) : TRUE
      BY <2>1
    <3>2. Rows(g)[m] = Row(g, m) /\ DOMAIN Row(g, m) = 1..Degree(g, m)
      BY <1>1
    <3>. QED BY <1>3, <3>1, <3>2
  <2>. QED BY <1>4, <2>1
<1>6. EdgePos(g, Rows(g), x.edge, x.forward) =
          IF owner = {} THEN 1
          ELSE RowStart(g, CHOOSE n \in owner : TRUE)
                   + (CHOOSE c \in At(CHOOSE n \in owner : TRUE) : TRUE)
  BY DEF EdgePos
<1>. HIDE DEF owner, At
<1>7. (CHOOSE n \in owner : TRUE) = i
  BY <1>5
<1>8. (CHOOSE c \in At(i) : TRUE) = a
  BY <1>4
<1>9. EdgePos(g, Rows(g), x.edge, x.forward) = RowStart(g, i) + a
  BY <1>5, <1>6, <1>7, <1>8
<1>. QED BY <1>2, <1>9 DEF x

\* A half has a place.
LEMMA PlaceOf ==
    ASSUME NEW g, IsGraph(g), NEW i, NEW x \in Halves(g, i)
    PROVE  \E a \in 1..Degree(g, i) : Row(g, i)[a] = x
<1>1. Row(g, i) \in Bijection(1..Degree(g, i), Halves(g, i))
  BY RowLists DEF Degree
<1>2. \A y \in Halves(g, i) : \E a \in 1..Degree(g, i) : Row(g, i)[a] = y
  BY <1>1 DEF Bijection, Surjection
<1>. QED BY <1>2

\* The edges that write a position: the one whose half is there.
Claims(top, g, pos) == {k \in Edges(g) : pos \in Written(top, g, k)}

\* A position of a row is written by the edge whose half is there, and by no
\* other.
LEMMA ClaimsAre ==
    ASSUME NEW g, IsGraph(g), NEW top, LaysOut(top, g),
           NEW i \in Nodes(g), NEW a \in 1..Degree(g, i)
    PROVE  Claims(top, g, RowStart(g, i) + a) = {Row(g, i)[a].edge}
<1>0. \A k \in Edges(g) : /\ top.edgePos[k][1] = EdgePos(g, Rows(g), k, TRUE)
                          /\ top.edgePos[k][2] = EdgePos(g, Rows(g), k, FALSE)
  BY DEF LaysOut
<1> DEFINE x == Row(g, i)[a]
           pos == RowStart(g, i) + a
<1>1. x \in Halves(g, i) /\ EdgePos(g, Rows(g), x.edge, x.forward) = pos
  BY PositionOf
<1>. HIDE DEF x, pos
<1>2. x.edge \in Edges(g) /\ HalfOf(g, i, x.edge, x)
  BY <1>1, HalfIs
<1>4. pos \in Written(top, g, x.edge)
  <2>1. CASE x.forward
    <3>1. x.forward = TRUE
      BY <1>2, <2>1 DEF HalfOf, Half
    <3>2. top.edgePos[x.edge][1] = pos
      BY <1>0, <1>1, <1>2, <3>1
    <3>. QED BY <1>2, <3>2 DEF Written, HalfOf
  <2>2. CASE ~x.forward
    <3>1. x.forward = FALSE /\ g.edges[x.edge][1] # g.edges[x.edge][2]
      BY <1>2, <2>2 DEF HalfOf, Half
    <3>2. top.edgePos[x.edge][2] = pos
      BY <1>0, <1>1, <1>2, <3>1
    <3>. QED BY <1>2, <3>1, <3>2 DEF Written, HalfOf
  <2>. QED BY <2>1, <2>2
<1>5. ASSUME NEW k \in Edges(g), pos \in Written(top, g, k) PROVE k = x.edge
  <2>1. InRange(g, k)
    BY <1>5 DEF Written
  <2>2. \E m \in Nodes(g) : \E y \in Halves(g, m) :
            y.edge = k /\ EdgePos(g, Rows(g), y.edge, y.forward) = pos
    <3>1. g.edges[k][1] \in Nodes(g) /\ g.edges[k][2] \in Nodes(g)
      BY <2>1 DEF InRange
    <3>2. CASE pos = top.edgePos[k][1]
      <4> DEFINE y == Half(g.edges[k][2], k, TRUE)
      <4>1. HalfOf(g, g.edges[k][1], k, y)
        BY <2>1 DEF HalfOf
      <4>2. y \in Halves(g, g.edges[k][1])
        BY <4>1, HalvesAre
      <4>3. y.edge = k /\ y.forward = TRUE
        BY DEF Half
      <4>4. EdgePos(g, Rows(g), y.edge, y.forward) = pos
        BY <1>0, <3>2, <4>3
      <4>. QED BY <3>1, <4>2, <4>3, <4>4
    <3>3. CASE pos = top.edgePos[k][2] /\ g.edges[k][1] # g.edges[k][2]
      <4> DEFINE y == Half(g.edges[k][1], k, FALSE)
      <4>1. HalfOf(g, g.edges[k][2], k, y)
        BY <2>1, <3>3 DEF HalfOf
      <4>2. y \in Halves(g, g.edges[k][2])
        BY <4>1, HalvesAre
      <4>3. y.edge = k /\ y.forward = FALSE
        BY DEF Half
      <4>4. EdgePos(g, Rows(g), y.edge, y.forward) = pos
        BY <1>0, <3>3, <4>3
      <4>. QED BY <3>1, <4>2, <4>3, <4>4
    <3>. QED BY <1>5, <2>1, <3>2, <3>3 DEF Written
  <2>3. PICK m \in Nodes(g) : \E y \in Halves(g, m) :
            y.edge = k /\ EdgePos(g, Rows(g), y.edge, y.forward) = pos
    BY <2>2
  <2>4. PICK y \in Halves(g, m) : y.edge = k /\ EdgePos(g, Rows(g), y.edge, y.forward) = pos
    BY <2>3
  <2>5. PICK c \in 1..Degree(g, m) : Row(g, m)[c] = y
    BY PlaceOf
  <2>6. EdgePos(g, Rows(g), y.edge, y.forward) = RowStart(g, m) + c
    BY <2>5, PositionOf
  <2>7. i = m /\ a = c
    <3>1. RowStart(g, i) + a = RowStart(g, m) + c
      BY <2>4, <2>6 DEF pos
    <3>. QED BY <3>1, Placed
  <2>. QED BY <2>4, <2>5, <2>7 DEF x
<1>. QED BY <1>2, <1>4, <1>5 DEF Claims, x, pos

-----------------------------------------------------------------------------
(* The edges of a node. *)

Incident(g, i)  == {e \in Edges(g) : InRange(g, e) /\ i \in {g.edges[e][1], g.edges[e][2]}}
Across(g, i, k) == IF g.edges[k][1] = i THEN g.edges[k][2] ELSE g.edges[k][1]

\* A row lists each of them once, by the node across.
LEMMA RowEdges ==
    ASSUME NEW g, IsGraph(g), NEW i \in Nodes(g)
    PROVE  /\ [a \in 1..Degree(g, i) |-> Row(g, i)[a].edge]
                  \in Bijection(1..Degree(g, i), Incident(g, i))
           /\ \A a \in 1..Degree(g, i) :
                  /\ Row(g, i)[a].edge \in Incident(g, i) /\ Row(g, i)[a].nbr \in Nodes(g)
                  /\ Row(g, i)[a].nbr = Across(g, i, Row(g, i)[a].edge)
<1> DEFINE r == Row(g, i)
           n == Degree(g, i)
           f == [a \in 1..n |-> r[a].edge]
<1>1. /\ r \in [1..n -> Halves(g, i)]
      /\ \A a, b \in 1..n : r[a] = r[b] => a = b
      /\ \A x \in Halves(g, i) : \E a \in 1..n : r[a] = x
  <2>1. r \in Bijection(1..n, Halves(g, i))
    BY RowLists DEF Degree
  <2>2. \A x \in Halves(g, i) : \E a \in 1..n : r[a] = x
    BY PlaceOf
  <2>3. r \in [1..n -> Halves(g, i)] /\ \A a, b \in 1..n : r[a] = r[b] => a = b
    <3>. HIDE DEF r, n
    <3>. QED BY <2>1, Fun_BijectionProperties
  <2>. QED BY <2>2, <2>3
<1>. HIDE DEF r, n
<1>2. ASSUME NEW x \in Halves(g, i)
      PROVE  /\ x.edge \in Incident(g, i) /\ x.nbr \in Nodes(g) /\ x.nbr = Across(g, i, x.edge)
             /\ x = IF g.edges[x.edge][1] = i THEN Half(g.edges[x.edge][2], x.edge, TRUE)
                    ELSE Half(g.edges[x.edge][1], x.edge, FALSE)
  <2>1. x.edge \in Edges(g) /\ HalfOf(g, i, x.edge, x) /\ x.nbr \in Nodes(g)
    BY HalfIs
  <2>2. x.edge \in Incident(g, i)
    BY <2>1 DEF HalfOf, Incident
  <2>3. x.nbr = Across(g, i, x.edge)
    BY <2>1 DEF HalfOf, Across, Half
  <2>4. x = IF g.edges[x.edge][1] = i THEN Half(g.edges[x.edge][2], x.edge, TRUE)
            ELSE Half(g.edges[x.edge][1], x.edge, FALSE)
    BY <2>1 DEF HalfOf
  <2>. QED BY <2>1, <2>2, <2>3, <2>4
<1>3. \A a \in 1..n : /\ r[a].edge \in Incident(g, i) /\ r[a].nbr \in Nodes(g)
                      /\ r[a].nbr = Across(g, i, r[a].edge)
  BY <1>1, <1>2
<1>4. f \in [1..n -> Incident(g, i)]
  BY <1>3
<1>5. ASSUME NEW a \in 1..n, NEW b \in 1..n, f[a] = f[b] PROVE a = b
  <2>1. r[a].edge = r[b].edge /\ r[a] \in Halves(g, i) /\ r[b] \in Halves(g, i)
    BY <1>1, <1>5
  <2>2. r[a] = r[b]
    BY <1>2, <2>1
  <2>. QED BY <1>1, <2>2
<1>6. ASSUME NEW k \in Incident(g, i) PROVE \E a \in 1..n : f[a] = k
  <2> DEFINE x == IF g.edges[k][1] = i THEN Half(g.edges[k][2], k, TRUE)
                  ELSE Half(g.edges[k][1], k, FALSE)
  <2>1. HalfOf(g, i, k, x) /\ k \in Edges(g)
    BY DEF HalfOf, Incident
  <2>2. x.edge = k
    BY DEF Half
  <2>3. x \in Halves(g, i)
    BY <2>1, HalvesAre
  <2>. HIDE DEF x
  <2>4. PICK a \in 1..n : r[a] = x
    BY <1>1, <2>3
  <2>5. f[a] = k
    BY <2>2, <2>4
  <2>. QED BY <2>5
<1>7. f \in Bijection(1..n, Incident(g, i))
  <2>. HIDE DEF f
  <2>. QED BY <1>4, <1>5, <1>6, Fun_IsBij
<1>. QED BY <1>3, <1>7 DEF r, n

-----------------------------------------------------------------------------
(* Coefficients in kernel units. *)

\* The negative of a multiple.
LEMMA NegativeMultiple ==
    ASSUME NEW v \in Int, NEW s \in Nat \ {0}, v < 0
    PROVE  /\ v % s = 0 <=> (-v) % s = 0
           /\ v % s = 0 => -((-v) \div s) * s = v
<1>1. ASSUME v % s = 0 PROVE (-v) % s = 0 /\ -((-v) \div s) * s = v
  <2> DEFINE q == -(v \div s)
  <2>1. v = s * (v \div s) /\ v \div s \in Int
    BY <1>1
  <2>2. \A x \in Int : s * x < 0 => x < 0
    OBVIOUS
  <2>3. q \in Nat
    BY <2>1, <2>2
  <2>4. -v = q * s + 0
    <3>1. \A x \in Int : -(s * x) = (-x) * s
      OBVIOUS
    <3>. QED BY <2>1, <3>1
  <2>. HIDE DEF q
  <2>5. (q * s + 0) \div s = q /\ (q * s + 0) % s = 0
    BY <2>3, DivMod
  <2>6. (-v) \div s = q /\ (-v) % s = 0
    BY <2>4, <2>5
  <2>7. -q * s = v
    <3>1. \A x \in Nat : -(x * s + 0) = -x * s
      OBVIOUS
    <3>2. -(-v) = v
      OBVIOUS
    <3>. QED BY <2>3, <2>4, <3>1, <3>2
  <2>. QED BY <2>6, <2>7
<1>2. ASSUME (-v) % s = 0 PROVE v % s = 0
  <2>1. -v \in Nat
    OBVIOUS
  <2>2. PICK d \in Nat : -v = s * d
    BY <1>2, <2>1, Divisor
  <2>3. v = s * (-d)
    <3>1. s * (-d) = -(s * d)
      OBVIOUS
    <3>. QED BY <2>2, <3>1
  <2>4. \A x \in Int : (s * x) % s = 0
    OBVIOUS
  <2>. QED BY <2>3, <2>4
<1>. QED BY <1>1, <1>2

\* A coefficient in kernel units is the coefficient.
LEMMA ScaledIs ==
    ASSUME NEW v \in Int \cup {OffGrid}, NEW s \in Nat \ {0}, NEW path,
           Scaled(v, s, path) # None
    PROVE  v \in Int /\ Scaled(v, s, path) \in Int /\ Scaled(v, s, path) * s = v
<1> DEFINE unit == IF v < 0 THEN -((-v) \div s) ELSE v \div s
<1>1. v \in Int /\ v % s = 0 /\ Scaled(v, s, path) = unit
  BY DEF Scaled
<1>2. CASE v < 0
  <2>1. (-v) \div s \in Int
    BY <1>1
  <2>2. -((-v) \div s) * s = v
    BY <1>1, <1>2, NegativeMultiple
  <2>. QED BY <1>1, <1>2, <2>1, <2>2
<1>3. CASE ~(v < 0)
  <2>1. v \in Nat
    BY <1>1, <1>3
  <2>2. v = s * (v \div s) /\ v \div s \in Nat
    BY <1>1, <2>1
  <2>3. s * (v \div s) = (v \div s) * s
    BY <2>2
  <2>. QED BY <1>1, <1>3, <2>2, <2>3
<1>. QED BY <1>2, <1>3

-----------------------------------------------------------------------------
(* The field the kernel reads. *)

SameShape(g, g0) == Len(g.h) = Len(g0.h) /\ g.edges = g0.edges

\* Two graphs with the same nodes and edges are laid out alike.
LEMMA ShapeIs ==
    ASSUME NEW g, IsGraph(g), NEW g0, IsGraph(g0), SameShape(g, g0)
    PROVE  /\ Nodes(g) = Nodes(g0) /\ Edges(g) = Edges(g0)
           /\ \A k : InRange(g, k) <=> InRange(g0, k)
           /\ \A i : Incident(g, i) = Incident(g0, i)
           /\ \A i, k : Across(g, i, k) = Across(g0, i, k)
           /\ \A top, pos : Claims(top, g, pos) = Claims(top, g0, pos)
<1>1. Nodes(g) = Nodes(g0) /\ Edges(g) = Edges(g0)
  BY GraphParts DEF SameShape
<1>2. \A k : InRange(g, k) <=> InRange(g0, k)
  BY <1>1 DEF InRange, SameShape
<1>3. \A i : Incident(g, i) = Incident(g0, i)
  BY <1>1, <1>2 DEF Incident, SameShape
<1>4. \A i, k : Across(g, i, k) = Across(g0, i, k)
  BY DEF Across, SameShape
<1>5. \A top, k : Written(top, g, k) = Written(top, g0, k)
  BY <1>2 DEF Written, SameShape
<1>6. \A top, pos : Claims(top, g, pos) = Claims(top, g0, pos)
  BY <1>1, <1>5 DEF Claims
<1>. QED BY <1>1, <1>2, <1>3, <1>4, <1>6

\* The job at hand is staged in the layout of the seed g0.
StagedFor(g0) ==
    /\ IsGraph(model) /\ IsGraph(g0) /\ SameShape(model, g0) /\ LaysOut(topology, g0)
    /\ staged = FillCoefficients(topology, model, sessionPlan) /\ staged # None
    /\ sessionPlan.scale \in Nat \ {0}

\* What is in the staging buffers: the fields of the nodes, at the positions of
\* a row the couplings of its edges, and zero or a coupling everywhere.
LEMMA StagedIs ==
    ASSUME NEW g0, StagedFor(g0)
    PROVE  /\ \A i \in Nodes(g0) :
                  /\ Scaled(model.h[i], sessionPlan.scale, sessionPlan.path) # None
                  /\ staged.h[i] = Scaled(model.h[i], sessionPlan.scale, sessionPlan.path)
           /\ \A k \in Edges(g0) : InRange(g0, k) => Coupling(model, k, sessionPlan) # None
           /\ \A i \in Nodes(g0) : \A a \in 1..Degree(g0, i) :
                  staged.j[RowStart(g0, i) + a] = Coupling(model, Row(g0, i)[a].edge, sessionPlan)
           /\ DOMAIN staged.j = 1..Nnz(topology)
           /\ \A pos \in DOMAIN staged.j : staged.j[pos] = 0
                  \/ \E k \in Edges(g0) : InRange(g0, k) /\ staged.j[pos] = Coupling(model, k, sessionPlan)
<1> DEFINE p == sessionPlan
           h == [i \in Nodes(model) |-> Scaled(model.h[i], p.scale, p.path)]
           j == [pos \in 1..Nnz(topology) |->
                    IF Claims(topology, model, pos) = {} THEN 0
                    ELSE Coupling(model, Max(Claims(topology, model, pos)), p)]
<1>1. /\ ~\E i \in Nodes(model) : h[i] = None
      /\ ~\E k \in Edges(model) : InRange(model, k) /\ Coupling(model, k, p) = None
      /\ staged = [h |-> h, j |-> j]
  BY DEF StagedFor, FillCoefficients, Claims
<1>2. /\ Nodes(model) = Nodes(g0) /\ Edges(model) = Edges(g0)
      /\ \A k : InRange(model, k) <=> InRange(g0, k)
      /\ \A pos : Claims(topology, model, pos) = Claims(topology, g0, pos)
  BY ShapeIs DEF StagedFor
<1>3. staged.h = h /\ staged.j = j
  BY <1>1
<1>4. ASSUME NEW i \in Nodes(g0), NEW a \in 1..Degree(g0, i)
      PROVE  staged.j[RowStart(g0, i) + a] = Coupling(model, Row(g0, i)[a].edge, p)
  <2> DEFINE pos == RowStart(g0, i) + a
             k == Row(g0, i)[a].edge
  <2>1. Claims(topology, g0, pos) = {k}
    BY ClaimsAre DEF StagedFor
  <2>2. pos \in 1..Nnz(topology)
    BY Placed DEF StagedFor, LaysOut
  <2>3. k \in Int
    <3>1. k \in Incident(g0, i)
      BY RowEdges DEF StagedFor
    <3>2. k \in Edges(g0) /\ Edges(g0) \subseteq Int
      BY <3>1, GraphParts DEF StagedFor, Incident
    <3>. QED BY <3>2
  <2>. HIDE DEF k
  <2>4. Max({k}) = k
    BY <2>3 DEF Max
  <2>5. staged.j[pos] = Coupling(model, k, p)
    <3>. HIDE DEF pos
    <3>. QED BY <1>2, <1>3, <2>1, <2>2, <2>4
  <2>. QED BY <2>5 DEF k
<1>5. ASSUME NEW pos \in DOMAIN staged.j, staged.j[pos] # 0
      PROVE  \E k \in Edges(g0) : InRange(g0, k) /\ staged.j[pos] = Coupling(model, k, p)
  <2> DEFINE C == Claims(topology, g0, pos)
  <2>1. C # {} /\ staged.j[pos] = Coupling(model, Max(C), p)
    BY <1>2, <1>3, <1>5
  <2>2. C \subseteq Edges(g0) /\ \A k \in C : InRange(g0, k)
    BY DEF Claims, Written
  <2>3. C \subseteq Nat /\ IsFiniteSet(C)
    <3>1. IsFiniteSet(Edges(g0)) /\ Edges(g0) \subseteq Nat
      BY GraphParts DEF StagedFor
    <3>. HIDE DEF C
    <3>. QED BY <2>2, <3>1, FS_Subset
  <2>4. Max(C) \in C
    <3>. HIDE DEF C
    <3>. QED BY <2>1, <2>3, GreatestOf
  <2>. QED BY <2>1, <2>2, <2>4
<1>. QED BY <1>1, <1>2, <1>3, <1>4, <1>5

\* The field of a node as the kernel reads it is the model's.
LEMMA FieldIs ==
    ASSUME NEW g0, StagedFor(g0), NEW s \in Spins(model), NEW i \in Nodes(model)
    PROVE  /\ KernelField(s, i) \in Int
           /\ KernelField(s, i) * sessionPlan.scale = ModelField(s, i)
<1> DEFINE scale == sessionPlan.scale
           n == Degree(g0, i)
           r == Row(g0, i)
           w == [a \in DOMAIN topology.col[i] |->
                    staged.j[topology.rowStart[i] + a] * s[topology.col[i][a]]]
           v == [a \in 1..n |-> Given(model, r[a].edge) * s[r[a].nbr]]
           m == [k \in Incident(model, i) |-> Given(model, k) * s[Across(model, i, k)]]
           e == [a \in 1..n |-> r[a].edge]
<1>1. i \in Nodes(g0) /\ Nodes(model) = Nodes(g0) /\ Edges(model) = Edges(g0)
      /\ Incident(model, i) = Incident(g0, i) /\ IsGraph(g0) /\ IsGraph(model)
      /\ \A k : /\ InRange(model, k) <=> InRange(g0, k)
               /\ Across(model, i, k) = Across(g0, i, k)
  BY ShapeIs DEF StagedFor
<1>2. /\ n \in Nat /\ DOMAIN w = 1..n
      /\ \A a \in 1..n : w[a] = Coupling(model, r[a].edge, sessionPlan) * s[r[a].nbr]
  <2>1. /\ topology.rowStart[i] = RowStart(g0, i)
        /\ topology.col[i] = [a \in 1..n |-> r[a].nbr]
    BY <1>1 DEF StagedFor, LaysOut
  <2>2. \A a \in 1..n : staged.j[RowStart(g0, i) + a] = Coupling(model, r[a].edge, sessionPlan)
    BY <1>1, StagedIs
  <2>3. n \in Nat
    BY <1>1, RowLists DEF Degree
  <2>. QED BY <2>1, <2>2, <2>3
<1>3. /\ e \in Bijection(1..n, Incident(model, i))
      /\ \A a \in 1..n : /\ r[a].edge \in Incident(model, i) /\ r[a].nbr \in Nodes(model)
                          /\ r[a].nbr = Across(model, i, r[a].edge)
  <2>1. /\ e \in Bijection(1..n, Incident(g0, i))
        /\ \A a \in 1..n : /\ r[a].edge \in Incident(g0, i) /\ r[a].nbr \in Nodes(g0)
                            /\ r[a].nbr = Across(g0, i, r[a].edge)
    BY <1>1, RowEdges
  <2>. HIDE DEF e, r, n
  <2>. QED BY <1>1, <2>1
<1>4. scale \in Nat \ {0}
  BY DEF StagedFor
<1>5. ASSUME NEW k \in Edges(model), InRange(model, k)
      PROVE  /\ Given(model, k) \in Int /\ Coupling(model, k, sessionPlan) \in Int
             /\ Coupling(model, k, sessionPlan) * scale = Given(model, k)
  <2>1. Coupling(model, k, sessionPlan) # None
    BY <1>1, <1>5, StagedIs
  <2>2. Given(model, k) \in Int \cup {OffGrid}
    BY <1>1 DEF Given, IsGraph
  <2>. QED BY <1>4, <2>1, <2>2, ScaledIs DEF Coupling
<1>6. \A a \in 1..n : /\ Given(model, r[a].edge) \in Int
                      /\ Coupling(model, r[a].edge, sessionPlan) \in Int
                      /\ Coupling(model, r[a].edge, sessionPlan) * scale = Given(model, r[a].edge)
                      /\ s[r[a].nbr] \in Int
  <2>1. \A a \in 1..n : r[a].edge \in Edges(model) /\ InRange(model, r[a].edge)
    BY <1>3 DEF Incident
  <2>2. \A a \in 1..n : s[r[a].nbr] \in Int
    BY <1>3 DEF Spins
  <2>. QED BY <1>5, <2>1, <2>2
<1>7. \A a \in 1..n : w[a] \in Int /\ v[a] \in Int /\ v[a] = w[a] * scale
  <2>1. ASSUME NEW a \in 1..n PROVE w[a] \in Int /\ v[a] \in Int /\ v[a] = w[a] * scale
    <3>1. \A x, y \in Int : (x * scale) * y = (x * y) * scale
      BY <1>4
    <3>2. w[a] = Coupling(model, r[a].edge, sessionPlan) * s[r[a].nbr]
      BY <1>2
    <3>3. v[a] = Given(model, r[a].edge) * s[r[a].nbr]
      OBVIOUS
    <3> DEFINE x == Coupling(model, r[a].edge, sessionPlan)
               y == s[r[a].nbr]
    <3>4. x \in Int /\ y \in Int /\ x * scale = Given(model, r[a].edge)
      BY <1>6
    <3>5. w[a] = x * y /\ v[a] = (x * scale) * y
      BY <3>2, <3>3, <3>4
    <3>. HIDE DEF w, v, scale, x, y
    <3>6. x * y \in Int /\ (x * scale) * y \in Int
      BY <1>4, <3>4
    <3>. QED BY <3>1, <3>4, <3>5, <3>6
  <2>. QED BY <2>1
<1>8. \A a \in 1..n : m[e[a]] = v[a] /\ e[a] \in Incident(model, i)
  BY <1>3
<1>9. DOMAIN m = Incident(model, i) /\ DOMAIN v = 1..n
  OBVIOUS
<1>10. KernelField(s, i) = staged.h[i] + SumFunction(w)
  BY DEF KernelField
<1>11. ModelField(s, i) = model.h[i] + SumFunction(m)
  BY DEF ModelField, Incident, Across
<1>12. IsFiniteSet(1..n)
  BY <1>2, FS_Interval
<1>. HIDE DEF w, v, m, e, scale
<1>13. SumFunction(w) = SumOf(w, 1..n) /\ SumFunction(m) = SumOf(m, Incident(model, i))
  BY <1>2, <1>9, SumFunctionAll
<1>14. SumOf(w, 1..n) \in Int
  BY <1>7, <1>12, SumOfTake
<1>15. SumOf(w, 1..n) * scale = SumOf(v, 1..n)
  <2>1. scale \in Int /\ (\A a \in 1..n : w[a] \in Int) /\ (\A a \in 1..n : v[a] = w[a] * scale)
    BY <1>4, <1>7
  <2>. HIDE DEF n
  <2>. QED BY <1>12, <2>1, SumOfScaled
<1>16. SumOf(v, 1..n) = SumOf(m, Incident(model, i))
  <2> DEFINE D == 1..n
             I == Incident(model, i)
  <2>1. \A a \in D : m[e[a]] \in Int
    BY <1>7, <1>8
  <2>2. \A a \in D : v[a] = m[e[a]]
    BY <1>8
  <2>3. e \in Bijection(D, I) /\ IsFiniteSet(D)
    BY <1>3, <1>12
  <2>. HIDE DEF D, I
  <2>4. SumOf(v, D) = SumOf(m, I)
    BY <2>1, <2>2, <2>3, SumOfRenamed
  <2>. QED BY <2>4 DEF D, I
<1>17. staged.h[i] \in Int /\ staged.h[i] * scale = model.h[i]
  <2>1. /\ Scaled(model.h[i], scale, sessionPlan.path) # None
        /\ staged.h[i] = Scaled(model.h[i], scale, sessionPlan.path)
    BY <1>1, StagedIs DEF scale
  <2>2. model.h[i] \in Int \cup {OffGrid}
    BY <1>1 DEF IsGraph, Nodes
  <2>. QED BY <1>4, <2>1, <2>2, ScaledIs
<1>18. (staged.h[i] + SumOf(w, 1..n)) * scale = staged.h[i] * scale + SumOf(w, 1..n) * scale
  <2>1. \A x, y \in Int : (x + y) * scale = x * scale + y * scale
    BY <1>4
  <2>. QED BY <1>14, <1>17, <2>1
<1>19. KernelField(s, i) \in Int
  BY <1>10, <1>13, <1>14, <1>17
<1>20. KernelField(s, i) * scale = ModelField(s, i)
  BY <1>10, <1>11, <1>13, <1>15, <1>16, <1>17, <1>18
<1>. QED BY <1>19, <1>20 DEF scale

-----------------------------------------------------------------------------
(* The coloring. *)

\* The least color that is not used.
Free(used) == CHOOSE c \in 0..Cardinality(used) :
                  c \notin used /\ \A b \in 0..(c - 1) : b \in used

\* The smallest color nobody has is one nobody has.
LEMMA FreeIsUnused ==
    ASSUME NEW used, IsFiniteSet(used)
    PROVE  Free(used) \notin used
<1> DEFINE T == {c \in Nat : c \notin used}
           n == Cardinality(used)
<1>1. n \in Nat /\ IsFiniteSet(0..n) /\ Cardinality(0..n) = n + 1
  <2>1. n \in Nat
    BY FS_CardinalityType
  <2>. HIDE DEF n
  <2>. QED BY <2>1, FS_Interval
<1>2. ~(0..n \subseteq used)
  <2>1. 0..n \in SUBSET used => Cardinality(0..n) <= n
    BY FS_Subset
  <2>. HIDE DEF n
  <2>. QED BY <1>1, <2>1
<1>3. PICK c \in T : \A b \in T : c <= b
  <2>1. T \subseteq Nat /\ T # {}
    BY <1>1, <1>2
  <2>. HIDE DEF T
  <2>. QED BY <2>1, LeastNatural
<1>4. c \in 0..n
  BY <1>1, <1>2, <1>3
<1>5. c \notin used /\ \A b \in 0..(c - 1) : b \in used
  BY <1>3
<1>. QED BY <1>4, <1>5 DEF Free

Neighbours(g, i) == {half.nbr : half \in Halves(g, i)}

\* One more node of an order colored.
Paint(g, order, done, k) ==
    [m \in DOMAIN done \cup {order[k]} |->
        IF m = order[k]
        THEN Free({done[x] : x \in Neighbours(g, order[k]) \cap DOMAIN done})
        ELSE done[m]]

\* f holds the colors of the first nodes of the order, up to n.
Colors(f, g, order, n) ==
    f = [k \in 0..n |-> IF k = 0 THEN <<>> ELSE Paint(g, order, f[k - 1], k)]

\* The nodes can be painted one after another, however many there are.
LEMMA ColorsExist ==
    ASSUME NEW g, NEW order, NEW n \in Nat
    PROVE  \E f : Colors(f, g, order, n)
<1> DEFINE Bad == {m \in Nat : ~\E f : Colors(f, g, order, m)}
<1>1. SUFFICES ASSUME Bad # {} PROVE FALSE
  OBVIOUS
<1>2. PICK m \in Bad : \A k \in Bad : m <= k
  <2>. HIDE DEF Bad
  <2>1. Bad \subseteq Nat
    BY DEF Bad
  <2>. QED BY <1>1, <2>1, LeastNatural
<1>3. m # 0
  <2> DEFINE f == [k \in 0..0 |-> <<>>]
  <2>1. f = [k \in 0..0 |-> IF k = 0 THEN <<>> ELSE Paint(g, order, f[k - 1], k)]
    <3>1. \A k \in 0..0 : k = 0
      OBVIOUS
    <3>. QED BY <3>1
  <2>2. Colors(f, g, order, 0)
    <3>. HIDE DEF f
    <3>. QED BY <2>1 DEF Colors
  <2>. QED BY <1>2, <2>2
<1>4. m - 1 \in Nat /\ m - 1 \notin Bad
  BY <1>2, <1>3
<1>5. PICK f : Colors(f, g, order, m - 1)
  BY <1>4
<1> DEFINE e == [k \in 0..m |-> IF k = 0 THEN <<>> ELSE Paint(g, order, f[k - 1], k)]
<1>6. ASSUME NEW k \in 0..m, k # 0 PROVE e[k - 1] = f[k - 1]
  <2>1. k - 1 \in 0..(m - 1) /\ k - 1 \in 0..m
    BY <1>4, <1>6
  <2>2. f[k - 1] = IF k - 1 = 0 THEN <<>> ELSE Paint(g, order, f[(k - 1) - 1], k - 1)
    <3>1. \A j \in 0..(m - 1) : f[j] = IF j = 0 THEN <<>> ELSE Paint(g, order, f[j - 1], j)
      BY <1>5 DEF Colors
    <3>. QED BY <2>1, <3>1
  <2>3. e[k - 1] = IF k - 1 = 0 THEN <<>> ELSE Paint(g, order, f[(k - 1) - 1], k - 1)
    BY <2>1
  <2>. QED BY <2>2, <2>3
<1>7. e = [k \in 0..m |-> IF k = 0 THEN <<>> ELSE Paint(g, order, e[k - 1], k)]
  BY <1>6
<1>8. Colors(e, g, order, m)
  <2>. HIDE DEF e
  <2>. QED BY <1>7 DEF Colors
<1>. QED BY <1>2, <1>8

\* The greedy coloring paints every node in its turn.
LEMMA GreedyIs ==
    ASSUME NEW g, IsGraph(g), NEW order
    PROVE  \E f : Colors(f, g, order, Len(g.h)) /\ GreedyColor(g, order) = f[Len(g.h)]
<1> DEFINE f == CHOOSE e : Colors(e, g, order, Len(g.h))
<1>1. Colors(f, g, order, Len(g.h))
  BY ColorsExist, GraphParts
<1>2. GreedyColor(g, order) = f[Len(g.h)]
  BY DEF GreedyColor, Colors, Paint, Free, Neighbours
<1>. HIDE DEF f
<1>. QED BY <1>1, <1>2

\* Edge e has two ends, both in range.
Joins(g, e) == e \in Edges(g) /\ InRange(g, e) /\ g.edges[e][1] # g.edges[e][2]

\* The ends of an edge are neighbours of one another.
LEMMA JoinsAre ==
    ASSUME NEW g, NEW e, Joins(g, e)
    PROVE  /\ g.edges[e][2] \in Neighbours(g, g.edges[e][1])
           /\ g.edges[e][1] \in Neighbours(g, g.edges[e][2])
           /\ g.edges[e][1] \in Nodes(g) /\ g.edges[e][2] \in Nodes(g)
<1> DEFINE a == g.edges[e][1]
           b == g.edges[e][2]
           x == Half(b, e, TRUE)
           y == Half(a, e, FALSE)
<1>1. HalfOf(g, a, e, x) /\ HalfOf(g, b, e, y)
  BY DEF Joins, HalfOf
<1>2. x \in Halves(g, a) /\ y \in Halves(g, b)
  BY <1>1, HalvesAre DEF HalfOf
<1>3. x.nbr = b /\ y.nbr = a
  BY DEF Half
<1>4. b \in Neighbours(g, a) /\ a \in Neighbours(g, b)
  <2>. HIDE DEF x, y
  <2>. QED BY <1>2, <1>3 DEF Neighbours
<1>5. a \in Nodes(g) /\ b \in Nodes(g)
  BY DEF Joins, InRange
<1>. QED BY <1>4, <1>5

\* The ends of every edge have different colors.
LEMMA ColoringProper ==
    ASSUME NEW g, IsGraph(g), NEW order \in DegreeOrders(g)
    PROVE  \A e \in Edges(g) : Joins(g, e) =>
               GreedyColor(g, order)[g.edges[e][1]] # GreedyColor(g, order)[g.edges[e][2]]
<1> DEFINE n == Len(g.h)
<1>1. n \in Nat /\ Nodes(g) = 1..n /\ IsFiniteSet(Nodes(g))
  BY GraphParts
<1>2. order \in [1..n -> Nodes(g)] /\ \A a, b \in 1..n : order[a] = order[b] => a = b
  BY DEF DegreeOrders
<1>3. PICK f : Colors(f, g, order, n) /\ GreedyColor(g, order) = f[n]
  BY GreedyIs
<1>. HIDE DEF n
<1>4. \A k \in 0..n : f[k] = IF k = 0 THEN <<>> ELSE Paint(g, order, f[k - 1], k)
  BY <1>3 DEF Colors
<1> DEFINE Proper(k) == /\ DOMAIN f[k] = {order[c] : c \in 1..k}
                        /\ \A e \in Edges(g) :
                               /\ Joins(g, e)
                               /\ g.edges[e][1] \in DOMAIN f[k] /\ g.edges[e][2] \in DOMAIN f[k]
                               => f[k][g.edges[e][1]] # f[k][g.edges[e][2]]
           Bad == {k \in 0..n : ~Proper(k)}
<1>5. Bad = {}
  <2>1. SUFFICES ASSUME Bad # {} PROVE FALSE
    OBVIOUS
  <2>2. PICK k \in Bad : \A c \in Bad : k <= c
    <3>1. Bad \subseteq Nat
      BY <1>1
    <3>. HIDE DEF Bad
    <3>. QED BY <2>1, <3>1, LeastNatural
  <2>3. k # 0
    <3>1. SUFFICES ASSUME k = 0 PROVE FALSE
      OBVIOUS
    <3>2. DOMAIN f[0] = {}
      BY <1>1, <1>4
    <3>3. Proper(0)
      BY <3>2
    <3>. QED BY <2>2, <3>1, <3>3
  <2>4. k - 1 \in 0..n /\ k \in 1..n /\ Proper(k - 1)
    <3>1. k - 1 \in 0..n /\ k \in 1..n /\ ~(k <= k - 1)
      BY <1>1, <2>2, <2>3
    <3>. HIDE DEF Proper
    <3>. QED BY <2>2, <3>1
  <2> DEFINE node == order[k]
             done == f[k - 1]
             used == {done[x] : x \in Neighbours(g, node) \cap DOMAIN done}
  <2>5. f[k] = [m \in DOMAIN done \cup {node} |-> IF m = node THEN Free(used) ELSE done[m]]
    BY <1>4, <2>2, <2>3 DEF Paint
  <2>6. DOMAIN done = {order[c] : c \in 1..(k - 1)}
    BY <2>4
  <2>7. node \notin DOMAIN done
    <3>1. \A c \in 1..(k - 1) : c \in 1..n /\ c # k
      <4>. HIDE DEF Proper
      <4>. QED BY <1>1, <2>4
    <3>. QED BY <1>2, <2>4, <2>6, <3>1
  <2>8. DOMAIN f[k] = {order[c] : c \in 1..k}
    <3>1. \A c : c \in 1..k <=> c = k \/ c \in 1..(k - 1)
      BY <2>4
    <3>. QED BY <2>5, <2>6, <3>1
  <2>9. Free(used) \notin used
    <3>1. Neighbours(g, node) \cap DOMAIN done \in SUBSET Nodes(g)
      <4>1. \A c \in 1..(k - 1) : c \in 1..n
        <5>. HIDE DEF Proper
        <5>. QED BY <1>1, <2>4
      <4>. QED BY <1>2, <2>6, <4>1
    <3>2. IsFiniteSet(Neighbours(g, node) \cap DOMAIN done)
      BY <1>1, <3>1, FS_Subset
    <3> DEFINE X == Neighbours(g, node) \cap DOMAIN done
               q == [x \in X |-> done[x]]
    <3>3. IsFiniteSet({q[x] : x \in X})
      <4>1. DOMAIN q = X /\ IsFiniteSet(X)
        BY <3>2
      <4>. HIDE DEF q, X
      <4>. QED BY <4>1, ImageFinite
    <3>4. {q[x] : x \in X} = used
      OBVIOUS
    <3>5. IsFiniteSet(used)
      BY <3>3, <3>4
    <3>. HIDE DEF used
    <3>. QED BY <3>5, FreeIsUnused
  <2>10. ASSUME NEW e \in Edges(g), Joins(g, e),
                g.edges[e][1] \in DOMAIN f[k], g.edges[e][2] \in DOMAIN f[k]
         PROVE  f[k][g.edges[e][1]] # f[k][g.edges[e][2]]
    <3> DEFINE a == g.edges[e][1]
               b == g.edges[e][2]
    <3>1. a # b /\ b \in Neighbours(g, a) /\ a \in Neighbours(g, b)
      BY <2>10, JoinsAre DEF Joins
    <3>2. a \in DOMAIN done \cup {node} /\ b \in DOMAIN done \cup {node}
      BY <2>5, <2>10
    <3>3. CASE a = node
      <4>1. b \in DOMAIN done /\ b # node
        BY <3>1, <3>2, <3>3
      <4>2. done[b] \in used
        BY <3>1, <3>3, <4>1
      <4>3. f[k][a] = Free(used) /\ f[k][b] = done[b]
        <5>. HIDE DEF used, done, node, a, b
        <5>. QED BY <2>5, <3>2, <3>3, <4>1
      <4>. QED BY <2>9, <4>2, <4>3
    <3>4. CASE b = node
      <4>1. a \in DOMAIN done /\ a # node
        BY <3>1, <3>2, <3>4
      <4>2. done[a] \in used
        BY <3>1, <3>4, <4>1
      <4>3. f[k][b] = Free(used) /\ f[k][a] = done[a]
        <5>. HIDE DEF used, done, node, a, b
        <5>. QED BY <2>5, <3>2, <3>4, <4>1
      <4>. QED BY <2>9, <4>2, <4>3
    <3>5. CASE a # node /\ b # node
      <4>1. a \in DOMAIN done /\ b \in DOMAIN done
        BY <3>2, <3>5
      <4>2. f[k][a] = done[a] /\ f[k][b] = done[b]
        <5>. HIDE DEF used, done, node, a, b
        <5>. QED BY <2>5, <3>2, <3>5
      <4>3. done[a] # done[b]
        BY <2>4, <2>10, <4>1
      <4>. QED BY <4>2, <4>3
    <3>. QED BY <3>3, <3>4, <3>5
  <2>11. Proper(k)
    BY <2>8, <2>10
  <2>. QED BY <2>2, <2>11
<1>6. Proper(n)
  <2>1. n \in 0..n
    BY <1>1
  <2>. HIDE DEF Proper
  <2>. QED BY <1>5, <2>1
<1>7. Nodes(g) \subseteq DOMAIN f[n]
  <2>1. IsFiniteSet(1..n) /\ order \in Injection(1..n, Nodes(g))
    BY <1>1, <1>2, Fun_IsInj
  <2>2. order \in Surjection(1..n, Nodes(g))
    BY <1>1, <2>1, FS_Injection
  <2>3. \A m \in Nodes(g) : \E c \in 1..n : order[c] = m
    BY <2>2 DEF Surjection
  <2>4. DOMAIN f[n] = {order[c] : c \in 1..n}
    BY <1>6
  <2>. QED BY <2>3, <2>4
<1>. QED BY <1>3, <1>6, <1>7, JoinsAre

-----------------------------------------------------------------------------
(* Scales. *)

\* Quotients.
LEMMA QuotientMonotone ==
    ASSUME NEW a \in Nat, NEW b \in Nat, NEW s \in Nat \ {0}, a <= b
    PROVE  a \div s \in Nat /\ b \div s \in Nat /\ a \div s <= b \div s
<1> DEFINE x == a \div s
           y == b \div s
<1>1. x \in Nat /\ s * x <= a
  OBVIOUS
<1>2. y \in Nat /\ b < s * y + s
  OBVIOUS
<1>. HIDE DEF x, y
<1>3. s * x < s * (y + 1)
  <2>1. s * (y + 1) = s * y + s
    BY <1>2
  <2>2. s * x \in Nat /\ s * y \in Nat
    BY <1>1, <1>2
  <2>. QED BY <1>1, <1>2, <2>1, <2>2
<1>4. \A u \in Nat, v \in Nat, w \in Nat \ {0} : w * u < w * v => u < v
  OBVIOUS
<1>5. x < y + 1
  BY <1>1, <1>2, <1>3, <1>4
<1>. QED BY <1>1, <1>2, <1>5 DEF x, y

\* What fits s times in a number is at most its quotient.
LEMMA QuotientAtLeast ==
    ASSUME NEW a \in Nat, NEW x \in Nat, NEW s \in Nat \ {0}, x * s <= a
    PROVE  x <= a \div s
<1>1. (x * s) \div s = x
  <2>1. (x * s + 0) \div s = x
    BY DivMod
  <2>2. x * s + 0 = x * s
    OBVIOUS
  <2>. QED BY <2>1, <2>2
<1>2. x * s \in Nat
  OBVIOUS
<1>. QED BY <1>1, <1>2, QuotientMonotone

\* A larger divisor has no larger quotient.
LEMMA QuotientByMore ==
    ASSUME NEW a \in Nat, NEW r \in Nat \ {0}, NEW s \in Nat \ {0}, r <= s
    PROVE  a \div s <= a \div r /\ a \div s \in Nat /\ a \div r \in Nat
<1> DEFINE x == a \div s
<1>1. x \in Nat /\ s * x <= a
  OBVIOUS
<1>. HIDE DEF x
<1>2. x * r <= s * x
  <2>1. \A u \in Nat : u * r <= s * u
    <3>1. \A u \in Nat, v \in Nat : u * v >= 0
      OBVIOUS
    <3>2. \A u \in Nat : u * (s - r) >= 0 /\ u * (s - r) = s * u - u * r
      BY <3>1
    <3>. QED BY <3>2
  <2>. QED BY <1>1, <2>1
<1>3. x * r <= a
  <2>1. x * r \in Int /\ s * x \in Int
    BY <1>1
  <2>. QED BY <1>1, <1>2, <2>1
<1>4. x <= a \div r
  BY <1>1, <1>3, QuotientAtLeast
<1>. QED BY <1>1, <1>4 DEF x

\* The greatest common divisor divides, and nothing greater does.
LEMMA GcdIs ==
    ASSUME NEW S, S \subseteq Nat
    PROVE  /\ S \subseteq {0} => Gcd(S) = 0
           /\ ~(S \subseteq {0}) =>
                  /\ Gcd(S) \in Nat \ {0} /\ \A v \in S : v % Gcd(S) = 0
                  /\ \A s \in Nat \ {0} : (\A v \in S : v % s = 0) => s <= Gcd(S)
<1> DEFINE m == Min(S \ {0})
           D == {d \in 1..m : \A v \in S : v % d = 0}
<1>1. S \subseteq {0} => Gcd(S) = 0
  BY DEF Gcd
<1>2. SUFFICES ASSUME ~(S \subseteq {0})
               PROVE  /\ Gcd(S) \in Nat \ {0} /\ \A v \in S : v % Gcd(S) = 0
                      /\ \A s \in Nat \ {0} : (\A v \in S : v % s = 0) => s <= Gcd(S)
  BY <1>1
<1>3. Gcd(S) = Max(D)
  BY <1>2 DEF Gcd
<1>4. m \in S /\ m \in Nat \ {0}
  <2>1. S \ {0} \subseteq Nat /\ S \ {0} # {}
    BY <1>2
  <2>2. m \in S \ {0}
    BY <2>1, LeastOf
  <2>. HIDE DEF m
  <2>. QED BY <2>1, <2>2
<1>. HIDE DEF m
<1>5. D \subseteq Nat /\ D # {} /\ \A d \in D : d <= m
  <2>1. 1 \in D
    <3>1. \A v \in Nat : v % 1 = 0
      OBVIOUS
    <3>. QED BY <1>4, <3>1
  <2>. QED BY <1>4, <2>1
<1>6. Max(D) \in D /\ \A d \in D : d <= Max(D)
  <2>. HIDE DEF D
  <2>. QED BY <1>4, <1>5, Greatest
<1>7. ASSUME NEW s \in Nat \ {0}, \A v \in S : v % s = 0 PROVE s \in D
  <2>1. PICK d \in Nat : m = s * d
    BY <1>4, <1>7, Divisor
  <2>2. d # 0
    BY <1>4, <2>1
  <2>3. \A x \in Nat \ {0}, y \in Nat \ {0} : x <= x * y
    OBVIOUS
  <2>4. s <= m
    BY <2>1, <2>2, <2>3
  <2>. QED BY <1>4, <1>7, <2>4
<1>8. Max(D) \in Nat \ {0} /\ \A v \in S : v % Max(D) = 0
  BY <1>6
<1>. HIDE DEF D
<1>. QED BY <1>3, <1>6, <1>7, <1>8

\* Coefficients on the grid.
OnGrid(g) == \A v \in Values(g) : v \in Int

\* A graph whose coefficients are all on the grid has integer ones.
LEMMA MilliIs ==
    ASSUME NEW g, IsGraph(g), OffGrid \notin Values(g)
    PROVE  OnGrid(g) /\ Milli(g) \subseteq Nat
<1>1. Values(g) \subseteq Int \cup {OffGrid}
  <2>1. \A i \in DOMAIN g.h : g.h[i] \in Int \cup {OffGrid}
    BY DEF IsGraph
  <2>2. \A k \in DOMAIN g.j : g.j[k] \in Int \cup {OffGrid}
    BY DEF IsGraph
  <2>. QED BY <2>1, <2>2 DEF Values
<1>2. OnGrid(g)
  BY <1>1 DEF OnGrid
<1>3. \A v \in Int : Abs(v) \in Nat
  BY DEF Abs
<1>. QED BY <1>2, <1>3 DEF Milli, OnGrid

\* The scale of a graph divides its coefficients and, unless they are all zero,
\* no larger number does.
LEMMA ScaleIs ==
    ASSUME NEW g, Milli(g) \subseteq Nat
    PROVE  /\ ScaleMilli(g) \in Nat \ {0}
           /\ \A v \in Milli(g) : v % ScaleMilli(g) = 0
           /\ \/ Milli(g) \subseteq {0}
              \/ \A s \in Nat \ {0} : (\A v \in Milli(g) : v % s = 0) => s <= ScaleMilli(g)
<1>1. UnitMilli \in Nat \ {0}
  BY WidthAssumption
<1>2. CASE Milli(g) \subseteq {0}
  <2>1. ScaleMilli(g) = UnitMilli
    BY <1>2, GcdIs DEF ScaleMilli
  <2>2. \A v \in Milli(g) : v % UnitMilli = 0
    BY <1>1, <1>2
  <2>. QED BY <1>1, <1>2, <2>1, <2>2
<1>3. CASE ~(Milli(g) \subseteq {0})
  <2> DEFINE d == Gcd(Milli(g))
  <2>1. /\ d \in Nat \ {0} /\ \A v \in Milli(g) : v % d = 0
        /\ \A s \in Nat \ {0} : (\A v \in Milli(g) : v % s = 0) => s <= d
    BY <1>3, GcdIs
  <2>2. ScaleMilli(g) = d
    BY <2>1 DEF ScaleMilli
  <2>. HIDE DEF d
  <2>. QED BY <2>1, <2>2
<1>. QED BY <1>2, <1>3

-----------------------------------------------------------------------------
(* Local fields. *)

Ends(g, k, n)   == Cardinality({e \in 1..2 : g.edges[k][e] = n})
Pulls(g, n)     == [k \in Coupled(g) |-> Ends(g, k, n) * Abs(g.j[k])]
NodeField(g, n) == Abs(g.h[n]) + SumFunction(Pulls(g, n))

\* An edge ends at a node a natural number of times, and at its own ends at
\* least once.
LEMMA EndsAre ==
    ASSUME NEW g, NEW k, NEW n
    PROVE  /\ Ends(g, k, n) \in Nat
           /\ n \in {g.edges[k][1], g.edges[k][2]} => Ends(g, k, n) >= 1
<1> DEFINE E == {e \in 1..2 : g.edges[k][e] = n}
<1>1. IsFiniteSet(1..2) /\ E \in SUBSET (1..2)
  <2>1. IsFiniteSet(1..2)
    <3>1. \A a, b \in Int : IsFiniteSet(a..b)
      BY FS_Interval
    <3>2. 1 \in Int /\ 2 \in Int
      OBVIOUS
    <3>. QED BY <3>1, <3>2, Zenon
  <2>. QED BY <2>1
<1>2. n \in {g.edges[k][1], g.edges[k][2]} => E # {}
  <2>1. 1 \in 1..2 /\ 2 \in 1..2
    OBVIOUS
  <2>. QED BY <2>1
<1>. HIDE DEF E
<1>3. IsFiniteSet(E) /\ Cardinality(E) \in Nat /\ (Cardinality(E) = 0 <=> E = {})
  BY <1>1, FS_Subset, FS_CardinalityType, FS_EmptySet
<1>. QED BY <1>2, <1>3 DEF Ends, E

\* What a node's field adds up, over the grid.
LEMMA NodeFieldIs ==
    ASSUME NEW g, IsGraph(g), OffGrid \notin Values(g), NEW n \in Nodes(g)
    PROVE  /\ g.h[n] \in Int /\ Abs(g.h[n]) \in Nat /\ Abs(g.h[n]) \in Milli(g)
           /\ IsFiniteSet(Coupled(g))
           /\ \A k \in Coupled(g) : /\ g.j[k] \in Int /\ Abs(g.j[k]) \in Nat
                                     /\ Abs(g.j[k]) \in Milli(g) /\ Pulls(g, n)[k] \in Nat
                                     /\ Pulls(g, n)[k] = Ends(g, k, n) * Abs(g.j[k])
           /\ SumOf(Pulls(g, n), Coupled(g)) \in Nat
           /\ NodeField(g, n) \in Nat
           /\ NodeField(g, n) = Abs(g.h[n]) + SumOf(Pulls(g, n), Coupled(g))
<1>1. OnGrid(g) /\ Milli(g) \subseteq Nat
  BY MilliIs
<1>2. g.h[n] \in Values(g) /\ \A k \in Coupled(g) : g.j[k] \in Values(g)
  BY DEF Values, Nodes, Coupled
<1>3. g.h[n] \in Int /\ Abs(g.h[n]) \in Milli(g) /\ Abs(g.h[n]) \in Nat
  BY <1>1, <1>2 DEF OnGrid, Milli
<1>4. \A k \in Coupled(g) : g.j[k] \in Int /\ Abs(g.j[k]) \in Milli(g) /\ Abs(g.j[k]) \in Nat
  BY <1>1, <1>2 DEF OnGrid, Milli
<1>5. IsFiniteSet(Coupled(g))
  <2>1. IsFiniteSet(Edges(g)) /\ Coupled(g) \in SUBSET Edges(g)
    BY GraphParts DEF Coupled
  <2>. QED BY <2>1, FS_Subset
<1>6. ASSUME NEW k \in Coupled(g)
      PROVE  Pulls(g, n)[k] \in Nat /\ Pulls(g, n)[k] = Ends(g, k, n) * Abs(g.j[k])
  <2>1. Ends(g, k, n) \in Nat /\ Abs(g.j[k]) \in Nat
    BY <1>4, EndsAre
  <2>2. \A x, y \in Nat : x * y \in Nat
    OBVIOUS
  <2>. QED BY <2>1, <2>2 DEF Pulls
<1>7. SumOf(Pulls(g, n), Coupled(g)) \in Nat
  <2>1. \A k \in Coupled(g) : Pulls(g, n)[k] \in Nat
    BY <1>6
  <2>2. Coupled(g) \in SUBSET Coupled(g)
    OBVIOUS
  <2>. QED BY <1>5, <2>1, <2>2, SumOfPartial
<1>8. NodeField(g, n) = Abs(g.h[n]) + SumOf(Pulls(g, n), Coupled(g))
  <2>1. DOMAIN Pulls(g, n) = Coupled(g)
    BY DEF Pulls
  <2>. QED BY <2>1, SumFunctionAll DEF NodeField
<1>9. NodeField(g, n) \in Nat
  BY <1>3, <1>7, <1>8
<1>. QED BY <1>3, <1>4, <1>5, <1>6, <1>7, <1>8, <1>9

\* The largest local field is that of some node, or none is more than zero.
LEMMA MaxLocalFieldIs ==
    ASSUME NEW g, IsGraph(g), OffGrid \notin Values(g)
    PROVE  /\ MaxLocalField(g) \in Nat
           /\ \A n \in Nodes(g) : NodeField(g, n) <= MaxLocalField(g)
           /\ MaxLocalField(g) = 0 \/ \E n \in Nodes(g) : MaxLocalField(g) = NodeField(g, n)
<1> DEFINE f == [n \in Nodes(g) |-> NodeField(g, n)]
           I == {f[n] : n \in Nodes(g)}
           F == {0} \cup I
<1>1. MaxLocalField(g) = Max(F)
  <2>1. MaxLocalField(g) = Max({0} \cup {NodeField(g, n) : n \in Nodes(g)})
    BY DEF MaxLocalField, NodeField, Pulls, Ends
  <2>2. {NodeField(g, n) : n \in Nodes(g)} = I
    OBVIOUS
  <2>. QED BY <2>1, <2>2
<1>2. \A n \in Nodes(g) : f[n] \in Nat /\ f[n] = NodeField(g, n)
  BY NodeFieldIs
<1>3. IsFiniteSet(I)
  <2>1. IsFiniteSet(Nodes(g)) /\ DOMAIN f = Nodes(g)
    BY GraphParts
  <2>. HIDE DEF f
  <2>. QED BY <2>1, ImageFinite
<1>4. I \subseteq Nat
  BY <1>2
<1>. HIDE DEF I
<1>5. IsFiniteSet(F) /\ F \subseteq Nat /\ F # {}
  <2>1. IsFiniteSet({0})
    BY FS_Singleton
  <2>2. IsFiniteSet({0} \cup I)
    BY <1>3, <2>1, FS_Union
  <2>. QED BY <1>4, <2>2
<1>6. Max(F) \in F /\ \A x \in F : x <= Max(F)
  <2>. HIDE DEF F
  <2>. QED BY <1>5, GreatestOf
<1>7. \A n \in Nodes(g) : NodeField(g, n) \in F
  BY <1>2 DEF I
<1>8. Max(F) = 0 \/ \E n \in Nodes(g) : Max(F) = NodeField(g, n)
  BY <1>2, <1>6 DEF I
<1>. HIDE DEF F
<1>. QED BY <1>1, <1>5, <1>6, <1>7, <1>8

\* No coefficient, no field.
LEMMA NoField ==
    ASSUME NEW g, IsGraph(g), OffGrid \notin Values(g), Milli(g) \subseteq {0}
    PROVE  MaxLocalField(g) = 0
<1>1. SUFFICES ASSUME NEW n \in Nodes(g) PROVE NodeField(g, n) = 0
  BY MaxLocalFieldIs
<1>2. Abs(g.h[n]) = 0 /\ \A k \in Coupled(g) : Abs(g.j[k]) = 0 /\ Ends(g, k, n) \in Nat
  BY NodeFieldIs, EndsAre
<1>3. \A k \in Coupled(g) : Pulls(g, n)[k] = 0
  <2>1. \A k \in Coupled(g) : Pulls(g, n)[k] = Ends(g, k, n) * Abs(g.j[k])
    BY NodeFieldIs
  <2>2. \A x \in Nat : x * 0 = 0
    OBVIOUS
  <2>. QED BY <1>2, <2>1, <2>2
<1>4. IsFiniteSet(Coupled(g))
  BY NodeFieldIs
<1>5. SumOf(Pulls(g, n), Coupled(g)) = 0
  BY <1>3, <1>4, SumOfZero
<1>. QED BY <1>2, <1>5, NodeFieldIs

\* The field of an edge of a node is within the node's, however the other
\* edges pull.
LEMMA FieldBound ==
    ASSUME NEW g, IsGraph(g), OffGrid \notin Values(g), NEW i \in Nodes(g),
           NEW T, T \subseteq Incident(g, i), NEW m,
           \A k \in T : m[k] \in Int /\ m[k] <= Abs(Given(g, k)) /\ -Abs(Given(g, k)) <= m[k]
    PROVE  /\ SumOf(m, T) \in Int
           /\ SumOf(m, T) <= SumOf(Pulls(g, i), Coupled(g))
           /\ -SumOf(Pulls(g, i), Coupled(g)) <= SumOf(m, T)
<1> DEFINE v == [k \in T |-> Abs(Given(g, k))]
           u == Pulls(g, i)
           C == T \cap Coupled(g)
<1>1. IsFiniteSet(T)
  <2>1. IsFiniteSet(Edges(g)) /\ T \in SUBSET Edges(g)
    BY GraphParts DEF Incident
  <2>. QED BY <2>1, FS_Subset
<1>2. \A k \in Coupled(g) : /\ g.j[k] \in Int /\ Abs(g.j[k]) \in Nat /\ u[k] \in Nat
                            /\ u[k] = Ends(g, k, i) * Abs(g.j[k])
  BY NodeFieldIs
<1>3. ASSUME NEW k \in T
      PROVE  /\ v[k] \in Nat
             /\ k \notin C => v[k] = 0
             /\ k \in C => v[k] <= u[k]
  <2>1. v[k] = Abs(Given(g, k)) /\ k \in Edges(g)
    BY DEF Incident
  <2>2. CASE k \in C
    <3>1. Given(g, k) = g.j[k] /\ k \in Coupled(g)
      BY <2>2 DEF Given, Coupled
    <3>2. Ends(g, k, i) \in Nat /\ Ends(g, k, i) >= 1
      <4>1. i \in {g.edges[k][1], g.edges[k][2]}
        BY DEF Incident
      <4>. QED BY <4>1, EndsAre
    <3>3. \A x \in Nat, y \in Nat : x >= 1 => y <= x * y
      OBVIOUS
    <3>4. Abs(g.j[k]) \in Nat /\ u[k] = Ends(g, k, i) * Abs(g.j[k])
      BY <1>2, <3>1
    <3>5. Abs(g.j[k]) <= Ends(g, k, i) * Abs(g.j[k])
      BY <3>2, <3>3, <3>4
    <3>6. v[k] \in Nat /\ v[k] <= u[k]
      BY <2>1, <3>1, <3>4, <3>5
    <3>. QED BY <2>2, <3>6
  <2>3. CASE k \notin C
    <3>1. Given(g, k) = 0
      BY <2>1, <2>3 DEF Given, Coupled
    <3>2. v[k] = 0
      BY <2>1, <3>1 DEF Abs
    <3>. QED BY <2>3, <3>2
  <2>. QED BY <2>2, <2>3
<1>4. \A k \in T : /\ v[k] \in Nat
                   /\ k \notin C => v[k] = 0
                   /\ k \in C => v[k] <= u[k]
  BY <1>3
<1>5. C \in SUBSET T /\ C \in SUBSET Coupled(g) /\ IsFiniteSet(C) /\ IsFiniteSet(Coupled(g))
  <2>1. C \in SUBSET T /\ C \in SUBSET Coupled(g) /\ IsFiniteSet(Coupled(g))
    BY NodeFieldIs
  <2>. HIDE DEF C
  <2>. QED BY <1>1, <2>1, FS_Subset
<1>6. \A k \in T : m[k] <= v[k] /\ -v[k] <= m[k] /\ m[k] \in Int /\ v[k] \in Int
  <2>1. \A k \in T : v[k] = Abs(Given(g, k))
    OBVIOUS
  <2>. HIDE DEF v
  <2>. QED BY <1>4, <2>1
<1>. HIDE DEF v, u, C
<1>7. /\ SumOf(m, T) \in Int /\ SumOf(v, T) \in Int
      /\ SumOf(m, T) <= SumOf(v, T) /\ -SumOf(v, T) <= SumOf(m, T)
  BY <1>1, <1>6, SumOfBounds
<1>8. SumOf(v, C) = SumOf(v, T)
  <2>1. (\A k \in T : v[k] \in Nat) /\ (\A k \in T \ C : v[k] = 0)
    BY <1>4
  <2>. QED BY <1>1, <1>5, <2>1, SumOfPartial
<1>9. SumOf(v, C) <= SumOf(u, C)
  <2>1. \A k \in C : v[k] \in Int /\ u[k] \in Int /\ v[k] <= u[k] /\ -u[k] <= v[k]
    <3>1. \A k \in C : v[k] \in Nat /\ u[k] \in Nat /\ v[k] <= u[k]
      BY <1>2, <1>5, <1>4
    <3>. QED BY <3>1
  <2>. QED BY <1>5, <2>1, SumOfBounds
<1>10. SumOf(u, C) <= SumOf(u, Coupled(g)) /\ SumOf(u, C) \in Nat /\ SumOf(u, Coupled(g)) \in Nat
  <2>1. \A k \in Coupled(g) : u[k] \in Nat
    BY <1>2
  <2>. QED BY <1>5, <2>1, SumOfPartial
<1>. QED BY <1>7, <1>8, <1>9, <1>10 DEF u

\* A coupling in range is within the largest field.
LEMMA CouplingBound ==
    ASSUME NEW g, IsGraph(g), OffGrid \notin Values(g), NEW k \in Edges(g), InRange(g, k)
    PROVE  Given(g, k) \in Int /\ Abs(Given(g, k)) \in Nat /\ Abs(Given(g, k)) <= MaxLocalField(g)
<1> DEFINE i == g.edges[k][1]
           m == [e \in {k} |-> Abs(Given(g, e))]
<1>1. i \in Nodes(g) /\ {k} \subseteq Incident(g, i)
  BY DEF InRange, Incident
<1>2. Given(g, k) \in Int /\ Abs(Given(g, k)) \in Nat
  <2>1. CASE k \in Coupled(g)
    <3>1. Given(g, k) = g.j[k]
      BY <2>1 DEF Given, Coupled
    <3>2. g.j[k] \in Int /\ Abs(g.j[k]) \in Nat
      BY <1>1, <2>1, NodeFieldIs
    <3>. QED BY <3>1, <3>2
  <2>2. CASE k \notin Coupled(g)
    BY <2>2 DEF Given, Coupled, Abs
  <2>. QED BY <2>1, <2>2
<1>3. m[k] = Abs(Given(g, k)) /\ m[k] \in Nat
  BY <1>2
<1>. HIDE DEF i, m
<1>4. SumOf(m, {k}) = m[k]
  <2>1. IsFiniteSet({k}) /\ \A x \in {k} : m[x] \in Int
    <3>1. IsFiniteSet({k})
      BY FS_Singleton
    <3>. QED BY <1>3, <3>1
  <2>2. SumOf(m, {k}) = m[k] + SumOf(m, {k} \ {k})
    BY <2>1, SumOfTake
  <2>3. {k} \ {k} = {}
    OBVIOUS
  <2>4. SumOf(m, {}) = 0
    BY SumOfNone
  <2>. QED BY <1>3, <2>2, <2>3, <2>4
<1>5. SumOf(m, {k}) <= SumOf(Pulls(g, i), Coupled(g))
  <2>1. \A x \in {k} : m[x] \in Int /\ m[x] <= Abs(Given(g, x)) /\ -Abs(Given(g, x)) <= m[x]
    BY <1>2, <1>3
  <2>. QED BY <1>1, <2>1, FieldBound
<1>6. /\ NodeField(g, i) = Abs(g.h[i]) + SumOf(Pulls(g, i), Coupled(g))
      /\ Abs(g.h[i]) \in Nat /\ SumOf(Pulls(g, i), Coupled(g)) \in Nat
      /\ NodeField(g, i) <= MaxLocalField(g) /\ MaxLocalField(g) \in Nat
  BY <1>1, NodeFieldIs, MaxLocalFieldIs
<1>7. m[k] <= MaxLocalField(g)
  BY <1>3, <1>4, <1>5, <1>6
<1>. QED BY <1>2, <1>3, <1>7

-----------------------------------------------------------------------------
(* Plans. *)

\* The limits derived from the widths of the machine types.
LEMMA Widths ==
    /\ UnitMilli \in Nat \ {0} /\ I8Max \in Nat \ {0} /\ F24Max \in Nat /\ I32Max \in Nat
    /\ I8Max <= I32Max /\ F24Max <= I32Max /\ OffGrid \notin Int
    /\ WIDE_MAX_FIELD \in Nat /\ 4 * WIDE_MAX_FIELD <= I32Max
    /\ MSA_WEIGHTED_MAX_FIELD = F24Max
<1>1. /\ UnitMilli \in Nat \ {0} /\ I8Max \in Nat \ {0} /\ F24Max \in Nat /\ I32Max \in Nat
      /\ I8Max <= I32Max /\ F24Max <= I32Max /\ OffGrid \notin Int
  BY WidthAssumption
<1>2. WIDE_MAX_FIELD \in Nat /\ 4 * WIDE_MAX_FIELD <= I32Max
  BY <1>1 DEF WIDE_MAX_FIELD
<1>. QED BY <1>1, <1>2 DEF MSA_WEIGHTED_MAX_FIELD

\* A plan, staging buffers and a coefficient are there or are not.
LEMMA NoneIs ==
    /\ None \notin Int
    /\ \A path \in {"Int8", "Wide"}, s \in Nat : CoefficientPlan(path, s) # None
    /\ \A r \in [h : Seq(Int), j : Seq(Int)] : r # None
BY PrepAssumption DEF CoefficientPlan

\* A whole number of units within the element type is exact.
LEMMA ScaledExact ==
    ASSUME NEW v \in Int, NEW s \in Nat \ {0}, NEW path \in {"Int8", "Wide"},
           Abs(v) % s = 0, Abs(v) \div s <= ElementMax(path)
    PROVE  Scaled(v, s, path) # None
<1> DEFINE unit == IF v < 0 THEN -((-v) \div s) ELSE v \div s
<1>1. ElementMax(path) \in Nat /\ None \notin Int /\ v # OffGrid
  BY Widths, NoneIs DEF ElementMax
<1>2. v % s = 0
  <2>1. CASE v < 0
    BY <2>1, NegativeMultiple DEF Abs
  <2>2. CASE ~(v < 0)
    BY <2>2 DEF Abs
  <2>. QED BY <2>1, <2>2
<1>3. Abs(v) \in Nat
  BY DEF Abs
<1>4. Abs(v) \div s \in Nat
  BY <1>3
<1>5. unit = Abs(v) \div s \/ unit = -(Abs(v) \div s)
  BY DEF Abs
<1>6. unit \in (-ElementMax(path) - 1)..ElementMax(path) /\ unit \in Int
  <2>1. \A q, e \in Nat : q <= e => q \in (-e - 1)..e /\ -q \in (-e - 1)..e
    OBVIOUS
  <2>2. \A q \in Nat : q \in Int /\ -q \in Int
    OBVIOUS
  <2>. HIDE DEF unit
  <2>. QED BY <1>1, <1>4, <1>5, <2>1, <2>2
<1>7. Scaled(v, s, path) = unit
  <2>1. unit = IF v < 0 THEN -((-v) \div s) ELSE v \div s
    OBVIOUS
  <2>. HIDE DEF unit
  <2>. QED BY <1>1, <1>2, <1>6, <2>1 DEF Scaled
<1>. HIDE DEF unit
<1>. QED BY <1>1, <1>6, <1>7

\* Every coefficient is exact in the units and the element type of a plan.
Exact(g, p) ==
    /\ p.scale \in Nat \ {0} /\ p.path \in {"Int8", "Wide"}
    /\ \A i \in Nodes(g) : Scaled(g.h[i], p.scale, p.path) # None
    /\ \A k \in Edges(g) : InRange(g, k) => Coupling(g, k, p) # None

UnitValues(g) ==
    /\ \A i \in DOMAIN g.h : g.h[i] \in {-UnitMilli, 0, UnitMilli}
    /\ \A k \in DOMAIN g.j : g.j[k] \in {-UnitMilli, UnitMilli}

LargestField(g) == MaxLocalField(g) \div ScaleMilli(g)

\* What a plan of each kernel has seen to.
PlanCase(kind, g, wide, p) ==
    \/ kind # "Sa" /\ p = CoefficientPlan("Int8", UnitMilli) /\ UnitValues(g)
    \/ /\ MilliAll(g)
       /\ \/ /\ kind = "Sa" /\ p = CoefficientPlan("Int8", ScaleMilli(g))
             /\ 2 * LargestField(g) <= I8Max
          \/ /\ kind = "Sa" /\ p = CoefficientPlan("Wide", ScaleMilli(g))
             /\ LargestField(g) <= WIDE_MAX_FIELD /\ Len(g.h) <= wide
          \/ /\ kind = "Msa" /\ p = CoefficientPlan("Wide", ScaleMilli(g))
             /\ LargestField(g) <= F24Max /\ Len(g.h) <= wide
          \/ /\ kind = "Gibbs" /\ p = CoefficientPlan("Int8", ScaleMilli(g))
             /\ Max({0} \cup Milli(g)) \div ScaleMilli(g) <= I8Max

\* A plan is one of those the code makes.
LEMMA PlanCases ==
    ASSUME NEW g, IsGraph(g), NEW kind \in KernelKind, NEW wide, Plan(kind, g, wide) # None
    PROVE  PlanCase(kind, g, wide, Plan(kind, g, wide))
<1>1. CASE kind # "Sa" /\ IsUnitMining(g)
  BY <1>1 DEF Plan, PlanCase, IsUnitMining, UnitValues
<1>2. CASE ~(kind # "Sa" /\ IsUnitMining(g))
  <2>1. MilliAll(g)
    BY <1>2 DEF Plan
  <2>2. OnGrid(g)
    BY <2>1, MilliIs DEF MilliAll
  <2>3. CASE kind = "Sa"
    <3>1. Plan(kind, g, wide) = PlanSa(g, wide)
      BY <1>2, <2>1, <2>3 DEF Plan
    <3>. QED BY <2>1, <2>3, <3>1 DEF PlanSa, PlanCase, LargestField
  <2>4. CASE kind = "Msa"
    <3>1. Plan(kind, g, wide) = PlanMsa(g, wide)
      BY <1>2, <2>1, <2>4 DEF Plan
    <3>2. ASSUME UnitMilliValues(g) PROVE UnitValues(g)
      <4>1. \A k \in DOMAIN g.j : g.j[k] \in Int
        BY <2>2 DEF OnGrid, Values
      <4>2. \A v \in Int : Abs(v) = UnitMilli => v = UnitMilli \/ v = -UnitMilli
        BY Widths DEF Abs
      <4>. QED BY <3>2, <4>1, <4>2 DEF UnitMilliValues, UnitValues
    <3>3. CASE UnitMilliValues(g)
      <4>1. Plan(kind, g, wide) = CoefficientPlan("Int8", UnitMilli)
        BY <3>1, <3>3 DEF PlanMsa
      <4>. QED BY <2>4, <3>2, <3>3, <4>1 DEF PlanCase
    <3>4. CASE ~UnitMilliValues(g)
      BY <2>1, <2>4, <3>1, <3>4, Widths DEF PlanMsa, PlanCase, LargestField
    <3>. QED BY <3>3, <3>4
  <2>5. CASE kind = "Gibbs"
    <3>1. Plan(kind, g, wide) = PlanGibbs(g)
      BY <1>2, <2>1, <2>5 DEF Plan
    <3>. QED BY <2>1, <2>5, <3>1 DEF PlanGibbs, PlanCase
  <2>. QED BY <2>3, <2>4, <2>5 DEF KernelKind
<1>. QED BY <1>1, <1>2

\* The largest field in units of a scale that divides every coefficient is
\* the least at the largest of them.
LEMMA LargestFieldIs ==
    ASSUME NEW g, IsGraph(g), MilliAll(g)
    PROVE  /\ OffGrid \notin Values(g) /\ Milli(g) \subseteq Nat
           /\ ScaleMilli(g) \in Nat \ {0} /\ \A v \in Milli(g) : v % ScaleMilli(g) = 0
           /\ MaxLocalField(g) \in Nat /\ LargestField(g) \in Nat
           /\ \A v \in Milli(g) : /\ v <= Max({0} \cup Milli(g))
                                   /\ v \div ScaleMilli(g) \in Nat
                                   /\ v \div ScaleMilli(g) <= Max({0} \cup Milli(g)) \div ScaleMilli(g)
           /\ Max({0} \cup Milli(g)) \in {0} \cup Milli(g)
<1> DEFINE S == {0} \cup Milli(g)
<1>1. OffGrid \notin Values(g) /\ Milli(g) \subseteq Nat /\ \A v \in Milli(g) : v <= I32Max
  BY MilliIs DEF MilliAll
<1>2. ScaleMilli(g) \in Nat \ {0} /\ \A v \in Milli(g) : v % ScaleMilli(g) = 0
  BY <1>1, ScaleIs
<1>3. MaxLocalField(g) \in Nat
  BY <1>1, MaxLocalFieldIs
<1>4. LargestField(g) \in Nat
  BY <1>2, <1>3 DEF LargestField
<1>5. S \subseteq Nat /\ S # {} /\ I32Max \in Nat /\ \A x \in S : x <= I32Max
  BY <1>1, Widths
<1>6. Max(S) \in S /\ \A x \in S : x <= Max(S)
  <2>. HIDE DEF S
  <2>. QED BY <1>5, Greatest
<1>7. ASSUME NEW v \in Milli(g)
      PROVE  /\ v <= Max(S) /\ v \div ScaleMilli(g) \in Nat
             /\ v \div ScaleMilli(g) <= Max(S) \div ScaleMilli(g)
  <2>1. v \in Nat /\ Max(S) \in Nat /\ v <= Max(S)
    BY <1>1, <1>5, <1>6
  <2>. HIDE DEF S
  <2>. QED BY <1>2, <2>1, QuotientMonotone
<1>. QED BY <1>1, <1>2, <1>3, <1>4, <1>6, <1>7

\* No scale that keeps the coefficients whole makes them, or the largest local
\* field, smaller than the scale of the graph does.
LEMMA CoarsestScale ==
    ASSUME NEW g, IsGraph(g), MilliAll(g), NEW s \in Nat \ {0}, \A v \in Milli(g) : v % s = 0
    PROVE  /\ LargestField(g) <= MaxLocalField(g) \div s /\ MaxLocalField(g) \div s \in Nat
           /\ \A v \in Milli(g) : v \div ScaleMilli(g) <= v \div s
<1>1. /\ OffGrid \notin Values(g) /\ Milli(g) \subseteq Nat
      /\ ScaleMilli(g) \in Nat \ {0} /\ MaxLocalField(g) \in Nat
  BY LargestFieldIs
<1>2. CASE Milli(g) \subseteq {0}
  <2>1. MaxLocalField(g) = 0
    BY <1>1, <1>2, NoField
  <2>2. \A r \in Nat \ {0} : 0 \div r = 0
    OBVIOUS
  <2>. QED BY <1>1, <1>2, <2>1, <2>2 DEF LargestField
<1>3. CASE ~(Milli(g) \subseteq {0})
  <2>1. s <= ScaleMilli(g)
    BY <1>1, <1>3, ScaleIs
  <2>2. \A a \in Nat : a \div ScaleMilli(g) <= a \div s /\ a \div s \in Nat
    BY <1>1, <2>1, QuotientByMore
  <2>. QED BY <1>1, <2>2 DEF LargestField
<1>. QED BY <1>2, <1>3

\* A plan is exact.
LEMMA PlanExact ==
    ASSUME NEW g, IsGraph(g), NEW kind \in KernelKind, NEW wide, NEW p,
           PlanCase(kind, g, wide, p)
    PROVE  Exact(g, p)
<1>1. CASE kind # "Sa" /\ p = CoefficientPlan("Int8", UnitMilli) /\ UnitValues(g)
  <2>1. p.path = "Int8" /\ p.scale = UnitMilli
    BY <1>1 DEF CoefficientPlan
  <2>2. \A v \in {-UnitMilli, 0, UnitMilli} : Scaled(v, UnitMilli, "Int8") # None
    <3>1. SUFFICES ASSUME NEW v \in {-UnitMilli, 0, UnitMilli}
                   PROVE  Scaled(v, UnitMilli, "Int8") # None
      OBVIOUS
    <3>2. v \in Int /\ (Abs(v) = 0 \/ Abs(v) = UnitMilli)
      BY Widths DEF Abs
    <3>3. /\ UnitMilli % UnitMilli = 0 /\ UnitMilli \div UnitMilli = 1
          /\ 0 % UnitMilli = 0 /\ 0 \div UnitMilli = 0
      BY Widths
    <3>4. Abs(v) % UnitMilli = 0 /\ Abs(v) \div UnitMilli <= ElementMax("Int8")
      BY <3>2, <3>3, Widths DEF ElementMax
    <3>. QED BY <3>2, <3>4, Widths, ScaledExact
  <2>3. \A i \in Nodes(g) : g.h[i] \in {-UnitMilli, 0, UnitMilli}
    BY <1>1 DEF UnitValues, Nodes
  <2>4. \A k : Given(g, k) \in {-UnitMilli, 0, UnitMilli}
    BY <1>1 DEF UnitValues, Given
  <2>. QED BY <2>1, <2>2, <2>3, <2>4, Widths DEF Exact, Coupling
<1>2. CASE ~(kind # "Sa" /\ p = CoefficientPlan("Int8", UnitMilli) /\ UnitValues(g))
  <2>1. MilliAll(g)
    BY <1>2 DEF PlanCase
  <2> DEFINE s == ScaleMilli(g)
             top == IF kind = "Gibbs" THEN Max({0} \cup Milli(g)) ELSE MaxLocalField(g)
  <2>2. /\ OffGrid \notin Values(g) /\ Milli(g) \subseteq Nat /\ s \in Nat \ {0}
        /\ \A v \in Milli(g) : v % s = 0
        /\ MaxLocalField(g) \in Nat /\ LargestField(g) \in Nat
        /\ \A v \in Milli(g) : v <= Max({0} \cup Milli(g))
        /\ Max({0} \cup Milli(g)) \in Nat
    BY <2>1, LargestFieldIs
  <2>3. p.scale = s /\ p.path \in {"Int8", "Wide"} /\ top \div s <= ElementMax(p.path)
    <3>1. ElementMax("Int8") = I8Max /\ ElementMax("Wide") = I32Max
      BY DEF ElementMax
    <3>2. CASE kind = "Sa" /\ p = CoefficientPlan("Int8", s) /\ 2 * LargestField(g) <= I8Max
      <4>1. p.scale = s /\ p.path = "Int8" /\ top \div s = LargestField(g)
        BY <3>2 DEF CoefficientPlan, LargestField
      <4>. QED BY <2>2, <3>1, <3>2, <4>1, Widths
    <3>3. CASE kind = "Sa" /\ p = CoefficientPlan("Wide", s) /\ LargestField(g) <= WIDE_MAX_FIELD
      <4>1. p.scale = s /\ p.path = "Wide" /\ top \div s = LargestField(g)
        BY <3>3 DEF CoefficientPlan, LargestField
      <4>. QED BY <2>2, <3>1, <3>3, <4>1, Widths
    <3>4. CASE kind = "Msa" /\ p = CoefficientPlan("Wide", s) /\ LargestField(g) <= F24Max
      <4>1. p.scale = s /\ p.path = "Wide" /\ top \div s = LargestField(g)
        BY <3>4 DEF CoefficientPlan, LargestField
      <4>. QED BY <2>2, <3>1, <3>4, <4>1, Widths
    <3>5. CASE /\ kind = "Gibbs" /\ p = CoefficientPlan("Int8", s)
               /\ Max({0} \cup Milli(g)) \div s <= I8Max
      <4>1. p.scale = s /\ p.path = "Int8" /\ top = Max({0} \cup Milli(g))
        BY <3>5 DEF CoefficientPlan
      <4>. QED BY <3>1, <3>5, <4>1
    <3>. QED BY <1>2, <3>2, <3>3, <3>4, <3>5 DEF PlanCase
  <2>4. top \in Nat
    BY <2>2
  <2>. HIDE DEF s
  <2>5. ASSUME NEW v \in Int, Abs(v) \in Nat, Abs(v) % s = 0, Abs(v) <= top
        PROVE  Scaled(v, p.scale, p.path) # None
    <3>. HIDE DEF top
    <3>1. Abs(v) \div s \in Nat /\ top \div s \in Nat /\ Abs(v) \div s <= top \div s
      BY <2>2, <2>4, <2>5, QuotientMonotone
    <3>2. ElementMax(p.path) \in Nat
      BY Widths DEF ElementMax
    <3>3. Abs(v) \div s <= ElementMax(p.path)
      BY <2>3, <3>1, <3>2
    <3>. QED BY <2>2, <2>3, <2>5, <3>3, ScaledExact
  <2>6. ASSUME NEW i \in Nodes(g) PROVE Scaled(g.h[i], p.scale, p.path) # None
    <3>1. /\ g.h[i] \in Int /\ Abs(g.h[i]) \in Nat /\ Abs(g.h[i]) \in Milli(g)
          /\ NodeField(g, i) = Abs(g.h[i]) + SumOf(Pulls(g, i), Coupled(g))
          /\ SumOf(Pulls(g, i), Coupled(g)) \in Nat
          /\ NodeField(g, i) <= MaxLocalField(g)
      BY <2>2, NodeFieldIs, MaxLocalFieldIs
    <3>2. Abs(g.h[i]) <= MaxLocalField(g)
      BY <2>2, <3>1
    <3>3. Abs(g.h[i]) <= top
      BY <2>2, <3>1, <3>2
    <3>. HIDE DEF top
    <3>. QED BY <2>2, <2>5, <3>1, <3>3
  <2>7. ASSUME NEW k \in Edges(g), InRange(g, k) PROVE Coupling(g, k, p) # None
    <3>1. Given(g, k) \in Int /\ Abs(Given(g, k)) \in Nat /\ Abs(Given(g, k)) <= MaxLocalField(g)
      BY <2>2, <2>7, CouplingBound
    <3>2. Abs(Given(g, k)) % s = 0 /\ Abs(Given(g, k)) <= top
      <4>1. CASE k \in DOMAIN g.j
        <5>1. Abs(Given(g, k)) \in Milli(g)
          BY <4>1 DEF Given, Milli, Values
        <5>. QED BY <2>2, <3>1, <5>1
      <4>2. CASE k \notin DOMAIN g.j
        <5>1. Abs(Given(g, k)) = 0
          BY <4>2 DEF Given, Abs
        <5>2. 0 % s = 0
          BY <2>2
        <5>. HIDE DEF top
        <5>. QED BY <2>4, <5>1, <5>2
      <4>. QED BY <4>1, <4>2
    <3>. HIDE DEF top
    <3>. QED BY <2>5, <3>1, <3>2 DEF Coupling
  <2>. QED BY <2>2, <2>3, <2>6, <2>7 DEF Exact
<1>. QED BY <1>1, <1>2

\* What a refusal has seen to.
LEMMA RefusedCases ==
    ASSUME NEW g, IsGraph(g), NEW kind \in KernelKind, NEW wide,
           Plan(kind, g, wide) = None, MilliAll(g)
    PROVE  \/ /\ kind = "Sa" /\ ~(2 * LargestField(g) <= I8Max)
             /\ ~(LargestField(g) <= WIDE_MAX_FIELD /\ wide # 0 /\ Len(g.h) <= wide)
          \/ /\ kind = "Msa"
             /\ ~(LargestField(g) <= F24Max /\ wide # 0 /\ Len(g.h) <= wide)
          \/ /\ kind = "Gibbs" /\ ~(Max({0} \cup Milli(g)) \div ScaleMilli(g) <= I8Max)
<1>1. ScaleMilli(g) \in Nat /\ UnitMilli \in Nat
  BY LargestFieldIs, Widths
<1>2. \A path \in {"Int8", "Wide"} : /\ CoefficientPlan(path, ScaleMilli(g)) # None
                                     /\ CoefficientPlan(path, UnitMilli) # None
  BY <1>1, NoneIs
<1>3. ~(kind # "Sa" /\ IsUnitMining(g))
  BY <1>2 DEF Plan
<1>4. CASE kind = "Sa"
  <2>1. PlanSa(g, wide) = None
    BY <1>3, <1>4 DEF Plan
  <2>. QED BY <1>2, <1>4, <2>1 DEF PlanSa, LargestField
<1>5. CASE kind = "Msa"
  <2>1. PlanMsa(g, wide) = None
    BY <1>3, <1>5 DEF Plan
  <2>. QED BY <1>2, <1>5, <2>1, Widths DEF PlanMsa, LargestField
<1>6. CASE kind = "Gibbs"
  <2>1. PlanGibbs(g) = None
    BY <1>3, <1>6 DEF Plan
  <2>. QED BY <1>2, <1>6, <2>1 DEF PlanGibbs
<1>. QED BY <1>4, <1>5, <1>6 DEF KernelKind

\* Filling with an exact plan does not fail.
LEMMA FillExact ==
    ASSUME NEW top, NEW g, IsGraph(g), NEW p, Exact(g, p), Nnz(top) \in Nat
    PROVE  FillCoefficients(top, g, p) # None
<1> DEFINE h == [i \in Nodes(g) |-> Scaled(g.h[i], p.scale, p.path)]
           j == [pos \in 1..Nnz(top) |->
                    IF Claims(top, g, pos) = {} THEN 0
                    ELSE Coupling(g, Max(Claims(top, g, pos)), p)]
<1>1. FillCoefficients(top, g, p) = [h |-> h, j |-> j]
  <2>1. /\ ~\E i \in Nodes(g) : h[i] = None
        /\ ~\E k \in Edges(g) : InRange(g, k) /\ Coupling(g, k, p) = None
    BY DEF Exact
  <2>. QED BY <2>1 DEF FillCoefficients, Claims
<1>2. h \in Seq(Int)
  <2>1. ASSUME NEW i \in Nodes(g) PROVE Scaled(g.h[i], p.scale, p.path) \in Int
    <3>1. g.h[i] \in Int \cup {OffGrid}
      BY DEF IsGraph, Nodes
    <3>. QED BY <3>1, ScaledIs DEF Exact
  <2>2. Nodes(g) = 1..Len(g.h) /\ Len(g.h) \in Nat
    BY GraphParts
  <2>. QED BY <2>1, <2>2
<1>3. j \in Seq(Int)
  <2>1. ASSUME NEW pos \in 1..Nnz(top) PROVE j[pos] \in Int
    <3> DEFINE C == Claims(top, g, pos)
    <3>1. CASE C = {}
      BY <3>1
    <3>2. CASE C # {}
      <4>1. C \subseteq Edges(g) /\ \A k \in C : InRange(g, k)
        BY DEF Claims, Written
      <4>2. IsFiniteSet(Edges(g)) /\ Edges(g) \subseteq Nat
        BY GraphParts
      <4>3. j[pos] = Coupling(g, Max(C), p)
        BY <3>2
      <4>. HIDE DEF C, j
      <4>4. Max(C) \in C
        BY <3>2, <4>1, <4>2, FS_Subset, GreatestOf
      <4>5. Given(g, Max(C)) \in Int \cup {OffGrid}
        BY DEF Given, IsGraph
      <4>6. Coupling(g, Max(C), p) # None
        BY <4>1, <4>4 DEF Exact
      <4>7. Coupling(g, Max(C), p) \in Int
        BY <4>5, <4>6, ScaledIs DEF Exact, Coupling
      <4>. QED BY <4>3, <4>7
    <3>. QED BY <3>1, <3>2
  <2>2. Nnz(top) \in Nat /\ j = [pos \in 1..Nnz(top) |-> j[pos]]
    OBVIOUS
  <2>. HIDE DEF j
  <2>. QED BY <2>1, <2>2
<1>. HIDE DEF h, j
<1>. QED BY <1>1, <1>2, <1>3, NoneIs

\* The field of a node, in kernel units, is within the largest field of the
\* job, in those units.
LEMMA KernelFieldBound ==
    ASSUME NEW g0, StagedFor(g0), OffGrid \notin Values(model),
           NEW s \in Spins(model), NEW i \in Nodes(model)
    PROVE  /\ Abs(KernelField(s, i)) \in Nat
           /\ Abs(KernelField(s, i)) <= MaxLocalField(model) \div sessionPlan.scale
<1> DEFINE m == [k \in Incident(model, i) |-> Given(model, k) * s[Across(model, i, k)]]
           P == SumOf(Pulls(model, i), Coupled(model))
           K == KernelField(s, i)
           scale == sessionPlan.scale
<1>1. IsGraph(model) /\ scale \in Nat \ {0}
  BY DEF StagedFor
<1>2. K \in Int /\ K * scale = ModelField(s, i)
  BY FieldIs
<1>3. ModelField(s, i) = model.h[i] + SumOf(m, Incident(model, i))
  <2>1. ModelField(s, i) = model.h[i] + SumFunction(m)
    BY DEF ModelField, Incident, Across
  <2>2. DOMAIN m = Incident(model, i)
    OBVIOUS
  <2>. HIDE DEF m
  <2>. QED BY <2>1, <2>2, SumFunctionAll
<1>4. ASSUME NEW k \in Incident(model, i)
      PROVE  m[k] \in Int /\ m[k] <= Abs(Given(model, k)) /\ -Abs(Given(model, k)) <= m[k]
  <2>1. k \in Edges(model) /\ InRange(model, k)
    BY DEF Incident
  <2>2. Given(model, k) \in Int
    BY <1>1, <2>1, CouplingBound
  <2>3. s[Across(model, i, k)] \in {-1, 1}
    BY <2>1 DEF Across, InRange, Spins
  <2>4. \A x \in Int : /\ x * 1 = x /\ x * (-1) = -x /\ x <= Abs(x) /\ -x <= Abs(x)
                       /\ -Abs(x) <= x /\ -Abs(x) <= -x
    BY DEF Abs
  <2>5. m[k] = Given(model, k) * s[Across(model, i, k)]
    OBVIOUS
  <2>. HIDE DEF m
  <2>6. m[k] = Given(model, k) \/ m[k] = -Given(model, k)
    BY <2>2, <2>3, <2>4, <2>5
  <2>. QED BY <2>2, <2>4, <2>6
<1>5. SumOf(m, Incident(model, i)) \in Int /\ SumOf(m, Incident(model, i)) <= P /\ -P <= SumOf(m, Incident(model, i))
  <2>1. \A k \in Incident(model, i) : m[k] \in Int /\ m[k] <= Abs(Given(model, k)) /\ -Abs(Given(model, k)) <= m[k]
    BY <1>4
  <2>2. Incident(model, i) \subseteq Incident(model, i)
    OBVIOUS
  <2>. HIDE DEF m
  <2>. QED BY <1>1, <2>1, <2>2, FieldBound
<1>6. /\ model.h[i] \in Int /\ Abs(model.h[i]) \in Nat /\ P \in Nat
      /\ Abs(model.h[i]) + P <= MaxLocalField(model) /\ MaxLocalField(model) \in Nat
  BY <1>1, NodeFieldIs, MaxLocalFieldIs
<1>. HIDE DEF m, P
<1>7. /\ ModelField(s, i) \in Int
      /\ ModelField(s, i) <= MaxLocalField(model) /\ -MaxLocalField(model) <= ModelField(s, i)
  <2>1. model.h[i] <= Abs(model.h[i]) /\ -Abs(model.h[i]) <= model.h[i]
    BY <1>6 DEF Abs
  <2>. QED BY <1>3, <1>5, <1>6, <2>1
<1>. HIDE DEF K, scale
<1>8. Abs(K) \in Nat /\ Abs(K) * scale <= MaxLocalField(model)
  <2>1. CASE K < 0
    <3>1. (-K) * scale = -(K * scale)
      BY <1>1, <1>2
    <3>2. Abs(K) = -K /\ -K \in Nat
      BY <1>2, <2>1 DEF Abs
    <3>3. (-K) * scale <= MaxLocalField(model)
      BY <1>2, <1>6, <1>7, <3>1
    <3>. QED BY <3>2, <3>3
  <2>2. CASE ~(K < 0)
    <3>1. Abs(K) = K /\ K \in Nat
      BY <1>2, <2>2 DEF Abs
    <3>. QED BY <1>2, <1>7, <3>1
  <2>. QED BY <2>1, <2>2
<1>9. Abs(K) <= MaxLocalField(model) \div scale
  <2> DEFINE a == Abs(K)
  <2>. HIDE DEF a
  <2>1. a \in Nat /\ a * scale <= MaxLocalField(model)
    BY <1>8 DEF a
  <2>2. a <= MaxLocalField(model) \div scale
    BY <1>1, <1>6, <2>1, QuotientAtLeast
  <2>. QED BY <2>2 DEF a
<1>. QED BY <1>8, <1>9 DEF K, scale

-----------------------------------------------------------------------------
(* The invariant. *)

Stages == {"plan", "refused", "build", "too large", "fill", "filled", "inexact"}

WideNodes == WideMaxNodes(backend, PrepDevice)

\* The topology is that of a graph with the edges of the job at hand: the seed
\* of the session.
Seeded == \E g0 \in PrepGraphs : /\ SameShape(model, g0)
                                /\ \E order \in DegreeOrders(g0) : topology = Topology(g0, order)

\* What the capacity guards and the degree guard of a build refuse.
Refused == \/ topology.n > PrepDevice.maxNodes
           \/ backend = "Sa" /\ sessionPlan.path = "Wide" /\ topology.n > PrepDevice.saWideMaxNodes
           \/ backend = "Msa" /\ MaxDegree(topology) > MSA_MAX_DEGREE

\* The plan of the session is that of the job at hand, the topology that of
\* its edges, and what is staged its coefficients.
PrepInv ==
    /\ stage \in Stages /\ backend \in PrepKernel /\ model \in PrepGraphs
    /\ stage # "plan" => sessionPlan = Plan(backend, model, WideNodes)
    /\ stage = "refused" => sessionPlan = None
    /\ stage \notin {"plan", "refused"} => sessionPlan # None
    /\ IF stage \in {"plan", "refused", "build"} THEN topology = None ELSE Seeded
    /\ stage = "filled" => staged = FillCoefficients(topology, model, sessionPlan) /\ staged # None
    /\ stage = "too large" => Refused
    /\ stage # "inexact"

\* The jobs are graphs.
LEMMA GraphsAre ==
    \A g \in PrepGraphs : IsGraph(g)
BY PrepAssumption DEF IsGraph

\* Kernels and capacities of the sessions.
LEMMA KernelsAre ==
    /\ PrepKernel \subseteq KernelKind
    /\ PrepDevice.maxNodes \in Nat \ {0} /\ PrepDevice.saWideMaxNodes \in Nat
BY PrepAssumption

\* The plan of a session is exact for the job at hand.
LEMMA SessionPlanFits ==
    ASSUME PrepInv, sessionPlan # None, stage # "plan"
    PROVE  IsGraph(model) /\ PlanCase(backend, model, WideNodes, sessionPlan) /\ Exact(model, sessionPlan)
<1>1. IsGraph(model) /\ backend \in KernelKind /\ sessionPlan = Plan(backend, model, WideNodes)
  BY GraphsAre, KernelsAre DEF PrepInv
<1>2. PlanCase(backend, model, WideNodes, sessionPlan)
  BY <1>1, PlanCases
<1>. QED BY <1>1, <1>2, PlanExact

\* The layout is that of a graph with the edges of the job at hand.
LEMMA SeededIs ==
    ASSUME NEW g0 \in PrepGraphs, SameShape(model, g0), IsGraph(model),
           NEW order \in DegreeOrders(g0), topology = Topology(g0, order)
    PROVE  /\ IsGraph(g0) /\ LaysOut(topology, g0) /\ topology.n = Len(model.h)
           /\ Nnz(topology) \in Nat
           /\ topology.color = GreedyColor(g0, order)
<1>1. IsGraph(g0)
  BY GraphsAre
<1>2. LaysOut(topology, g0) /\ topology.color = GreedyColor(g0, order)
  BY <1>1, TopologyIs
<1>3. Total(g0) \in Nat
  <2>1. IsFiniteSet(Nodes(g0)) /\ \A m \in Nodes(g0) : Degrees(g0)[m] \in Nat
    BY <1>1, GraphParts, RowLists DEF Degrees, Degree
  <2>2. Nodes(g0) \in SUBSET Nodes(g0)
    OBVIOUS
  <2>. QED BY <2>1, <2>2, SumOfPartial DEF Total
<1>. QED BY <1>1, <1>2, <1>3 DEF LaysOut, SameShape

\* The invariant holds throughout: a build lays out the graph it is for, a slot
\* is filled with coefficients its plan is exact for, and a job that reuses the
\* session has its edges and its plan.
THEOREM PrepInvAlways == PrepSpec => []PrepInv
<1>1. PrepInit => PrepInv
  BY DEF PrepInit, PrepInv, Stages
<1>2. ASSUME PrepInv, [PrepNext]_prepVars PROVE PrepInv'
  <2>. USE <1>2
  <2>1. CASE PlanSeed
    BY <2>1 DEF PlanSeed, PrepInv, Stages, WideNodes
  <2>2. CASE BuildSession
    <3>1. /\ stage = "build" /\ stage' \in {"too large", "fill"}
          /\ UNCHANGED <<backend, model, sessionPlan, staged>>
      BY <2>2 DEF BuildSession
    <3>2. PICK order \in DegreeOrders(model) :
              /\ topology' = Topology(model, order)
              /\ stage' = "too large" =>
                     \/ topology'.n > PrepDevice.maxNodes
                     \/ backend = "Sa" /\ sessionPlan.path = "Wide" /\ topology'.n > PrepDevice.saWideMaxNodes
                     \/ backend = "Msa" /\ MaxDegree(topology') > MSA_MAX_DEGREE
      BY <2>2 DEF BuildSession
    <3>3. Seeded'
      <4>1. model' \in PrepGraphs /\ SameShape(model', model')
        BY <3>1 DEF PrepInv, SameShape
      <4>2. order \in DegreeOrders(model') /\ topology' = Topology(model', order)
        BY <3>1, <3>2
      <4>. QED BY <4>1, <4>2 DEF Seeded
    <3>4. stage' = "too large" => Refused'
      BY <3>1, <3>2 DEF Refused, MaxDegree
    <3>. QED BY <3>1, <3>3, <3>4 DEF PrepInv, Stages, WideNodes
  <2>3. CASE FillSlot
    <3>1. /\ stage = "fill" /\ staged' = FillCoefficients(topology, model, sessionPlan)
          /\ stage' = IF staged' = None THEN "inexact" ELSE "filled"
          /\ UNCHANGED <<backend, model, sessionPlan, topology>>
      BY <2>3 DEF FillSlot
    <3>2. IsGraph(model) /\ Exact(model, sessionPlan) /\ Seeded
      BY <3>1, SessionPlanFits DEF PrepInv
    <3>3. Nnz(topology) \in Nat
      BY <3>2, SeededIs DEF Seeded
    <3>4. staged' # None
      BY <3>1, <3>2, <3>3, FillExact
    <3>5. stage' = "filled" /\ (staged = FillCoefficients(topology, model, sessionPlan))'
      BY <3>1, <3>4
    <3>6. Seeded'
      BY <3>1, <3>2 DEF Seeded
    <3>. QED BY <3>1, <3>4, <3>5, <3>6 DEF PrepInv, Stages, WideNodes
  <2>4. CASE NextJob
    <3>1. /\ stage = "filled" /\ stage' = "fill"
          /\ UNCHANGED <<backend, sessionPlan, topology, staged>>
          /\ model' \in PrepGraphs /\ SameShape(model', model)
          /\ Plan(backend, model', WideNodes) = sessionPlan
      BY <2>4 DEF NextJob, SameShape, WideNodes
    <3>2. Seeded'
      <4>1. PICK g0 \in PrepGraphs : /\ SameShape(model, g0)
                                     /\ \E order \in DegreeOrders(g0) : topology = Topology(g0, order)
        BY <3>1 DEF PrepInv, Seeded
      <4>2. SameShape(model', g0)
        BY <3>1, <4>1 DEF SameShape
      <4>. QED BY <3>1, <4>1, <4>2 DEF Seeded
    <3>. QED BY <3>1, <3>2 DEF PrepInv, Stages, WideNodes
  <2>5. CASE UNCHANGED prepVars
    BY <2>5 DEF prepVars, PrepInv, Stages, WideNodes, Seeded, Refused, MaxDegree
  <2>. QED BY <2>1, <2>2, <2>3, <2>4, <2>5 DEF PrepNext
<1>. QED BY <1>1, <1>2, PTL DEF PrepSpec

\* What is staged is the job at hand.
LEMMA FilledIs ==
    ASSUME PrepInv, stage = "filled"
    PROVE  /\ \E g0 \in PrepGraphs : StagedFor(g0)
           /\ PlanCase(backend, model, WideNodes, sessionPlan)
           /\ backend \in KernelKind
<1>1. /\ sessionPlan # None /\ Seeded /\ staged # None /\ backend \in KernelKind
      /\ staged = FillCoefficients(topology, model, sessionPlan)
  BY KernelsAre DEF PrepInv, Stages
<1>2. /\ IsGraph(model) /\ PlanCase(backend, model, WideNodes, sessionPlan)
      /\ Exact(model, sessionPlan)
  BY <1>1, SessionPlanFits
<1>3. PICK g0 \in PrepGraphs : /\ SameShape(model, g0)
                               /\ \E order \in DegreeOrders(g0) : topology = Topology(g0, order)
  BY <1>1 DEF Seeded
<1>4. IsGraph(g0) /\ LaysOut(topology, g0)
  BY <1>2, <1>3, SeededIs
<1>5. StagedFor(g0)
  BY <1>1, <1>2, <1>3, <1>4 DEF StagedFor, Exact
<1>. QED BY <1>1, <1>2, <1>5

\* Whatever the graphs of a session and the order its nodes are colored in:
\* the fields a kernel reads from the layout of the first job are those of the
\* job at hand, and nodes updated together are not neighbours.
THEOREM JobsAreFaithful == PrepSpec => []UploadFaithful
<1>1. ASSUME PrepInv PROVE UploadFaithful
  <2>. USE <1>1
  <2>1. ASSUME stage = "filled", NEW s \in Spins(model), NEW i \in Nodes(model)
        PROVE  KernelField(s, i) * sessionPlan.scale = ModelField(s, i)
    BY <2>1, FilledIs, FieldIs
  <2>2. ASSUME topology # None, NEW k \in Edges(model), InRange(model, k),
               model.edges[k][1] # model.edges[k][2]
        PROVE  topology.color[model.edges[k][1]] # topology.color[model.edges[k][2]]
    <3>1. IsGraph(model) /\ Seeded
      BY <2>2, GraphsAre DEF PrepInv
    <3>2. PICK g0 \in PrepGraphs : /\ SameShape(model, g0)
                                   /\ \E order \in DegreeOrders(g0) : topology = Topology(g0, order)
      BY <3>1 DEF Seeded
    <3>3. PICK order \in DegreeOrders(g0) : topology = Topology(g0, order)
      BY <3>2
    <3>4. IsGraph(g0) /\ topology.color = GreedyColor(g0, order)
      BY <3>1, <3>2, <3>3, SeededIs
    <3>5. Joins(g0, k) /\ k \in Edges(g0) /\ model.edges = g0.edges
      <4>1. Edges(model) = Edges(g0) /\ (InRange(model, k) <=> InRange(g0, k))
        BY <3>1, <3>2, <3>4, ShapeIs
      <4>. QED BY <2>2, <3>2, <4>1 DEF Joins, SameShape
    <3>6. GreedyColor(g0, order)[g0.edges[k][1]] # GreedyColor(g0, order)[g0.edges[k][2]]
      BY <3>3, <3>4, <3>5, ColoringProper
    <3>. QED BY <3>4, <3>5, <3>6
  <2>. QED BY <2>1, <2>2 DEF UploadFaithful
<1>. QED BY <1>1, PrepInvAlways, PTL

\* A job that is taken fits its kernel.
LEMMA TakenFits ==
    ASSUME PrepInv
    PROVE  PlanIsExact
<1>1. stage # "inexact"
  BY DEF PrepInv
<1>2. SUFFICES ASSUME stage = "filled", NEW s \in Spins(model), NEW i \in Nodes(model)
               PROVE  LET field == Abs(KernelField(s, i)) IN
                      CASE backend = "Sa" /\ sessionPlan.path = "Int8" -> 2 * field <= I8Max
                        [] backend = "Sa" /\ sessionPlan.path = "Wide" -> 4 * field <= I32Max
                        [] backend = "Msa" /\ sessionPlan.path = "Int8" ->
                               /\ staged.h[i] \in {-1, 0, 1}
                               /\ \A pos \in DOMAIN staged.j : staged.j[pos] \in {-1, 0, 1}
                        [] backend = "Msa" /\ sessionPlan.path = "Wide" -> field <= F24Max
                        [] backend = "Gibbs" -> sessionPlan.path = "Int8"
  BY <1>1 DEF PlanIsExact
<1> DEFINE field == Abs(KernelField(s, i))
           p == sessionPlan
<1>3. PICK g0 \in PrepGraphs : StagedFor(g0)
  BY <1>2, FilledIs
<1>4. PlanCase(backend, model, WideNodes, p) /\ IsGraph(model)
  BY <1>2, <1>3, FilledIs DEF StagedFor
<1>5. CASE backend # "Sa" /\ p = CoefficientPlan("Int8", UnitMilli) /\ UnitValues(model)
  <2>1. p.path = "Int8" /\ p.scale = UnitMilli
    BY <1>5 DEF CoefficientPlan
  <2>2. \A v \in {-UnitMilli, 0, UnitMilli} :
            Scaled(v, UnitMilli, "Int8") # None => Scaled(v, UnitMilli, "Int8") \in {-1, 0, 1}
    <3>1. SUFFICES ASSUME NEW v \in {-UnitMilli, 0, UnitMilli},
                          Scaled(v, UnitMilli, "Int8") # None
                   PROVE  Scaled(v, UnitMilli, "Int8") \in {-1, 0, 1}
      OBVIOUS
    <3>2. v \in Int /\ UnitMilli \in Nat \ {0}
      BY Widths
    <3> DEFINE q == Scaled(v, UnitMilli, "Int8")
    <3>3. q \in Int /\ q * UnitMilli = v
      BY <3>1, <3>2, ScaledIs
    <3>. HIDE DEF q
    <3>4. \A x \in Int : /\ x * UnitMilli = UnitMilli => x = 1
                         /\ x * UnitMilli = 0 => x = 0
                         /\ x * UnitMilli = -UnitMilli => x = -1
      BY <3>2
    <3>5. q \in {-1, 0, 1}
      BY <3>2, <3>3, <3>4
    <3>. QED BY <3>5 DEF q
  <2>3. staged.h[i] \in {-1, 0, 1}
    <3>1. /\ Scaled(model.h[i], p.scale, p.path) # None
          /\ staged.h[i] = Scaled(model.h[i], p.scale, p.path)
      <4>1. i \in Nodes(g0)
        BY <1>3, ShapeIs DEF StagedFor
      <4>. QED BY <1>3, <4>1, StagedIs
    <3>2. model.h[i] \in {-UnitMilli, 0, UnitMilli}
      BY <1>5 DEF UnitValues, Nodes
    <3>. QED BY <2>1, <2>2, <3>1, <3>2
  <2>4. ASSUME NEW pos \in DOMAIN staged.j PROVE staged.j[pos] \in {-1, 0, 1}
    <3>1. \/ staged.j[pos] = 0
          \/ \E k \in Edges(g0) : InRange(g0, k) /\ staged.j[pos] = Coupling(model, k, p)
      BY <1>3, StagedIs
    <3>2. ASSUME NEW k \in Edges(g0), InRange(g0, k) PROVE Coupling(model, k, p) \in {-1, 0, 1}
      <4>1. Coupling(model, k, p) # None
        BY <1>3, <3>2, StagedIs
      <4>2. Given(model, k) \in {-UnitMilli, 0, UnitMilli}
        BY <1>5 DEF UnitValues, Given
      <4>. QED BY <2>1, <2>2, <4>1, <4>2 DEF Coupling
    <3>. QED BY <3>1, <3>2
  <2>5. backend \in KernelKind
    BY <1>2, FilledIs
  <2>6. CASE backend = "Msa"
    BY <2>1, <2>3, <2>4, <2>6
  <2>7. CASE backend = "Gibbs"
    BY <2>1, <2>7
  <2>. QED BY <1>5, <2>5, <2>6, <2>7 DEF KernelKind
<1>6. CASE ~(backend # "Sa" /\ p = CoefficientPlan("Int8", UnitMilli) /\ UnitValues(model))
  <2>1. MilliAll(model) /\ p.scale = ScaleMilli(model)
    BY <1>4, <1>6 DEF PlanCase, CoefficientPlan
  <2>2. OffGrid \notin Values(model) /\ LargestField(model) \in Nat
    BY <1>4, <2>1, LargestFieldIs
  <2>3. field \in Nat /\ field <= LargestField(model)
    BY <1>2, <1>3, <2>1, <2>2, KernelFieldBound DEF LargestField
  <2>. HIDE DEF field
  <2>4. CASE backend = "Sa" /\ p.path = "Int8" /\ 2 * LargestField(model) <= I8Max
    <3>1. 2 * field <= I8Max
      BY <2>2, <2>3, <2>4, Widths
    <3>. QED BY <2>4, <3>1 DEF field
  <2>5. CASE backend = "Sa" /\ p.path = "Wide" /\ LargestField(model) <= WIDE_MAX_FIELD
    <3>1. 4 * field <= I32Max
      BY <2>2, <2>3, <2>5, Widths
    <3>. QED BY <2>5, <3>1 DEF field
  <2>6. CASE backend = "Msa" /\ p.path = "Wide" /\ LargestField(model) <= F24Max
    <3>1. field <= F24Max
      BY <2>2, <2>3, <2>6, Widths
    <3>. QED BY <2>6, <3>1 DEF field
  <2>7. CASE backend = "Gibbs" /\ p.path = "Int8"
    BY <2>7
  <2>8. \/ backend = "Sa" /\ p.path = "Int8" /\ 2 * LargestField(model) <= I8Max
        \/ backend = "Sa" /\ p.path = "Wide" /\ LargestField(model) <= WIDE_MAX_FIELD
        \/ backend = "Msa" /\ p.path = "Wide" /\ LargestField(model) <= F24Max
        \/ backend = "Gibbs" /\ p.path = "Int8"
    BY <1>4, <1>6 DEF PlanCase, CoefficientPlan
  <2>. QED BY <2>4, <2>5, <2>6, <2>7, <2>8
<1>. QED BY <1>5, <1>6

\* A job that is refused is refused at every scale.
LEMMA RefusedAtEveryScale ==
    ASSUME PrepInv
    PROVE  RefusedForGood
<1>1. SUFFICES ASSUME stage = "refused", MilliAll(model),
                      NEW s \in 1..Max({1} \cup Milli(model)), \A v \in Milli(model) : v % s = 0
               PROVE  ~HoldsAt(s)
  BY DEF RefusedForGood
<1>2. IsGraph(model) /\ backend \in KernelKind /\ Plan(backend, model, WideNodes) = None
  BY <1>1, GraphsAre, KernelsAre DEF PrepInv
<1>3. s \in Nat \ {0}
  OBVIOUS
<1>4. /\ LargestField(model) <= MaxLocalField(model) \div s /\ MaxLocalField(model) \div s \in Nat
      /\ \A v \in Milli(model) : v \div ScaleMilli(model) <= v \div s
  BY <1>1, <1>2, <1>3, CoarsestScale
<1>5. /\ Milli(model) \subseteq Nat /\ ScaleMilli(model) \in Nat \ {0}
      /\ LargestField(model) \in Nat /\ MaxLocalField(model) \in Nat
      /\ Max({0} \cup Milli(model)) \in {0} \cup Milli(model)
  BY <1>1, <1>2, LargestFieldIs
<1>6. WideNodes = WideMaxNodes(backend, PrepDevice)
  BY DEF WideNodes
<1>7. Len(model.h) \in Nat
  BY <1>2, GraphParts
<1>8. CASE /\ backend = "Sa" /\ ~(2 * LargestField(model) <= I8Max)
           /\ ~(LargestField(model) <= WIDE_MAX_FIELD /\ WideNodes # 0 /\ Len(model.h) <= WideNodes)
  <2>1. ~(2 * (MaxLocalField(model) \div s) <= I8Max)
    BY <1>4, <1>5, <1>8, Widths
  <2>2. WideNodes \in Nat
    BY <1>6, <1>8, KernelsAre DEF WideMaxNodes
  <2>3. WideNodes # 0 \/ Len(model.h) # 0
    <3>1. SUFFICES ASSUME Len(model.h) = 0 PROVE FALSE
      OBVIOUS
    <3>2. Nodes(model) = {}
      BY <1>2, <3>1, GraphParts
    <3>3. MaxLocalField(model) = 0
      BY <1>1, <1>2, <3>2, MaxLocalFieldIs DEF MilliAll
    <3>4. \A r \in Nat \ {0} : 0 \div r = 0
      OBVIOUS
    <3>5. LargestField(model) = 0
      BY <1>5, <3>3, <3>4 DEF LargestField
    <3>. QED BY <1>8, <3>5, Widths
  <2>4. ~(MaxLocalField(model) \div s <= WIDE_MAX_FIELD /\ WideNodes >= Len(model.h))
    BY <1>4, <1>5, <1>7, <1>8, <2>2, <2>3, Widths
  <2>. QED BY <1>6, <1>8, <2>1, <2>4 DEF HoldsAt
<1>9. CASE /\ backend = "Msa"
           /\ ~(LargestField(model) <= F24Max /\ WideNodes # 0 /\ Len(model.h) <= WideNodes)
  <2>1. WideNodes \in Nat \ {0}
    BY <1>6, <1>9, KernelsAre DEF WideMaxNodes
  <2>2. ~(WideNodes >= Len(model.h) /\ MaxLocalField(model) \div s <= F24Max)
    BY <1>4, <1>5, <1>7, <1>9, <2>1, Widths
  <2>. QED BY <1>6, <1>9, <2>2, Widths DEF HoldsAt
<1>10. CASE /\ backend = "Gibbs"
            /\ ~(Max({0} \cup Milli(model)) \div ScaleMilli(model) <= I8Max)
  <2> DEFINE v == Max({0} \cup Milli(model))
  <2>1. v \in {0} \cup Milli(model) /\ ~(v \div ScaleMilli(model) <= I8Max)
    BY <1>5, <1>10
  <2>. HIDE DEF v
  <2>2. v # 0
    <3>1. \A r \in Nat \ {0} : 0 \div r = 0
      OBVIOUS
    <3>. QED BY <1>5, <2>1, <3>1, Widths
  <2>3. v \in Milli(model) /\ v \div ScaleMilli(model) <= v \div s
    BY <1>4, <2>1, <2>2
  <2>4. v \div ScaleMilli(model) \in Nat /\ v \div s \in Nat
    BY <1>3, <1>5, <2>3
  <2>5. ~(v \div s <= I8Max)
    BY <2>1, <2>3, <2>4, Widths
  <2>. QED BY <1>10, <2>3, <2>5 DEF HoldsAt
<1>. QED BY <1>1, <1>2, <1>8, <1>9, <1>10, RefusedCases

\* A job within the limits a backend declares is served.
LEMMA LimitsServe ==
    ASSUME PrepInv
    PROVE  LimitsAreServed
<1> DEFINE limits == ModelLimits(backend)
           within == /\ MilliAll(model) /\ Len(model.h) <= PrepDevice.maxNodes
                     /\ limits.field # None => MaxLocalField(model) <= limits.field
<1>1. IsGraph(model) /\ backend \in KernelKind /\ Len(model.h) \in Nat
  BY GraphsAre, KernelsAre, GraphParts DEF PrepInv
<1>2. PrepDevice.maxNodes \in Nat \ {0} /\ PrepDevice.saWideMaxNodes \in Nat
  BY KernelsAre
<1>3. ASSUME stage = "refused", within
      PROVE  \/ backend = "Sa" /\ Len(model.h) > PrepDevice.saWideMaxNodes
             \/ backend = "Gibbs"
  <2>1. Plan(backend, model, WideNodes) = None
    BY <1>3 DEF PrepInv
  <2>2. /\ LargestField(model) \in Nat /\ MaxLocalField(model) \in Nat
        /\ ScaleMilli(model) \in Nat \ {0}
    BY <1>1, <1>3, LargestFieldIs
  <2>3. LargestField(model) <= MaxLocalField(model)
    <3>1. \A a \in Nat, r \in Nat \ {0} : a \div r <= a
      <4>1. SUFFICES ASSUME NEW a \in Nat, NEW r \in Nat \ {0} PROVE a \div r <= a
        OBVIOUS
      <4>2. \A s \in Nat \ {0} : s <= r => a \div r <= a \div s
        BY QuotientByMore
      <4>. QED BY <4>2
    <3>. QED BY <2>2, <3>1 DEF LargestField
  <2>4. SUFFICES ASSUME backend # "Gibbs"
                 PROVE  backend = "Sa" /\ Len(model.h) > PrepDevice.saWideMaxNodes
    OBVIOUS
  <2>5. CASE /\ backend = "Sa" /\ ~(2 * LargestField(model) <= I8Max)
             /\ ~(LargestField(model) <= WIDE_MAX_FIELD /\ WideNodes # 0 /\ Len(model.h) <= WideNodes)
    <3>1. WideNodes = PrepDevice.saWideMaxNodes
      BY <2>5 DEF WideNodes, WideMaxNodes
    <3>2. limits.field = WIDE_MAX_FIELD - 1
      BY <2>5 DEF ModelLimits
    <3>3. WIDE_MAX_FIELD - 1 # None
      BY Widths, NoneIs
    <3>4. LargestField(model) <= WIDE_MAX_FIELD
      BY <1>3, <2>2, <2>3, <3>2, <3>3, Widths
    <3>5. WideNodes = 0 \/ ~(Len(model.h) <= WideNodes)
      BY <2>5, <3>4
    <3>6. Len(model.h) # 0
      <4>1. SUFFICES ASSUME Len(model.h) = 0 PROVE FALSE
        OBVIOUS
      <4>2. Nodes(model) = {}
        BY <1>1, <4>1, GraphParts
      <4>3. MaxLocalField(model) = 0
        BY <1>1, <1>3, <4>2, MaxLocalFieldIs DEF MilliAll
      <4>. QED BY <2>2, <2>3, <2>5, <4>3, Widths
    <3>. QED BY <1>1, <1>2, <2>5, <3>1, <3>5, <3>6
  <2>6. CASE /\ backend = "Msa"
             /\ ~(LargestField(model) <= F24Max /\ WideNodes # 0 /\ Len(model.h) <= WideNodes)
    <3>1. WideNodes = PrepDevice.maxNodes
      BY <2>6 DEF WideNodes, WideMaxNodes
    <3>2. limits.field = F24Max /\ F24Max # None
      BY <2>6, Widths, NoneIs DEF ModelLimits
    <3>3. LargestField(model) <= F24Max
      BY <1>3, <2>2, <2>3, <3>2, Widths
    <3>. QED BY <1>1, <1>2, <1>3, <2>6, <3>1, <3>3
  <2>. QED BY <1>1, <1>3, <2>1, <2>4, <2>5, <2>6, RefusedCases
<1>4. ASSUME stage = "too large", within
      PROVE  backend = "Msa" /\ MaxDegree(topology) > limits.degree
  <2>1. Refused /\ Seeded /\ sessionPlan # None
    BY <1>4 DEF PrepInv
  <2>2. topology.n = Len(model.h)
    BY <1>1, <2>1, SeededIs DEF Seeded
  <2>3. ~(topology.n > PrepDevice.maxNodes)
    <3>1. Len(model.h) <= PrepDevice.maxNodes
      BY <1>4
    <3>. HIDE DEF within, limits
    <3>. QED BY <1>1, <1>2, <2>2, <3>1
  <2>4. ~(backend = "Sa" /\ sessionPlan.path = "Wide" /\ topology.n > PrepDevice.saWideMaxNodes)
    <3>1. SUFFICES ASSUME backend = "Sa", sessionPlan.path = "Wide"
                   PROVE  ~(topology.n > PrepDevice.saWideMaxNodes)
      OBVIOUS
    <3>2. PlanCase(backend, model, WideNodes, sessionPlan)
      BY <1>4, <2>1, SessionPlanFits
    <3>3. Len(model.h) <= WideNodes
      BY <3>1, <3>2 DEF PlanCase, CoefficientPlan
    <3>4. WideNodes = PrepDevice.saWideMaxNodes
      BY <3>1 DEF WideNodes, WideMaxNodes
    <3>. QED BY <1>1, <1>2, <2>2, <3>3, <3>4
  <2>5. backend = "Msa" /\ MaxDegree(topology) > MSA_MAX_DEGREE
    BY <2>1, <2>3, <2>4 DEF Refused
  <2>6. limits.degree = MSA_MAX_DEGREE
    BY <2>5 DEF ModelLimits
  <2>. QED BY <2>5, <2>6
<1>. QED BY <1>3, <1>4 DEF LimitsAreServed

\* Whatever the graphs, the device and the widths of the machine types: a job
\* that is planned fits its kernel exactly, one that is refused would not fit
\* at any scale, and one within the declared limits is served.
THEOREM PlansAreSound == PrepSpec => []PlanSound
<1>1. PrepInv => PlanSound
  BY TakenFits, RefusedAtEveryScale, LimitsServe DEF PlanSound
<1>. QED BY <1>1, PrepInvAlways, PTL
=============================================================================
