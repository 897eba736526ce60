---------------------------- MODULE Coefficients ----------------------------
(***************************************************************************)
(* Which kernel variant solves a job with its exact coefficients, at what  *)
(* integer scale, or None (src/src/coefficients.rs, and the bounds a       *)
(* backend advertises, src/src/lib.rs).  Coefficients are integer milli:   *)
(* to_milli refuses what is off that grid before anything else, which      *)
(* OffGrid stands for.  The widths of the machine types are parameters, so *)
(* that TLC can reach every limit; the limits derived from them are the    *)
(* code's own.                                                             *)
(***************************************************************************)
EXTENDS Capacity, Sequences, FiniteSetsExt

CONSTANTS
    UnitMilli,      \* milli of one unit: 1000
    I8Max,          \* i8::MAX: 127
    I32Max,         \* i32::MAX
    F24Max,         \* largest integer f32 counts exactly to: 2^24 - 1
    MsaMaxDegree,   \* neighbours the multi-spin kernel unrolls: 20
    OffGrid         \* a coefficient to_milli refuses

ASSUME WidthAssumption ==
    /\ {UnitMilli, I8Max, I32Max, F24Max, MsaMaxDegree} \subseteq Nat \ {0}
    /\ I8Max < F24Max /\ F24Max < I32Max
    /\ OffGrid \notin Int

Abs(x) == IF x < 0 THEN -x ELSE x

\* A graph: field h of every node, edges between them, coupling j of an edge.
Nodes(graph)   == DOMAIN graph.h
Edges(graph)   == DOMAIN graph.edges
Coupled(graph) == Edges(graph) \cap DOMAIN graph.j    \* edges with a coupling
Spins(graph)   == [Nodes(graph) -> {-1, 1}]
Values(graph)  == {graph.h[i] : i \in DOMAIN graph.h}
                      \cup {graph.j[k] : k \in DOMAIN graph.j}
Milli(graph)   == {Abs(v) : v \in Values(graph)}

\* Every coefficient is on the grid and in the wire range.
MilliAll(graph) == OffGrid \notin Values(graph) /\ \A v \in Milli(graph) : v <= I32Max

-----------------------------------------------------------------------------
WIDE_MAX_FIELD         == I32Max \div 4
MSA_WEIGHTED_MAX_FIELD == F24Max
MSA_MAX_DEGREE         == MsaMaxDegree

\* Greatest common divisor of a set of naturals; 0 for none but zero.
Gcd(S) ==
    LET Divides(d) == \A v \in S : v % d = 0
    IN  IF S \subseteq {0} THEN 0
        ELSE Max({d \in 1..Min(S \ {0}) : Divides(d)})

\* Milli per integer unit of the kernel.
ScaleMilli(graph) ==
    LET g == Gcd(Milli(graph)) IN IF g = 0 THEN UnitMilli ELSE g

\* Literal unit coefficients: h in {-1, 0, 1}, j in {-1, 1}, one per edge.
IsUnitMining(graph) ==
    /\ Len(graph.j) = Len(graph.edges)
    /\ \A i \in DOMAIN graph.h : graph.h[i] \in {-UnitMilli, 0, UnitMilli}
    /\ \A k \in DOMAIN graph.j : graph.j[k] \in {-UnitMilli, UnitMilli}

\* The h and J tests of the MSA arm, on milli values.
UnitMilliValues(graph) ==
    /\ \A i \in DOMAIN graph.h : graph.h[i] \in {-UnitMilli, 0, UnitMilli}
    /\ \A k \in DOMAIN graph.j : Abs(graph.j[k]) = UnitMilli

\* Bug: the second endpoint of an edge is not counted.
MaxLocalFieldOneEnd(graph) ==
    Max({0} \cup {Abs(graph.h[n]) + SumFunction(
                      [k \in Coupled(graph) |->
                          IF graph.edges[k][1] = n THEN Abs(graph.j[k]) ELSE 0]) :
                  n \in Nodes(graph)})

\* The largest |h| + sum of |J| over the edges of a node, both ends counted;
\* an edge without a coupling counts nothing.
MaxLocalField(graph) ==
    LET Ends(k, n) == Cardinality({e \in 1..2 : graph.edges[k][e] = n})
        Field(n)   == Abs(graph.h[n]) + SumFunction(
                          [k \in Coupled(graph) |-> Ends(k, n) * Abs(graph.j[k])])
    IN  Max({0} \cup {Field(n) : n \in Nodes(graph)})

-----------------------------------------------------------------------------
CoefficientPlan(path, scale) == [path |-> path, scale |-> scale]

PlanSa(graph, wideNodes) ==
    LET s     == ScaleMilli(graph)
        field == MaxLocalField(graph) \div s
    IN  IF 2 * field <= I8Max THEN CoefficientPlan("Int8", s)
        ELSE IF field <= WIDE_MAX_FIELD /\ wideNodes # 0 /\ Len(graph.h) <= wideNodes
             THEN CoefficientPlan("Wide", s) ELSE None

PlanMsa(graph, wideNodes) ==
    LET s     == ScaleMilli(graph)
        field == MaxLocalField(graph) \div s
    IN  IF UnitMilliValues(graph) THEN CoefficientPlan("Int8", UnitMilli)
        ELSE IF field <= MSA_WEIGHTED_MAX_FIELD /\ wideNodes # 0
                    /\ Len(graph.h) <= wideNodes
             THEN CoefficientPlan("Wide", s) ELSE None

PlanGibbs(graph) ==
    LET s == ScaleMilli(graph)
    IN  IF Max({0} \cup Milli(graph)) \div s <= I8Max
        THEN CoefficientPlan("Int8", s) ELSE None

\* plan: the path and scale of a job, None when it is refused.
Plan(kind, graph, wideNodes) ==
    IF kind # "Sa" /\ IsUnitMining(graph) THEN CoefficientPlan("Int8", UnitMilli)
    ELSE IF ~MilliAll(graph) THEN None
    ELSE CASE kind = "Sa"    -> PlanSa(graph, wideNodes)
           [] kind = "Msa"   -> PlanMsa(graph, wideNodes)
           [] kind = "Gibbs" -> PlanGibbs(graph)

\* Node budget of the wide path on a device; zero for kernels without it.
WideMaxNodes(kind, dev) ==
    CASE kind = "Sa"    -> dev.saWideMaxNodes
      [] kind = "Msa"   -> dev.maxNodes
      [] kind = "Gibbs" -> 0

\* Model limits of the identity of each backend: largest degree (0: none)
\* and local field in milli (None: no limit).
ModelLimits(kind) ==
    CASE kind = "Sa"    -> [degree |-> 0, field |-> WIDE_MAX_FIELD - 1]
      [] kind = "Msa"   -> [degree |-> MSA_MAX_DEGREE, field |-> MSA_WEIGHTED_MAX_FIELD]
      [] kind = "Gibbs" -> [degree |-> 0, field |-> None]
=============================================================================
