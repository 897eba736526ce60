--------------------------- MODULE JobPreparation ---------------------------
(***************************************************************************)
(* The jobs of one session on their way to the device: the plan of the     *)
(* first job, the CSR topology and coloring built from its graph            *)
(* (src/src/topology.rs, build in src/src/streaming.rs), and the           *)
(* coefficients of every job with the same edges and plan written into that *)
(* layout (fill_coefficients, upload_slot_coefficients).  Positions and     *)
(* nodes count from 1; a position of 1 is also what an edge that was never  *)
(* placed has.                                                             *)
(***************************************************************************)
EXTENDS Coefficients

CONSTANTS
    PrepKernel,     \* kernels of the sessions
    PrepGraphs,     \* graphs of the jobs
    PrepDevice,     \* capacities of the device: maxNodes, saWideMaxNodes
    PrepJobs        \* bound: jobs of a session

\* A device is open for a node at least.  Positions and nodes count from 1.
ASSUME PrepAssumption ==
    /\ PrepKernel \subseteq KernelKind
    /\ \A g \in PrepGraphs :
           /\ g.h \in Seq(Int \cup {OffGrid}) /\ g.j \in Seq(Int \cup {OffGrid})
           /\ g.edges \in Seq(Nat \X Nat)
    /\ PrepDevice \in [maxNodes : Nat \ {0}, saWideMaxNodes : Nat]
    /\ None \notin Int \cup [path : {"Int8", "Wide"}, scale : Nat]
                        \cup [h : Seq(Int), j : Seq(Int)]

VARIABLES
    stage,          \* how far the job at hand is
    backend,        \* the kernel of the session
    model,          \* the graph of the job at hand
    sessionPlan,    \* the plan of the session
    topology,       \* the topology of the session
    staged,         \* coefficients in the staging buffers
    jobs            \* jobs prepared so far

prepVars == <<stage, backend, model, sessionPlan, topology, staged, jobs>>

-----------------------------------------------------------------------------
(* SelfFeedingTopology::build *)

InRange(g, k) == {g.edges[k][1], g.edges[k][2]} \subseteq Nodes(g)

\* A half of an edge as its node lists it: neighbour, edge, forward or not.
Half(nbr, k, forward) == [nbr |-> nbr, edge |-> k, forward |-> forward]

\* A self-loop has the forward half only; an edge out of range has none.
Halves(g, i) ==
    {Half(g.edges[k][2], k, TRUE) : k \in {e \in Edges(g) : InRange(g, e) /\ g.edges[e][1] = i}}
        \cup {Half(g.edges[k][1], k, FALSE) :
                  k \in {e \in Edges(g) : InRange(g, e) /\ g.edges[e][2] = i /\ g.edges[e][1] # i}}

\* The halves of a node, by neighbour; the order of parallel edges is the
\* sort's choice.
Row(g, i) ==
    LET half == Halves(g, i)
        size == Cardinality(half)
    IN  CHOOSE row \in [1..size -> half] :
            /\ \A a, b \in 1..size : row[a] = row[b] => a = b
            /\ \A a, b \in 1..size : a < b => row[a].nbr <= row[b].nbr

\* Halves before those of node i.
RowStart(g, i) == SumFunctionOnSet([m \in Nodes(g) |-> Cardinality(Halves(g, m))],
                                   {m \in Nodes(g) : m < i})

\* Position of a half of edge k, or 1 if the edge has no such half.
EdgePos(g, rows, k, forward) ==
    LET At(i) == {a \in DOMAIN rows[i] : rows[i][a].edge = k /\ rows[i][a].forward = forward}
        owner == {i \in Nodes(g) : At(i) # {}}
    IN  IF owner = {} THEN 1
        ELSE LET i == CHOOSE n \in owner : TRUE
             IN  RowStart(g, i) + (CHOOSE a \in At(i) : TRUE)

\* Greedy coloring: nodes in an order of falling degree, each gets the
\* smallest color none of its colored neighbours has.
DegreeOrders(g) ==
    {order \in [1..Len(g.h) -> Nodes(g)] :
        /\ \A a, b \in 1..Len(g.h) : order[a] = order[b] => a = b
        /\ \A a, b \in 1..Len(g.h) :
               a < b => Cardinality(Halves(g, order[a])) >= Cardinality(Halves(g, order[b]))}

GreedyColor(g, order) ==
    LET Neighbours(i) == {half.nbr : half \in Halves(g, i)}
        Smallest(used) == CHOOSE c \in 0..Cardinality(used) :
                              c \notin used /\ \A b \in 0..(c - 1) : b \in used
        colors[k \in 0..Len(g.h)] ==
            IF k = 0 THEN <<>>
            ELSE LET done == colors[k - 1]
                     node == order[k]
                     used == {done[m] : m \in Neighbours(node) \cap DOMAIN done}
                 IN  [m \in DOMAIN done \cup {node} |->
                         IF m = node THEN Smallest(used) ELSE done[m]]
    IN  colors[Len(g.h)]

\* The topology of a graph for an order of its nodes.
Topology(g, order) ==
    LET rows == [i \in Nodes(g) |-> Row(g, i)] IN
    [n        |-> Len(g.h),
     rowStart |-> [i \in Nodes(g) |-> RowStart(g, i)],
     col      |-> [i \in Nodes(g) |-> [a \in DOMAIN rows[i] |-> rows[i][a].nbr]],
     edgePos  |-> [k \in Edges(g) |-> <<EdgePos(g, rows, k, TRUE), EdgePos(g, rows, k, FALSE)>>],
     color    |-> GreedyColor(g, order)]

Nnz(top)       == SumFunction([i \in 1..top.n |-> Len(top.col[i])])
MaxDegree(top) == Max({0} \cup {Len(top.col[i]) : i \in 1..top.n})

-----------------------------------------------------------------------------
(* fill_coefficients *)

ElementMax(path) == IF path = "Int8" THEN I8Max ELSE I32Max

\* scaled: a coefficient in kernel units; None where the code returns an error.
Scaled(v, scale, path) ==
    IF v = OffGrid THEN None
    ELSE IF v % scale # 0 THEN None
    ELSE LET unit == IF v < 0 THEN -((-v) \div scale) ELSE v \div scale
         IN  IF unit \in (-ElementMax(path) - 1)..ElementMax(path) THEN unit ELSE None

\* The coupling of edge k, a missing one counting as 0, and in kernel units.
Given(g, k)       == IF k \in DOMAIN g.j THEN g.j[k] ELSE 0
Coupling(g, k, p) == Scaled(Given(g, k), p.scale, p.path)

\* Bug: the second position of a self-loop, which is nobody's, is written too.
WrittenBothHalves(top, g, k) ==
    IF ~InRange(g, k) THEN {} ELSE {top.edgePos[k][1], top.edgePos[k][2]}

\* Written positions of edge k: both halves, the forward one of a self-loop.
Written(top, g, k) ==
    IF ~InRange(g, k) THEN {}
    ELSE IF g.edges[k][1] = g.edges[k][2] THEN {top.edgePos[k][1]}
    ELSE {top.edgePos[k][1], top.edgePos[k][2]}

\* The staging buffers of a slot, or None if some coefficient is not exact.
\* A position several edges claim keeps the last.
FillCoefficients(top, g, p) ==
    LET claims(pos) == {k \in Edges(g) : pos \in Written(top, g, k)}
        h == [i \in Nodes(g) |-> Scaled(g.h[i], p.scale, p.path)]
        j == [pos \in 1..Nnz(top) |->
                 IF claims(pos) = {} THEN 0 ELSE Coupling(g, Max(claims(pos)), p)]
    IN  IF \/ \E i \in Nodes(g) : h[i] = None
           \/ \E k \in Edges(g) : InRange(g, k) /\ Coupling(g, k, p) = None
        THEN None
        ELSE [h |-> h, j |-> j]

-----------------------------------------------------------------------------
PrepInit ==
    /\ stage = "plan"
    /\ backend \in PrepKernel
    /\ model \in PrepGraphs
    /\ sessionPlan = None /\ topology = None /\ staged = None
    /\ jobs = 1

\* The seed of the session is planned, or refused.
PlanSeed ==
    LET planned == Plan(backend, model, WideMaxNodes(backend, PrepDevice)) IN
    /\ stage = "plan"
    /\ sessionPlan' = planned
    /\ stage' = IF planned = None THEN "refused" ELSE "build"
    /\ UNCHANGED <<backend, model, topology, staged, jobs>>

\* build: the capacity guards, the topology, and for MSA the degree guard.
BuildSession ==
    /\ stage = "build"
    /\ \E order \in DegreeOrders(model) :
           LET top   == Topology(model, order)
               large == \/ top.n > PrepDevice.maxNodes
                        \/ /\ backend = "Sa" /\ sessionPlan.path = "Wide"
                           /\ top.n > PrepDevice.saWideMaxNodes
               dense == backend = "Msa" /\ MaxDegree(top) > MSA_MAX_DEGREE
           IN  /\ topology' = top
               /\ stage' = IF large \/ dense THEN "too large" ELSE "fill"
    /\ UNCHANGED <<backend, model, sessionPlan, staged, jobs>>

\* The job's coefficients replace what is in the staging buffers.
FillSlot ==
    /\ stage = "fill"
    /\ staged' = FillCoefficients(topology, model, sessionPlan)
    /\ stage' = IF staged' = None THEN "inexact" ELSE "filled"
    /\ UNCHANGED <<backend, model, sessionPlan, topology, jobs>>

\* The session takes a job with its edges and its plan, and no other.
NextJob ==
    /\ stage = "filled"
    /\ jobs < PrepJobs
    /\ \E g \in PrepGraphs :
           /\ Len(g.h) = Len(model.h) /\ g.edges = model.edges
           /\ Plan(backend, g, WideMaxNodes(backend, PrepDevice)) = sessionPlan
           /\ model' = g
    /\ jobs' = jobs + 1
    /\ stage' = "fill"
    /\ UNCHANGED <<backend, sessionPlan, topology, staged>>

PrepNext == PlanSeed \/ BuildSession \/ FillSlot \/ NextJob

PrepSpec == PrepInit /\ [][PrepNext]_prepVars

-----------------------------------------------------------------------------
\* Field of node i in the kernel under spins s, as it reads the CSR row.
KernelField(s, i) ==
    staged.h[i] + SumFunction(
        [a \in DOMAIN topology.col[i] |->
            staged.j[topology.rowStart[i] + a] * s[topology.col[i][a]]])

\* The same field of the model, in milli.
ModelField(s, i) ==
    model.h[i] + SumFunction(
        [k \in {e \in Edges(model) : /\ InRange(model, e)
                                     /\ i \in {model.edges[e][1], model.edges[e][2]}} |->
            Given(model, k) * s[IF model.edges[k][1] = i THEN model.edges[k][2]
                                                         ELSE model.edges[k][1]]])

\* What the kernel anneals is the model: the fields it reads from its layout
\* are the model's, whichever job of the session is in the slot, and nodes it
\* updates together are not neighbours.
UploadFaithful ==
    /\ stage = "filled" =>
           \A s \in Spins(model), i \in Nodes(model) :
               KernelField(s, i) * sessionPlan.scale = ModelField(s, i)
    /\ topology # None =>
           \A k \in Edges(model) :
               InRange(model, k) /\ model.edges[k][1] # model.edges[k][2] =>
                   topology.color[model.edges[k][1]] # topology.color[model.edges[k][2]]

\* A planned job fits its kernel exactly: filling it never fails, and no spin
\* configuration takes a field, or the change of energy the kernel keeps for a
\* flip, out of the type the kernel keeps it in.
PlanIsExact ==
    /\ stage # "inexact"
    /\ stage = "filled" =>
           \A s \in Spins(model), i \in Nodes(model) :
               LET field == Abs(KernelField(s, i)) IN
               CASE backend = "Sa" /\ sessionPlan.path = "Int8" -> 2 * field <= I8Max
                 [] backend = "Sa" /\ sessionPlan.path = "Wide" -> 4 * field <= I32Max
                 [] backend = "Msa" /\ sessionPlan.path = "Int8" ->
                        /\ staged.h[i] \in {-1, 0, 1}
                        /\ \A pos \in DOMAIN staged.j : staged.j[pos] \in {-1, 0, 1}
                 [] backend = "Msa" /\ sessionPlan.path = "Wide" -> field <= F24Max
                 [] backend = "Gibbs" -> sessionPlan.path = "Int8"

\* Fits(s): at scale s the kernel would hold the job on one of its paths.
HoldsAt(s) ==
    LET field == MaxLocalField(model) \div s
        wide  == WideMaxNodes(backend, PrepDevice) >= Len(model.h)
    IN  CASE backend = "Sa"    -> 2 * field <= I8Max \/ (wide /\ field <= WIDE_MAX_FIELD)
          [] backend = "Msa"   -> wide /\ field <= MSA_WEIGHTED_MAX_FIELD
          [] backend = "Gibbs" -> \A v \in Milli(model) : v \div s <= I8Max

\* "Every refusal is permanent for this job on this binary" (coefficients.rs:
\* 137): a refused job is off the grid, or no scale that keeps every
\* coefficient whole would have done.
RefusedForGood ==
    stage = "refused" /\ MilliAll(model) =>
        \A s \in 1..Max({1} \cup Milli(model)) :
            (\A v \in Milli(model) : v % s = 0) => ~HoldsAt(s)

\* A model within the limits the backend declares is served, unless the wide
\* path of this device is too small for it (SA) or its coefficients do not fit
\* int8 (Gibbs, which declares no bound on the field).
LimitsAreServed ==
    LET limits == ModelLimits(backend)
        within == /\ MilliAll(model) /\ Len(model.h) <= PrepDevice.maxNodes
                  /\ limits.field # None => MaxLocalField(model) <= limits.field
    IN  /\ stage = "refused" /\ within =>
               \/ backend = "Sa" /\ Len(model.h) > PrepDevice.saWideMaxNodes
               \/ backend = "Gibbs"
        /\ stage = "too large" /\ within =>
               backend = "Msa" /\ MaxDegree(topology) > limits.degree

\* What plan promises of a job it takes, of one it refuses and of one within
\* the declared limits.
PlanSound == PlanIsExact /\ RefusedForGood /\ LimitsAreServed
=============================================================================
