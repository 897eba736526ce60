------------------------------ MODULE Screening ------------------------------
(***************************************************************************)
(* The probe screen of a lease (src/src/screen.rs, src/kernels/screen.cu):   *)
(* admission of a topology to its domain, the packed adjacency it uploads,  *)
(* and a run that screens the nonces of a chunk in launches of a bounded    *)
(* time, between which the lease may be stopped.                            *)
(*                                                                         *)
(* A lane's energy is left out: what is told apart is the nonces a result   *)
(* was computed from.  Nodes, edges and nonces count from 0, as in the code.*)
(***************************************************************************)
EXTENDS Integers, Sequences, FiniteSets, SequencesExt

CONSTANTS
    Topology,       \* topologies a lease may have
    Params,         \* probe shapes
    Budgets,        \* opt-in shared memory of a device
    IndexSize,      \* packed ids: 2^16
    MAX_DEGREE,     \* 20
    FixedShared,    \* shared memory that does not depend on the topology
    Lanes,          \* lanes of a group: 32
    MaxGroups,      \* groups of a launch: one per SM
    LaunchTime,     \* time two launches may take: 50 ms
    Elapsed,        \* times a launch takes
    MaxNonces       \* bound: nonces of a chunk

ASSUME ScreeningAssumption ==
    /\ IndexSize \in Nat \ {0} /\ MAX_DEGREE \in Nat /\ FixedShared \in Nat
    /\ Lanes \in Nat \ {0} /\ MaxGroups \in Nat \ {0}
    /\ LaunchTime \in Nat /\ Elapsed \subseteq Nat /\ MaxNonces \in Nat
    /\ \A t \in Topology : t.n \in Nat /\ t.edges \in Seq(Nat \X Nat)
    \* the lanes of a group are divided among the reads of a nonce
    /\ \A p \in Params : p.reads_log2 \in 2..5 => Lanes % (2 ^ p.reads_log2) = 0

VARIABLES
    shape,          \* what check made of the topology
    phase,          \* where the run is
    count,          \* nonces of the chunk
    best,           \* results so far: the nonces each was computed from
    slowest,        \* LaunchBudget: most time a group has taken
    flight,         \* groups and first nonce of the launch on the device
    observed,       \* launches so far: groups and time
    halt            \* the lease is to stop

screenVars == <<shape, phase, count, best, slowest, flight, observed, halt>>

-----------------------------------------------------------------------------
(* ScreenDomain. *)

CeilOf(a, b) == (a + b - 1) \div b

MAX_PROBE_SWEEPS == 2048

ShapeOk(reads_log2, sweeps, threads) ==
    /\ reads_log2 \in 2..5
    /\ sweeps \in 1..MAX_PROBE_SWEEPS
    /\ threads \in 1..1024 /\ threads % 32 = 0

NoNeighbour == IndexSize * IndexSize - 1

\* Bug: the second endpoint's row names its own node.
PackedSelf(end, other, edge) == end * IndexSize + edge

\* neighbour << 16 | edge
Packed(end, other, edge) == other * IndexSize + edge

\* Rows of the adjacency, edge by edge, both ends of each in turn.
Incident(edges, node) ==
    FlattenSeq([k \in 1..Len(edges) |->
        LET u == edges[k][1]
            v == edges[k][2]
        IN  (IF u = node THEN <<Packed(u, v, k - 1)>> ELSE <<>>) \o
            (IF v = node THEN <<Packed(v, u, k - 1)>> ELSE <<>>)])

Adjacency(t) ==
    [node \in 0..(t.n - 1) |->
        LET row == Incident(t.edges, node)
        IN  [i \in 1..MAX_DEGREE |-> IF i <= Len(row) THEN row[i] ELSE NoNeighbour]]

SharedBytes(t) == FixedShared + 4 * t.n + 16 * CeilOf(Len(t.edges), 16)

BadEdge(t, e) == e[1] >= t.n \/ e[2] >= t.n \/ e[1] = e[2]

\* The first edge that is invalid, or overfills the row of an end, decides
\* between the two reasons.
BadEdges(t)   == {k \in DOMAIN t.edges : BadEdge(t, t.edges[k])}
OverfullAt(t) == {k \in DOMAIN t.edges : \E node \in 0..(t.n - 1) :
                     Len(Incident(SubSeq(t.edges, 1, k), node)) > MAX_DEGREE}
FirstIn(ks, others) == ks # {} /\ \A o \in others : \E k \in ks : k <= o

Refusal(t, p, budget) ==
    CASE ~ShapeOk(p.reads_log2, p.sweeps, p.threads)      -> "shape"
      [] t.h # <<0>>                                       -> "fields"
      [] t.j \notin {<<-1000, 1000>>, <<1000, -1000>>}     -> "couplings"
      [] t.n >= IndexSize - 1                              -> "nodes"
      [] Len(t.edges) >= IndexSize - 1                     -> "edges"
      [] SharedBytes(t) > budget                           -> "shared memory"
      [] FirstIn(BadEdges(t), OverfullAt(t))               -> "edge"
      [] FirstIn(OverfullAt(t), BadEdges(t))               -> "degree"
      [] OTHER                                             -> "none"

\* check: the reason to fall back on the plain solve, or a shape.
Check(t, p, budget) ==
    LET reason == Refusal(t, p, budget)
    IN  IF reason # "none" THEN [reason |-> reason]
        ELSE [reason |-> reason, n |-> t.n, edges |-> t.edges, adj |-> Adjacency(t),
              negBit |-> IF t.j[1] < 0 THEN 0 ELSE 1, reads |-> p.reads_log2]

-----------------------------------------------------------------------------
(* LaunchBudget. *)

Bounded(v, lo, hi) == IF v < lo THEN lo ELSE IF v > hi THEN hi ELSE v

\* Bug: the launch is sized by the time of the last one alone.
SlowestIsLast(groups, elapsed) == CeilOf(elapsed, groups)

\* The most time a group has taken, at least one.
Slowest(groups, elapsed) ==
    LET rate == Bounded(CeilOf(elapsed, groups), 1, CeilOf(elapsed, groups) + 1)
    IN  IF rate > slowest THEN rate ELSE slowest

\* The first launch is of one group; later ones aim at half of LaunchTime.
Groups ==
    IF slowest = 0 THEN 1 ELSE Bounded((LaunchTime \div slowest) \div 2, 1, MaxGroups)

NoncesPerGroup == Lanes \div (2 ^ shape.reads)

-----------------------------------------------------------------------------
(* A launch. *)

\* The kernel: lane L of a group works on nonce L % npg of that group's.
NonceOfLane(first, lane) ==
    first + (lane \div Lanes) * NoncesPerGroup + ((lane % Lanes) % NoncesPerGroup)

\* best_milli: lanes that the i-th result of a launch is the least of.
LanesOf(i) ==
    {(i \div NoncesPerGroup) * Lanes + lane :
        lane \in {l \in 0..(Lanes - 1) : l >= i % NoncesPerGroup /\
                     (l - (i % NoncesPerGroup)) % NoncesPerGroup = 0}}

BestOf(first, i) ==
    [nonces |-> {NonceOfLane(first, lane) : lane \in LanesOf(i)},
     reads  |-> Cardinality(LanesOf(i))]

NoFlight == [groups |-> 0, size |-> 0]

-----------------------------------------------------------------------------
ScreenInit ==
    /\ \E t \in Topology, p \in Params, b \in Budgets : shape = Check(t, p, b)
    /\ count \in 0..MaxNonces
    /\ phase = "run"
    /\ best = <<>>
    /\ slowest = 0
    /\ flight = NoFlight
    /\ observed = {}
    /\ halt = FALSE

\* The sink is stopped.
StopLease ==
    /\ ~halt
    /\ halt' = TRUE
    /\ UNCHANGED <<shape, phase, count, best, slowest, flight, observed>>

\* run, before a launch: a stop ends it with the prefix it has.
RunStops ==
    /\ phase = "run" /\ Len(best) < count
    /\ halt
    /\ phase' = "stopped"
    /\ UNCHANGED <<shape, count, best, slowest, flight, observed, halt>>

\* Nonces of the next launch: all of its groups', or what is left.
BatchSize ==
    LET left == count - Len(best)
    IN  IF Groups * NoncesPerGroup <= left THEN Groups * NoncesPerGroup ELSE left

LaunchBatch ==
    /\ phase = "run" /\ shape.reason = "none" /\ Len(best) < count
    /\ ~halt
    /\ flight' = [groups |-> CeilOf(BatchSize, NoncesPerGroup), size |-> BatchSize]
    /\ phase' = "launched"
    /\ UNCHANGED <<shape, count, best, slowest, observed, halt>>

\* The lanes are read back: the budget observes the time, the results follow
\* those of the launches before.
ReadLanes ==
    /\ phase = "launched"
    /\ \E elapsed \in Elapsed :
           /\ slowest' = Slowest(flight.groups, elapsed)
           /\ observed' = observed \cup {[groups |-> flight.groups, elapsed |-> elapsed]}
    /\ best' = best \o [i \in 1..flight.size |-> BestOf(Len(best), i - 1)]
    /\ flight' = NoFlight
    /\ phase' = "run"
    /\ UNCHANGED <<shape, count, halt>>

\* An allocation, the launch or the copy back fails: so does the lease.
LaunchFails ==
    /\ phase = "launched"
    /\ flight' = NoFlight
    /\ phase' = "failed"
    /\ UNCHANGED <<shape, count, best, slowest, observed, halt>>

ScreenNext == StopLease \/ RunStops \/ LaunchBatch \/ ReadLanes \/ LaunchFails

ScreenSpec == ScreenInit /\ [][ScreenNext]_screenVars

-----------------------------------------------------------------------------
\* An admitted topology is packed without loss: every edge stands once in the
\* row of each of its ends, with the other end and its own number, no row holds
\* anything else, and no packed entry reads as "none".
AdjacencyExact ==
    shape.reason = "none" =>
        LET entries(node) == {i \in 1..MAX_DEGREE : shape.adj[node][i] # NoNeighbour}
            named(node, other, k) ==
                {i \in entries(node) : /\ shape.adj[node][i] \div IndexSize = other
                                       /\ shape.adj[node][i] % IndexSize = k}
            degree(node) == Cardinality({k \in DOMAIN shape.edges :
                                node \in {shape.edges[k][1], shape.edges[k][2]}})
        IN  /\ \A node \in 0..(shape.n - 1) : Cardinality(entries(node)) = degree(node)
            /\ \A k \in DOMAIN shape.edges :
                   LET u == shape.edges[k][1]
                       v == shape.edges[k][2]
                   IN  /\ Cardinality(named(u, v, k - 1)) = 1
                       /\ Cardinality(named(v, u, k - 1)) = 1

\* The k-th result is of the k-th nonce and no other, over all of its reads,
\* through launches of any size.  A launch of more than one group would have
\* kept to half of LaunchTime at the pace of every launch before it, and none
\* is larger than the device.
ScreenedInOrder ==
    /\ Len(best) <= count
    /\ \A k \in DOMAIN best : best[k] = [nonces |-> {k - 1}, reads |-> 2 ^ shape.reads]
    /\ phase = "launched" =>
           /\ flight.groups \in 1..MaxGroups
           /\ flight.groups > 1 =>
                  \A o \in observed :
                      2 * flight.groups * o.elapsed <= LaunchTime * o.groups
=============================================================================
