------------------------------- MODULE Quantile -------------------------------
(***************************************************************************)
(* The P2 estimate of one quantile by five markers (src/src/cutoff.rs), of  *)
(* which a cutoff keeps four.  The quantile is 1 in Denominator; positions  *)
(* and the positions wanted are exact, in units of 1 in 2 * Denominator for *)
(* the latter.  Heights are energies of a finite scale: what the parabolic  *)
(* formula yields is any of them, and it is taken strictly between the      *)
(* neighbours or else replaced by a linear one.  Markers count from 1.      *)
(***************************************************************************)
EXTENDS Integers

CONSTANTS
    Height,         \* energies
    Denominator,    \* the quantile, as 1 in so many
    MaxSeen         \* bound: observations

ASSUME QuantileAssumption ==
    /\ Height \subseteq Int
    /\ Denominator \in Nat \ {0}
    /\ MaxSeen \in Nat

VARIABLES
    q,              \* heights of the markers
    pos,            \* their positions
    want,           \* positions wanted
    seen            \* observations so far

quantileVars == <<q, pos, want, seen>>

Marker == 1..5
Inner  == 2..4

-----------------------------------------------------------------------------
Unit == 2 * Denominator

\* Step of each wanted position per observation: 0, p/2, p, (1+p)/2 and 1.
Step == <<0, 1, 2, Denominator + 1, Unit>>

QuantileInit ==
    /\ q \in [Marker -> Height]
    /\ \A i \in 1..4 : q[i] <= q[i + 1]
    /\ pos = <<1, 2, 3, 4, 5>>
    /\ want = [i \in Marker |-> Unit + 4 * Step[i]]
    /\ seen = 5

\* The highest marker whose cell x falls into: markers above it move up.  A new
\* least or greatest observation becomes the height of the end marker.
CellOf(x) ==
    IF x < q[1] THEN 1
    ELSE IF x >= q[5] THEN 4
    ELSE CHOOSE k \in 1..4 : x < q[k + 1] /\ \A j \in 1..(k - 1) : ~(x < q[j + 1])

Ends(x) == [i \in Marker |-> IF i = 1 /\ x < q[1] THEN x
                             ELSE IF i = 5 /\ x >= q[5] THEN x ELSE q[i]]

Shifted(x) == [i \in Marker |-> IF i > CellOf(x) THEN pos[i] + 1 ELSE pos[i]]

\* Bug: a marker moves down without room.
DirectionNoRoom(n, w, i) ==
    LET d == w[i] - Unit * n[i]
    IN  IF d >= Unit /\ n[i + 1] - n[i] > 1 THEN 1
        ELSE IF d <= -Unit THEN -1 ELSE 0

\* An inner marker that is a whole position off moves one towards it, if its
\* neighbour on that side leaves room.
Direction(n, w, i) ==
    LET d == w[i] - Unit * n[i]
    IN  IF d >= Unit /\ n[i + 1] - n[i] > 1 THEN 1
        ELSE IF d <= -Unit /\ n[i] - n[i - 1] > 1 THEN -1 ELSE 0

\* Heights a moved marker may get: a parabolic one, strictly between those of
\* its neighbours, or a linear one towards the neighbour it moves to.
Heights(h, i, s) ==
    {y \in Height : \/ h[i - 1] < y /\ y < h[i + 1]
                    \/ h[i] <= y /\ y <= h[i + s]
                    \/ h[i + s] <= y /\ y <= h[i]}

\* Markers after the adjustment of the i-th of m.
Adjusted(m, w, i) ==
    LET s == Direction(m.pos, w, i)
    IN  IF s = 0 THEN {m}
        ELSE {[q   |-> [j \in Marker |-> IF j = i THEN y ELSE m.q[j]],
               pos |-> [j \in Marker |-> IF j = i THEN m.pos[j] + s ELSE m.pos[j]]] :
                  y \in Heights(m.q, i, s)}

Wanted == [i \in Marker |-> want[i] + Step[i]]

\* push, once the first five observations are sorted: the inner markers are
\* adjusted in turn, each by the position and height the one before it got.
Push ==
    /\ seen < MaxSeen
    /\ \E x \in Height :
       \E m2 \in Adjusted([q |-> Ends(x), pos |-> Shifted(x)], Wanted, 2) :
       \E m3 \in Adjusted(m2, Wanted, 3) :
       \E m4 \in Adjusted(m3, Wanted, 4) :
           q' = m4.q /\ pos' = m4.pos
    /\ want' = Wanted
    /\ seen' = seen + 1

QuantileSpec == QuantileInit /\ [][Push]_quantileVars

-----------------------------------------------------------------------------
\* Markers keep their order, however the observations come and whichever
\* formula moves them: no two share a position, by whose difference the
\* formulas divide, their heights ascend, and the outer two stand at the first
\* and the last observation.
MarkersOrdered ==
    /\ pos[1] = 1 /\ pos[5] = seen
    /\ \A i \in 1..4 : pos[i] < pos[i + 1] /\ q[i] <= q[i + 1]
=============================================================================
