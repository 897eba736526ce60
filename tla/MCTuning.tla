------------------------------ MODULE MCTuning ------------------------------
(***************************************************************************)
(* What tunes a miner at work, for TLC: the governor and its knobs, the     *)
(* selector of a screened lease, its probe screen, a quantile of its cutoff *)
(* and the driver's time accounting.  They share no variable: a behaviour   *)
(* exercises one of them, chosen at its start, and leaves the others at     *)
(* their initial state.                                                     *)
(***************************************************************************)
EXTENDS Governor, ScreenPolicy, Quantile, DriverBudget, TLC

VARIABLE part

Field(f, values) == {f :> v : v \in values}

MCUpdate == Field("enabled", BOOLEAN)
            \cup Field("keep_denominator", {0, 2, 16})
            \cup Field("audit_denominator", {0, 1})
            \cup Field("probe_reads_log2", {1, 2, 5, 6})
            \cup Field("probe_sweeps", {0, 2049})

-----------------------------------------------------------------------------
Signs == {<<-1000, 1000>>, <<1000, -1000>>}
Pairs(n) == {<<u, v>> : u \in 0..n, v \in 0..n}
Tables(hs, js, ns, edges) ==
    {[h |-> h, j |-> j, n |-> n, edges |-> e] : h \in hs, j \in js, n \in ns, e \in edges}

\* Every topology of two and three nodes with up to three edges, parallel ones,
\* loops and strays included; and those each limit refuses.
MCTopology ==
    UNION {Tables({<<0>>}, Signs, {3}, [1..m -> Pairs(2)]) : m \in 0..2}
    \cup Tables({<<0>>}, {<<-1000, 1000>>}, {3}, [1..3 -> {<<0, 1>>, <<1, 2>>, <<2, 0>>, <<1, 1>>}])
    \cup Tables({<<0>>}, {<<-1000, 1000>>}, {2}, [1..2 -> {<<0, 1>>, <<1, 2>>}])
    \cup Tables({<<0>>, <<0, 1000>>}, Signs \cup {<<1000>>}, {3, 7}, {<< <<0, 1>> >>})
    \cup Tables({<<0>>}, Signs, {6}, {[k \in 1..m |-> <<k % 3, 3 + (k % 3)>>] : m \in {6, 7}})

OneEdge == [h |-> <<0>>, j |-> <<-1000, 1000>>, n |-> 3, edges |-> << <<0, 1>> >>]

MCParams == {[reads_log2 |-> r, sweeps |-> 512, threads |-> t] : r \in 1..3, t \in {48, 256}}

-----------------------------------------------------------------------------
Init ==
    /\ part \in {"governor", "policy", "screen", "quantile", "budget"}
    /\ GovInit
    /\ part # "governor" => poll = "check" /\ visible /\ knobs.yielding
    /\ PolicyInit
    /\ IF part = "screen"
       THEN ScreenInit /\ (count > 0 => shape.reason = "none" /\ shape.edges = OneEdge.edges)
       ELSE /\ shape = Check(OneEdge, [reads_log2 |-> 2, sweeps |-> 512, threads |-> 256], 1000)
            /\ count = 0 /\ phase = "run" /\ best = <<>> /\ slowest = 0
            /\ flight = NoFlight /\ observed = {} /\ halt = FALSE
    /\ IF part = "quantile"
       THEN QuantileInit
       ELSE q = <<0, 0, 0, 0, 0>> /\ pos = <<1, 2, 3, 4, 5>> /\ want = pos /\ seen = 5
    /\ BudgetInit
    /\ part # "budget" => enabled /\ window = DefaultWindow

Next ==
    \/ /\ part = "governor" /\ GovNext
       /\ UNCHANGED <<part, policyVars, screenVars, quantileVars, budgetVars>>
    \/ /\ part = "policy" /\ PolicyNext
       /\ UNCHANGED <<part, govVars, screenVars, quantileVars, budgetVars>>
    \/ /\ part = "screen" /\ ScreenNext
       /\ UNCHANGED <<part, govVars, policyVars, quantileVars, budgetVars>>
    \/ /\ part = "quantile" /\ Push
       /\ UNCHANGED <<part, govVars, policyVars, screenVars, budgetVars>>
    \/ /\ part = "budget" /\ BudgetNext
       /\ UNCHANGED <<part, govVars, policyVars, screenVars, quantileVars>>

\* GovFairness, of the behaviours that exercise the governor.
Fairness == WF_govVars(part = "governor" /\ Poll)

Spec == Init /\ [][Next]_<<part, govVars, policyVars, screenVars, quantileVars, budgetVars>>
             /\ Fairness
=============================================================================
