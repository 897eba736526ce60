------------------------------ MODULE MCDevice ------------------------------
(***************************************************************************)
(* DeviceOpen, StreamPool and JobPreparation for TLC.  The three share no   *)
(* variable: a behaviour exercises one of them, chosen at its start, and    *)
(* leaves the others at their initial state.                                *)
(*                                                                         *)
(* Two processes share a build of the Gibbs kernel and have builds of the   *)
(* multi-spin kernel that differ in nothing but their capacity.             *)
(* Three callers share two stream pairs.  Graphs have two or three nodes,   *)
(* over coefficients that reach every limit of the scaled-down types.       *)
(***************************************************************************)
EXTENDS DeviceOpen, StreamPool, JobPreparation, TLC

CONSTANTS p1, p2, s1, s2

VARIABLE part

MCKernelOf  == (p1 :> "Sa") @@ (p2 :> "Msa")
MCRequested == (p1 :> 0) @@ (p2 :> 5640)

\* The SA process has a device with less memory than wide jobs of its capacity
\* take; the multi-spin process one whose shared memory holds one replica word
\* at its capacity, and two at the default.
Large == [shared |-> 49152, optin |-> 98304, free |-> 160000000, sms |-> 8, threads |-> 2048]
Small == [shared |-> 49152, optin |-> 98304, free |-> 180000000, sms |-> 20, threads |-> 1024]
MCLimitsOf     == (p1 :> Large) @@ (p2 :> Small)
MCCapabilityOf == (p1 :> 75) @@ (p2 :> 78)
MCCached       == [p \in {p1, p2} |-> [first |-> 3, last |-> 4]]

-----------------------------------------------------------------------------
Fields2 == [1..2 -> {-4, 0, 3}] \cup {<<OffGrid, 4>>}
Fields3 == {<<0, 0, 0>>, <<4, -4, 0>>, <<3, 0, 0>>}
Shapes1 == {<<>>, << <<1, 2>> >>}
Shapes2 == {<< <<1, 2>>, <<1, 2>> >>, << <<1, 2>>, <<2, 2>> >>, << <<1, 2>>, <<3, 1>> >>}
Shapes3 == {<< <<1, 2>>, <<3, 2>> >>, << <<1, 2>>, <<2, 3>>, <<1, 3>> >>,
            << <<1, 2>>, <<2, 1>>, <<1, 2>> >>}
Graphs(fields, edges, couplings) ==
    {[h |-> h, edges |-> edges, j |-> j] :
        h \in fields, j \in [1..Len(edges) -> couplings]}

MCGraphs == UNION {Graphs(Fields2, edges, {-4, 2, 4, 12, 28}) : edges \in Shapes1}
                \cup UNION {Graphs(Fields2, edges, {-4, 12, 28}) : edges \in Shapes2}
                \cup UNION {Graphs(Fields3, edges, {-4, 12}) : edges \in Shapes3}
                \cup {[h |-> <<4, 0, 0, 0>>, edges |-> <<>>, j |-> <<>>],
                      [h |-> <<4, -4>>, edges |-> << <<1, 2>>, <<2, 1>> >>, j |-> <<4>>],
                      [h |-> <<2, 4>>, edges |-> << <<2, 1>> >>, j |-> <<>>]}

MCPrepDevice == [maxNodes |-> 3, saWideMaxNodes |-> 2]

-----------------------------------------------------------------------------
IdleModel == [h |-> <<0, 0>>, edges |-> <<>>, j |-> <<>>]

Init ==
    /\ part \in {"open", "pool", "prepare"}
    /\ part # "prepare" => backend = "Sa" /\ model = IdleModel
    /\ OpenInit
    /\ available = <<s1, s2>> /\ PoolInit
    /\ PrepInit

Next ==
    \/ part = "open"    /\ OpenNext /\ UNCHANGED <<part, streamVars, prepVars>>
    \/ part = "pool"    /\ PoolNext /\ UNCHANGED <<part, openVars, prepVars>>
    \/ part = "prepare" /\ PrepNext /\ UNCHANGED <<part, openVars, streamVars>>

\* PoolFairness, of the behaviours that exercise the pool.
Fairness ==
    /\ \A c \in Caller : WF_streamVars(part = "pool" /\ Proceed(c))
    /\ \A p \in Pair : /\ WF_streamVars(part = "pool" /\ RunsCompute(p))
                       /\ WF_streamVars(part = "pool" /\ RunTransfer(p))

Spec == Init /\ [][Next]_<<part, openVars, streamVars, prepVars>> /\ Fairness
=============================================================================
