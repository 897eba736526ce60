----------------------------- MODULE DeviceOpen -----------------------------
(***************************************************************************)
(* Miner processes of one machine open their devices (src/src/bin,         *)
(* src/src/cuda_device.rs, src/src/jit_cache.rs).  A process declares an    *)
(* identity first; open_with_nodes resolves the node capacity against the   *)
(* device's limits, loads every kernel from the PTX cache the processes     *)
(* share or compiles and caches it, and fixes the replica words of the      *)
(* multi-spin kernel.  Every file operation of the cache is a step of its   *)
(* own and may fail.  A process may die between any two and be started      *)
(* again, under the same process id.                                        *)
(*                                                                         *)
(* A file holds a text: the build its last writer compiled, and whether all *)
(* of it is there.  PTX that is not whole is taken not to load.  The hash   *)
(* in a file name is taken to be injective.                                 *)
(***************************************************************************)
EXTENDS Capacity, Sequences

CONSTANTS
    Process,        \* miner processes, by process id
    KernelOf,       \* the kernel a process serves
    Requested,      \* its --max-nodes
    LimitsOf,       \* what the driver reports of its device
    CapabilityOf,   \* compute capability; 0 when it cannot be read
    DriverVersion,
    Cached          \* bound: first and last of the builds a process goes through

ASSUME OpenAssumption ==
    /\ KernelOf \in [Process -> KernelKind]
    /\ Requested \in [Process -> Nat]
    /\ CapabilityOf \in [Process -> Nat]
    /\ LimitsOf \in [Process -> DeviceLimits]
    /\ None \notin Nat
    /\ \A p \in Process :
           /\ Cached[p] \in [first : Nat \ {0}, last : Nat \ {0}]
           /\ Cached[p].first <= Cached[p].last
           /\ Cached[p].last <= IF KernelOf[p] = "Msa" THEN 6 ELSE 4

VARIABLES
    pc,         \* where a process is
    at,         \* the build it is at: index in Builds(p)
    declared,   \* its identity: nodes, read words, probed or not
    capacity,   \* capacity of the device, once resolved
    loaded,     \* builds of the modules it loaded, in order
    tmp,        \* text under the temporary name of a process and key
    final       \* text of the cache entry of a key

openVars == <<pc, at, declared, capacity, loaded, tmp, final>>
fileVars == <<tmp, final>>

-----------------------------------------------------------------------------
(* The builds of a device. *)

SUPPORTED_ARCHS == {70, 72, 75, 80, 86, 87, 89, 90, 100, 101, 103, 120, 121}

\* The highest supported target at or below the capability; the floor if none.
SelectArch(cc) ==
    LET below == {a \in SUPPORTED_ARCHS : a <= cc}
    IN  IF below = {} THEN 70 ELSE CHOOSE a \in below : \A b \in below : b <= a

\* The kernel the process runs gets the capacity, the others their default.
NodesFor(p, kernel, resolved) ==
    IF kernel = KernelOf[p] THEN resolved ELSE DefaultNodes(kernel)

\* What a build is compiled from.
SourceOf(name) ==
    CASE name \in {"sa", "sa-wide"} -> "Sa"
      [] name = "gibbs"             -> "Gibbs"
      [] OTHER                      -> "Msa"

DefinesOf(name) ==
    CASE name = "sa-wide"          -> {"WIDE"}
      [] name = "msa-weighted-i32" -> {"WEIGHTED", "I32"}
      [] name = "msa-weighted-f32" -> {"WEIGHTED", "F32"}
      [] OTHER                     -> {}

Build(p, name, resolved) ==
    [name |-> name, src |-> SourceOf(name), defines |-> DefinesOf(name),
     arch |-> SelectArch(CapabilityOf[p]), driver |-> DriverVersion,
     nodes |-> NodesFor(p, SourceOf(name), resolved)]

\* compile_all_kernels: four builds, and both weighted lanes for MSA.
CompileOrder(p) ==
    IF KernelOf[p] = "Msa"
    THEN <<"sa", "sa-wide", "msa", "gibbs", "msa-weighted-i32", "msa-weighted-f32">>
    ELSE <<"sa", "sa-wide", "msa", "gibbs">>

\* An open that gets past resolve has this capacity whatever the device.
BuildsOf ==
    [p \in Process |->
        [k \in 1..(Cached[p].last - Cached[p].first + 1) |->
            Build(p, CompileOrder(p)[Cached[p].first + k - 1],
                  Wanted(KernelOf[p], Requested[p]))]]

Builds(p)  == BuildsOf[p]
Current(p) == Builds(p)[at[p]]

\* Bug: the capacity, a define of the compile, is not part of the key.
CacheKeyNoNodes(b) ==
    <<b.name, b.arch, b.driver, [src |-> b.src, defines |-> b.defines]>>

\* File name of a build.
CacheKey(b) ==
    <<b.name, b.arch, b.driver, b.nodes, [src |-> b.src, defines |-> b.defines]>>

Key(p) == CacheKey(Current(p))

\* Name of the temporary file.
TmpName(p) == <<p, Key(p)>>

Keys      == UNION {{CacheKey(Builds(p)[k]) : k \in DOMAIN Builds(p)} : p \in Process}
AllBuilds == UNION {{Builds(p)[k] : k \in DOMAIN Builds(p)} : p \in Process}
TmpNames  == Process \X Keys

-----------------------------------------------------------------------------
OpenInit ==
    /\ pc = [p \in Process |-> "declare"]
    /\ at = [p \in Process |-> 1]
    /\ declared = [p \in Process |-> None]
    /\ capacity = [p \in Process |-> None]
    /\ loaded = [p \in Process |-> <<>>]
    /\ tmp = [t \in TmpNames |-> None]
    /\ final = [k \in Keys |-> None]

Goto(p, label) == pc' = [pc EXCEPT ![p] = label]

\* Bug: the probe asks for the default capacity, whatever was requested.
IdentityOfDefault(p, inspected) ==
    LET nodes == DefaultNodes(KernelOf[p])
        probe == IF inspected
                 THEN MsaReplicaWords(MsaDynamicShared(LimitsOf[p].optin), nodes)
                 ELSE None
    IN  [nodes |-> AdvertisedNodes(KernelOf[p], Requested[p]), probed |-> probe # None,
         words |-> IF probe = None THEN MSA_REPLICA_WORDS ELSE probe]

\* main: the identity is declared before the device is open.  The MSA miner
\* probes the device for its replica words and declares two when it cannot
\* be inspected, or holds none.
Identity(p, inspected) ==
    LET nodes == AdvertisedNodes(KernelOf[p], Requested[p])
        probe == IF inspected
                 THEN MsaReplicaWords(MsaDynamicShared(LimitsOf[p].optin), nodes)
                 ELSE None
    IN  [nodes |-> nodes, probed |-> probe # None,
         words |-> IF probe = None THEN MSA_REPLICA_WORDS ELSE probe]

Declare(p) ==
    /\ pc[p] = "declare"
    /\ \E inspected \in BOOLEAN :
           /\ inspected => KernelOf[p] = "Msa"
           /\ declared' = [declared EXCEPT ![p] = Identity(p, inspected)]
    /\ Goto(p, "resolve")
    /\ UNCHANGED <<at, capacity, loaded, fileVars>>

\* open_with_nodes reads the device's limits and resolves the capacity.
ResolveCapacity(p) ==
    LET nodes == Resolve(KernelOf[p], Requested[p], LimitsOf[p]) IN
    /\ pc[p] = "resolve"
    /\ IF nodes = None
       THEN Goto(p, "refused") /\ UNCHANGED capacity
       ELSE /\ Goto(p, "look")
            /\ capacity' = [capacity EXCEPT ![p] =
                   [nodes |-> nodes, words |-> None,
                    wide  |-> SaWideMaxNodes(KernelOf[p], nodes, LimitsOf[p])]]
    /\ UNCHANGED <<at, declared, loaded, fileVars>>

-----------------------------------------------------------------------------
(* load_or_compile, one build after the other. *)

\* The build at hand is loaded: on to the next.
NextBuild(p) ==
    IF at[p] = Len(Builds(p))
    THEN Goto(p, "configure") /\ UNCHANGED at
    ELSE Goto(p, "look") /\ at' = [at EXCEPT ![p] = @ + 1]

\* The cache holds a file that loads.
Hit(p) ==
    /\ pc[p] = "look"
    /\ final[Key(p)] # None
    /\ final[Key(p)].whole
    /\ loaded' = [loaded EXCEPT ![p] = Append(@, final[Key(p)].build)]
    /\ NextBuild(p)
    /\ UNCHANGED <<declared, capacity, fileVars>>

\* The file is not there, cannot be read or does not load: the build is
\* compiled and loaded, then cached, unless caching is off or the directory
\* cannot be made.
Compile(p) ==
    /\ pc[p] = "look"
    /\ loaded' = [loaded EXCEPT ![p] = Append(@, Current(p))]
    /\ \/ Goto(p, "create") /\ UNCHANGED at
       \/ NextBuild(p)
    /\ UNCHANGED <<declared, capacity, fileVars>>

\* The driver, NVRTC or the load of fresh PTX fails: reading or writing the
\* cache never refuses an open.
OpenFails(p) ==
    /\ pc[p] \in {"resolve", "look", "configure"}
    /\ Goto(p, "refused")
    /\ UNCHANGED <<at, declared, capacity, loaded, fileVars>>

Text(p, whole) == [build |-> Current(p), whole |-> whole]

\* Bug: the text is written into the cache entry itself, without a rename.
CreateInPlace(p) ==
    /\ pc[p] = "create"
    /\ tmp' = [tmp EXCEPT ![TmpName(p)] = Text(p, FALSE)]
    /\ final' = [final EXCEPT ![Key(p)] = Text(p, FALSE)]
    /\ Goto(p, "write")
    /\ UNCHANGED <<at, declared, capacity, loaded>>

\* fs::write opens the temporary file, new or truncated ...
Create(p) ==
    /\ pc[p] = "create"
    /\ tmp' = [tmp EXCEPT ![TmpName(p)] = Text(p, FALSE)]
    /\ Goto(p, "write")
    /\ UNCHANGED <<at, declared, capacity, loaded, final>>

\* ... and writes the text.
Write(p) ==
    /\ pc[p] = "write"
    /\ tmp' = [tmp EXCEPT ![TmpName(p)] = Text(p, TRUE)]
    /\ Goto(p, "rename")
    /\ UNCHANGED <<at, declared, capacity, loaded, final>>

\* Opening or writing the file fails: the build is done, uncached, and what
\* was written stays under the temporary name.
WriteFails(p) ==
    /\ pc[p] \in {"create", "write"}
    /\ NextBuild(p)
    /\ UNCHANGED <<declared, capacity, loaded, fileVars>>

Rename(p) ==
    /\ pc[p] = "rename"
    /\ final' = [final EXCEPT ![Key(p)] = tmp[TmpName(p)]]
    /\ tmp' = [tmp EXCEPT ![TmpName(p)] = None]
    /\ NextBuild(p)
    /\ UNCHANGED <<declared, capacity, loaded>>

\* The rename fails: the temporary file is removed, if it can be.
RenameFails(p) ==
    /\ pc[p] = "rename"
    /\ tmp' \in {tmp, [tmp EXCEPT ![TmpName(p)] = None]}
    /\ NextBuild(p)
    /\ UNCHANGED <<declared, capacity, loaded, final>>

-----------------------------------------------------------------------------
\* The replica words of the opened device; None refuses an MSA open.
Configure(p) ==
    LET words == OpenedReplicaWords(KernelOf[p], NodesFor(p, "Msa", capacity[p].nodes),
                                    LimitsOf[p]) IN
    /\ pc[p] = "configure"
    /\ IF words = None
       THEN Goto(p, "refused") /\ UNCHANGED capacity
       ELSE Goto(p, "open") /\ capacity' = [capacity EXCEPT ![p].words = words]
    /\ UNCHANGED <<at, declared, loaded, fileVars>>

\* A process dies, exits or was refused, and is started again.  Its files stay.
Restart(p) ==
    /\ pc[p] # "declare"
    /\ Goto(p, "declare")
    /\ at' = [at EXCEPT ![p] = 1]
    /\ declared' = [declared EXCEPT ![p] = None]
    /\ capacity' = [capacity EXCEPT ![p] = None]
    /\ loaded' = [loaded EXCEPT ![p] = <<>>]
    /\ UNCHANGED fileVars

OpenStep(p) ==
    \/ Declare(p) \/ ResolveCapacity(p)
    \/ Hit(p) \/ Compile(p) \/ OpenFails(p)
    \/ Create(p) \/ Write(p) \/ WriteFails(p)
    \/ Rename(p) \/ RenameFails(p)
    \/ Configure(p) \/ Restart(p)

OpenNext == \E p \in Process : OpenStep(p)

OpenSpec == OpenInit /\ [][OpenNext]_openVars

-----------------------------------------------------------------------------
\* The modules a device runs are the ones it would have compiled: never one a
\* process cached for another capacity, variant or target.
LoadedIsOwn ==
    \A p \in Process :
        /\ loaded[p] = SubSeq(Builds(p), 1, Len(loaded[p]))
        /\ pc[p] = "open" => Len(loaded[p]) = Len(Builds(p))

\* "Concurrent processes never observe a partial file" (jit_cache.rs:112):
\* whatever fails, dies or is left over by a process that had the same id, a
\* cache entry is whole.
CacheWhole == \A key \in Keys : final[key] # None => final[key].whole

\* An identity declared after a successful probe is what the open device
\* serves, in nodes and in reads.
DeclaredIsServed ==
    \A p \in Process :
        pc[p] = "open" =>
            /\ declared[p].nodes = capacity[p].nodes
            /\ KernelOf[p] = "Msa" /\ declared[p].probed =>
                   declared[p].words = capacity[p].words

\* Replica words of a multi-spin session: a word holds 64 reads, and the
\* kernel takes a power of two of them.
SessionWords(reads) == IF CeilDiv(reads, MSA_LANES) = 1 THEN 1 ELSE 2

\* Every job an open device may be given, up to its node capacity and its
\* read cap, fits the memory the capacity was derived from; SA up to the
\* rounding its budget drops, less than a byte of each resident thread.
CapacityFits ==
    \A p \in Process :
        pc[p] = "open" =>
            LET dev == capacity[p]
                lim == LimitsOf[p]
            IN  /\ KernelOf[p] = "Sa" =>
                      /\ SaWorkingSet(dev.nodes, lim)
                             <= UsableBytes(lim) + lim.sms * lim.threads
                      /\ dev.wide > 0 =>
                             SaWideWorkingSet(dev.wide, dev.nodes, lim) <= UsableBytes(lim)
                /\ KernelOf[p] = "Msa" =>
                      \A reads \in 1..MsaMaxReads(dev.words) :
                          MsaSharedBytes(dev.nodes, SessionWords(reads))
                              <= MsaDynamicShared(lim.optin)
                /\ KernelOf[p] = "Gibbs" =>
                      dev.nodes + GIBBS_FIXED_SHARED_BYTES <= lim.shared
=============================================================================
