------------------------------ MODULE Capacity ------------------------------
(***************************************************************************)
(* How many graph nodes a kernel may be compiled and opened for on a       *)
(* device (src/src/capacity.rs): the budgets, the floor, what is           *)
(* advertised before the device is open and what `resolve' accepts once    *)
(* its limits are known.  Integers are ideal: the code's saturating        *)
(* multiplications saturate at 2^64, far above what any device reports.    *)
(***************************************************************************)
EXTENDS Integers

CONSTANT None       \* Rust's Option::None

SubSat(a, b)  == IF a >= b THEN a - b ELSE 0
CeilDiv(a, b) == (a + b - 1) \div b
AtMost(a, b)  == IF a <= b THEN a ELSE b
AtLeast(a, b) == IF a >= b THEN a ELSE b

KernelKind == {"Sa", "Msa", "Gibbs"}

(***************************************************************************)
(* Facts of a device: shared memory of a block, the same after opt-in,     *)
(* free device memory, multiprocessors, resident threads of each.          *)
(***************************************************************************)
DeviceLimits == [shared : Nat, optin : Nat, free : Nat,
                 sms : Nat \ {0}, threads : Nat]

\* Free memory less the headroom of one fifth.
UsableBytes(lim) == (lim.free \div 5) * 4

-----------------------------------------------------------------------------
(***************************************************************************)
(* SA: the stack frame is per-thread local memory, reserved for every      *)
(* thread the device could run; the delta workspace is per launched thread.*)
(***************************************************************************)
LOCAL_MEM_BYTES_PER_THREAD == 524288
SA_THREADS_PER_NONCE       == 256
SA_WIDE_DELTA_BYTES        == 4
NEGLOG_TABLE_BYTES         == 65536 * 8

SaFrameBytes(nodes) == nodes + CeilDiv(nodes, 8)

SaWorkingSet(nodes, lim) ==
    SaFrameBytes(nodes) * lim.sms * lim.threads
        + nodes * lim.sms * SA_THREADS_PER_NONCE

\* Nodes the per-thread cap on local memory allows.
LocalCapNodes == (LOCAL_MEM_BYTES_PER_THREAD * 8) \div 9

\* The quotient drops the rounding of the packed state.
SaBudget(lim) ==
    LET perNode == lim.sms * ((lim.threads * 9) \div 8 + SA_THREADS_PER_NONCE)
    IN  AtMost(UsableBytes(lim) \div AtLeast(perNode, 1), LocalCapNodes)

SaWideWorkingSet(nodes, frame, lim) ==
    SaFrameBytes(frame) * lim.sms * lim.threads
        + nodes * SA_WIDE_DELTA_BYTES * lim.sms * SA_THREADS_PER_NONCE
        + NEGLOG_TABLE_BYTES

\* Where the loop of sa_wide_budget starts.
WideStart(frame, lim) ==
    AtMost(SubSat(UsableBytes(lim), SaWideWorkingSet(0, frame, lim))
               \div (lim.sms * SA_THREADS_PER_NONCE * SA_WIDE_DELTA_BYTES),
           frame)

\* The first count, from the start downwards, that fits; zero if none does.
SaWideBudget(frame, lim) ==
    LET start   == WideStart(frame, lim)
        Fits(n) == SaWideWorkingSet(n, frame, lim) <= UsableBytes(lim)
    IN  IF start = 0 \/ Fits(start) THEN start
        ELSE CHOOSE n \in 0..(start - 1) :
                 /\ n = 0 \/ Fits(n)
                 /\ \A m \in (n + 1)..start : ~Fits(m)

-----------------------------------------------------------------------------
(***************************************************************************)
(* MSA and Gibbs keep the spins in shared memory.                          *)
(***************************************************************************)
MSA_LANES               == 64
MSA_REPLICA_WORDS       == 2
MSA_STATIC_SHARED_BYTES == 16
MSA_FIXED_SHARED_BYTES  == 8192 + 64 * 8

MsaMaxReads(words) == MSA_LANES * words

MsaDynamicShared(optin) == SubSat(optin, MSA_STATIC_SHARED_BYTES)

MsaSharedBytes(nodes, words) == nodes * words * 8 + MSA_FIXED_SHARED_BYTES

MsaBudget(dynamic, words) ==
    SubSat(dynamic, MSA_FIXED_SHARED_BYTES) \div AtLeast(words * 8, 1)

\* The most replica words that fit, down to one.
MsaReplicaWords(dynamic, nodes) ==
    LET Fits(w) == MsaSharedBytes(nodes, w) <= dynamic
    IN  IF \E w \in 1..MSA_REPLICA_WORDS : Fits(w)
        THEN CHOOSE w \in 1..MSA_REPLICA_WORDS :
                 /\ Fits(w)
                 /\ \A v \in (w + 1)..MSA_REPLICA_WORDS : ~Fits(v)
        ELSE None

GIBBS_FIXED_SHARED_BYTES == 8

GibbsBudget(shared) == SubSat(shared, GIBBS_FIXED_SHARED_BYTES)

-----------------------------------------------------------------------------
(***************************************************************************)
(* The policy.                                                             *)
(***************************************************************************)
DefaultNodes(kernel) == IF kernel = "Gibbs" THEN 4800 ELSE 5000

Wanted(kernel, requested) == AtLeast(requested, DefaultNodes(kernel))

\* What --capabilities answers without a device.
AdvertisedNodes(kernel, requested) ==
    IF kernel = "Sa" THEN AtMost(Wanted(kernel, requested), LocalCapNodes)
                     ELSE Wanted(kernel, requested)

Budget(kernel, lim) ==
    CASE kernel = "Sa"    -> SaBudget(lim)
      [] kernel = "Msa"   -> MsaBudget(MsaDynamicShared(lim.optin), 1)
      [] kernel = "Gibbs" -> GibbsBudget(lim.shared)

\* The capacity a device is opened with, or None: refused.
Resolve(kernel, requested, lim) ==
    IF Wanted(kernel, requested) > Budget(kernel, lim)
    THEN None
    ELSE Wanted(kernel, requested)

\* Bug: wide jobs are served up to the compiled capacity.
SaWideMaxNodesOfFrame(kernel, nodes, lim) == IF kernel = "Sa" THEN nodes ELSE 0

\* Capacity of wide SA jobs on a device opened for SA.
SaWideMaxNodes(kernel, nodes, lim) ==
    IF kernel = "Sa" THEN SaWideBudget(nodes, lim) ELSE 0

\* Replica words of an opened device; None: the open is refused.  A process
\* of another kernel gets one word and never reads it.
OpenedReplicaWords(kernel, msaNodes, lim) ==
    LET words == MsaReplicaWords(MsaDynamicShared(lim.optin), msaNodes)
    IN  IF words = None /\ kernel # "Msa" THEN 1 ELSE words
=============================================================================
