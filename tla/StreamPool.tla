----------------------------- MODULE StreamPool -----------------------------
(***************************************************************************)
(* Single-job sessions of one open device and the pool of stream pairs they *)
(* check out (src/src/stream_pool.rs; sample_one, bench_one and the         *)
(* session's build and drop in src/src/streaming.rs).  A caller is a thread *)
(* with one job.  A pair is two unordered streams: the compute stream runs  *)
(* allocations, the kernel and the frees behind it, the transfer stream the *)
(* uploads and the exit word.  The lock of the pool is held for a step at a *)
(* time; waiting on its condition variable and the notification of a put    *)
(* are steps of their own.                                                  *)
(***************************************************************************)
EXTENDS Naturals, Sequences, FiniteSets

CONSTANTS
    Caller,         \* threads that run one job each
    Pair,           \* stream pairs: 64 in the code
    NoPair,         \* a caller that holds no pair
    Bench,          \* the callers that run bench_one
    PoolFaults      \* bound: driver calls that fail, refused graphs and timeouts

ASSUME PoolAssumption ==
    /\ IsFiniteSet(Caller) /\ IsFiniteSet(Pair)
    /\ NoPair \notin Pair
    /\ Bench \subseteq Caller
    /\ PoolFaults \in Nat

VARIABLES
    step,       \* where a caller is
    held,       \* the pair it has checked out
    launched,   \* its session's flag
    available,  \* the pool
    leaked,     \* pairs that could not be drained
    compute,    \* work queued on the compute stream of a pair
    transfer,   \* work queued on its transfer stream
    mail,       \* its control words: job READY, slot COMPLETE, exit word
    failures    \* what went wrong so far

callVars   == <<held, launched>>
poolVars   == <<available, leaked>>
queueVars  == <<compute, transfer, mail>>
streamVars == <<step, callVars, poolVars, queueVars, failures>>

NoMail == [ready |-> FALSE, complete |-> FALSE, exit |-> "none"]

PoolInit ==
    /\ step = [c \in Caller |-> "call"]
    /\ held = [c \in Caller |-> NoPair]
    /\ launched = [c \in Caller |-> FALSE]
    /\ available \in [1..Cardinality(Pair) -> Pair]
    /\ \A p \in Pair : \E i \in DOMAIN available : available[i] = p
    /\ leaked = {}
    /\ compute = [p \in Pair |-> <<>>]
    /\ transfer = [p \in Pair |-> <<>>]
    /\ mail = [p \in Pair |-> NoMail]
    /\ failures = 0

Become(c, label)     == step' = [step EXCEPT ![c] = label]
Queued(queue, p, work) == [queue EXCEPT ![p] = Append(@, work)]
Drained(p)           == compute[p] = <<>> /\ transfer[p] = <<>>

\* A driver call fails, a graph is refused or a kernel takes too long.
Fails == failures < PoolFaults /\ failures' = failures + 1

-----------------------------------------------------------------------------
(* The pool. *)

\* The job is refused by its plan, or has no nodes and is answered at once.
PlanEnds(c) ==
    /\ step[c] = "call"
    /\ Become(c, "done")
    /\ UNCHANGED <<callVars, poolVars, queueVars, failures>>

\* The plan holds, or the caller is awake again: under the lock, the last
\* pair, or wait.
Take(c) ==
    /\ step[c] \in {"call", "take"}
    /\ available # <<>>
    /\ held' = [held EXCEPT ![c] = available[Len(available)]]
    /\ available' = SubSeq(available, 1, Len(available) - 1)
    /\ Become(c, "alloc")
    /\ UNCHANGED <<launched, leaked, queueVars, failures>>

Wait(c) ==
    /\ step[c] \in {"call", "take"}
    /\ available = <<>>
    /\ Become(c, "wait")
    /\ UNCHANGED <<callVars, poolVars, queueVars, failures>>

\* A condition variable may wake its waiter for no reason.
SpuriousWake(c) ==
    /\ step[c] = "wait"
    /\ Become(c, "take")
    /\ UNCHANGED <<callVars, poolVars, queueVars, failures>>

\* Bug: only the transfer stream is drained.
DrainTransferOnly(c) ==
    /\ step[c] = "drain"
    /\ transfer[held[c]] = <<>>
    /\ available' = Append(available, held[c])
    /\ held' = [held EXCEPT ![c] = NoPair]
    /\ Become(c, "notify")
    /\ UNCHANGED <<launched, leaked, queueVars, failures>>

\* The lease of the pair is dropped: both streams drain and it goes back.
Drain(c) ==
    /\ step[c] = "drain"
    /\ Drained(held[c])
    /\ available' = Append(available, held[c])
    /\ held' = [held EXCEPT ![c] = NoPair]
    /\ Become(c, "notify")
    /\ UNCHANGED <<launched, leaked, queueVars, failures>>

\* A stream that cannot be drained keeps its pair out of the pool for good.
DrainFails(c) ==
    /\ step[c] = "drain"
    /\ Fails
    /\ leaked' = leaked \cup {held[c]}
    /\ held' = [held EXCEPT ![c] = NoPair]
    /\ Become(c, "done")
    /\ UNCHANGED <<launched, available, queueVars>>

\* Bug: a put that finds the pool not empty notifies nobody.
NotifyFirstOnly(c) ==
    /\ step[c] = "notify"
    /\ LET waiting == {w \in Caller : step[w] = "wait"} IN
       \/ (waiting = {} \/ Len(available) > 1) /\ Become(c, "done")
       \/ /\ Len(available) <= 1
          /\ \E w \in waiting : step' = [step EXCEPT ![c] = "done", ![w] = "take"]
    /\ UNCHANGED <<callVars, poolVars, queueVars, failures>>

\* notify_one, after the lock is released: one waiter, if there is any.
Notify(c) ==
    /\ step[c] = "notify"
    /\ LET waiting == {w \in Caller : step[w] = "wait"} IN
       \/ waiting = {} /\ Become(c, "done")
       \/ \E w \in waiting : step' = [step EXCEPT ![c] = "done", ![w] = "take"]
    /\ UNCHANGED <<callVars, poolVars, queueVars, failures>>

-----------------------------------------------------------------------------
(* The call. *)

\* build: allocations and their memsets are queued on the compute stream ...
Alloc(c) ==
    /\ step[c] = "alloc"
    /\ compute' = Queued(compute, held[c], "init")
    /\ Become(c, "settle")
    /\ UNCHANGED <<callVars, poolVars, transfer, mail, failures>>

\* build fails, or refuses the graph, with part of its work queued: the
\* buffers are dropped, then the lease.
BuildFails(c) ==
    /\ \/ /\ step[c] = "alloc"
          /\ compute' \in {compute, Queued(compute, held[c], "init")}
       \/ /\ step[c] = "settle"
          /\ UNCHANGED compute
    /\ Fails
    /\ Become(c, "free")
    /\ UNCHANGED <<callVars, poolVars, transfer, mail>>

Uploads(c) == IF c \in Bench THEN <<"upload", "arm">> ELSE <<"upload">>

\* Bug: the upload does not wait for the memsets.
UploadAtOnce(c) ==
    /\ step[c] = "settle"
    /\ transfer' = [transfer EXCEPT ![held[c]] = @ \o Uploads(c)]
    /\ Become(c, "launch")
    /\ UNCHANGED <<callVars, poolVars, compute, mail, failures>>

\* ... which is drained before anything is uploaded: the beta schedule and the
\* job; bench_one arms the exit word as well.
Upload(c) ==
    /\ step[c] = "settle"
    /\ compute[held[c]] = <<>>
    /\ transfer' = [transfer EXCEPT ![held[c]] = @ \o Uploads(c)]
    /\ Become(c, "launch")
    /\ UNCHANGED <<callVars, poolVars, compute, mail, failures>>

\* bench_one commits the upload before it times the launch.
Launch(c) ==
    /\ step[c] = "launch"
    /\ c \in Bench => transfer[held[c]] = <<>>
    /\ compute' = Queued(compute, held[c], "kernel")
    /\ launched' = [launched EXCEPT ![c] = TRUE]
    /\ Become(c, "poll")
    /\ UNCHANGED <<held, poolVars, transfer, mail, failures>>

\* The slot is complete: its reads are downloaded.
PollComplete(c) ==
    /\ step[c] = "poll"
    /\ mail[held[c]].complete
    /\ Become(c, "signal")
    /\ UNCHANGED <<callVars, poolVars, queueVars, failures>>

\* Two minutes are over and the slot is not complete.
KernelTimeout(c) ==
    /\ step[c] = "poll"
    /\ ~mail[held[c]].complete
    /\ Fails
    /\ Become(c, "drop")
    /\ UNCHANGED <<callVars, poolVars, queueVars>>

\* signal_exit, then wait_exit, then the reads are returned.
SignalExit(c) ==
    /\ step[c] = "signal"
    /\ transfer' = Queued(transfer, held[c], "exit")
    /\ Become(c, "join")
    /\ UNCHANGED <<callVars, poolVars, compute, mail, failures>>

WaitExit(c) ==
    /\ step[c] = "join"
    /\ Drained(held[c])
    /\ launched' = [launched EXCEPT ![c] = FALSE]
    /\ Become(c, "drop join")
    /\ UNCHANGED <<held, poolVars, queueVars, failures>>

\* Any call to the driver fails: the error is returned, the session dropped.
CallFails(c) ==
    /\ step[c] \in {"settle", "launch", "poll", "signal", "join"}
    /\ Fails
    /\ IF step[c] = "settle"
       THEN /\ compute[held[c]] = <<>>
            /\ transfer' \in {transfer, Queued(transfer, held[c], "upload")}
       ELSE UNCHANGED transfer
    /\ Become(c, IF launched[c] THEN "drop" ELSE "drop join")
    /\ UNCHANGED <<callVars, poolVars, compute, mail>>

-----------------------------------------------------------------------------
(* Drop of the session, then of its buffers, then of its lease. *)

\* A launched kernel is told to leave ...
DropSignal(c) ==
    /\ step[c] = "drop"
    /\ transfer' = Queued(transfer, held[c], "exit")
    /\ Become(c, "drop join")
    /\ UNCHANGED <<callVars, poolVars, compute, mail, failures>>

\* ... and the error of that is dropped.
DropSignalFails(c) ==
    /\ step[c] = "drop"
    /\ Fails
    /\ Become(c, "drop join")
    /\ UNCHANGED <<callVars, poolVars, queueVars>>

\* Both streams are drained, launched or not.
DropJoin(c) ==
    /\ step[c] = "drop join"
    /\ Drained(held[c])
    /\ launched' = [launched EXCEPT ![c] = FALSE]
    /\ Become(c, "free")
    /\ UNCHANGED <<held, poolVars, queueVars, failures>>

DropJoinFails(c) ==
    /\ step[c] = "drop join"
    /\ Fails
    /\ Become(c, "drop context")
    /\ UNCHANGED <<callVars, poolVars, queueVars>>

\* The whole context is synchronized: the streams of every pair.
SyncContext(c) ==
    /\ step[c] = "drop context"
    /\ \A p \in Pair : Drained(p)
    /\ Become(c, "free")
    /\ UNCHANGED <<callVars, poolVars, queueVars, failures>>

\* Or that fails too and the process aborts.
Abort(c) ==
    /\ step[c] = "drop context"
    /\ Fails
    /\ step' = [u \in Caller |-> "aborted"]
    /\ UNCHANGED <<callVars, poolVars, queueVars>>

\* The buffers' frees are queued behind everything on the compute stream.
Free(c) ==
    /\ step[c] = "free"
    /\ compute' = Queued(compute, held[c], "free")
    /\ Become(c, "drain")
    /\ UNCHANGED <<callVars, poolVars, transfer, mail, failures>>

-----------------------------------------------------------------------------
(* The device. *)

Head1(p, queue, work) == queue[p] # <<>> /\ Head(queue[p]) \in work
Pop(queue, p) == [queue EXCEPT ![p] = Tail(@)]

\* Zero-initialization wipes the control words.
RunCompute(p) ==
    /\ Head1(p, compute, {"init", "free"})
    /\ compute' = Pop(compute, p)
    /\ mail' = IF Head(compute[p]) = "init" THEN [mail EXCEPT ![p] = NoMail] ELSE mail
    /\ UNCHANGED <<step, callVars, poolVars, transfer, failures>>

RunTransfer(p) ==
    /\ transfer[p] # <<>>
    /\ transfer' = Pop(transfer, p)
    /\ LET work == Head(transfer[p])
       IN  mail' = [mail EXCEPT ![p] = [ready    |-> @.ready \/ work = "upload",
                                        complete |-> @.complete,
                                        exit     |-> CASE work = "arm"  -> "after model"
                                                       [] work = "exit" -> "abort"
                                                       [] OTHER         -> @.exit]]
    /\ UNCHANGED <<step, callVars, poolVars, compute, failures>>

\* The kernel anneals the job it finds READY and publishes the slot.
KernelModel(p) ==
    /\ Head1(p, compute, {"kernel"})
    /\ mail[p].ready
    /\ mail' = [mail EXCEPT ![p].ready = FALSE, ![p].complete = TRUE]
    /\ UNCHANGED <<step, callVars, poolVars, compute, transfer, failures>>

\* It leaves when told to: at once, or after a model.
KernelLeaves(p) ==
    /\ Head1(p, compute, {"kernel"})
    /\ \/ mail[p].exit = "abort"
       \/ mail[p].exit = "after model" /\ mail[p].complete
    /\ compute' = Pop(compute, p)
    /\ UNCHANGED <<step, callVars, poolVars, transfer, mail, failures>>

Proceed(c) ==
    \/ PlanEnds(c) \/ Take(c) \/ Wait(c) \/ Drain(c) \/ Notify(c)
    \/ Alloc(c) \/ Upload(c) \/ Launch(c)
    \/ PollComplete(c) \/ SignalExit(c) \/ WaitExit(c)
    \/ DropSignal(c) \/ DropJoin(c) \/ SyncContext(c) \/ Free(c)

Misfortune(c) ==
    \/ SpuriousWake(c) \/ KernelTimeout(c)
    \/ BuildFails(c) \/ CallFails(c) \/ DropSignalFails(c) \/ DropJoinFails(c)
    \/ Abort(c) \/ DrainFails(c)

RunsCompute(p) == RunCompute(p) \/ KernelModel(p) \/ KernelLeaves(p)

PoolNext ==
    \/ \E c \in Caller : Proceed(c) \/ Misfortune(c)
    \/ \E p \in Pair : RunsCompute(p) \/ RunTransfer(p)

\* A thread that can run runs; a call that does not fail returns; the two
\* streams of a pair make progress independently.
PoolFairness ==
    /\ \A c \in Caller : WF_streamVars(Proceed(c))
    /\ \A p \in Pair : WF_streamVars(RunsCompute(p)) /\ WF_streamVars(RunTransfer(p))

PoolSpec     == PoolInit /\ [][PoolNext]_streamVars
FairPoolSpec == PoolSpec /\ PoolFairness

-----------------------------------------------------------------------------
Steps == {"call", "take", "wait", "alloc", "settle", "launch", "poll",
          "signal", "join", "drop", "drop join", "drop context", "free",
          "drain", "notify", "done", "aborted"}

\* The steps at which a caller has a pair.
Holding == Steps \ {"call", "take", "wait", "notify", "done", "aborted"}

\* Every pair is in the pool once, with one caller or leaked, never in two of
\* these places, and a pair in the pool has nothing queued: no free, no copy
\* and no kernel of the session that had it before.
PairsInPlace ==
    /\ \A i, k \in DOMAIN available : available[i] = available[k] => i = k
    /\ \A c, u \in Caller : held[c] # NoPair /\ held[c] = held[u] => c = u
    /\ \A p \in Pair :
           LET pooled == \E i \in DOMAIN available : available[i] = p
               out    == \E c \in Caller : held[c] = p
           IN  /\ pooled => Drained(p) /\ ~out /\ p \notin leaked
               /\ out => p \notin leaked
               /\ pooled \/ out \/ p \in leaked

\* A caller sleeps only when every pair in the pool has somebody awake on the
\* way to it, or a notification not yet given.
NoLostWakeup ==
    (\E c \in Caller : step[c] = "wait") =>
        Len(available) <= Cardinality({c \in Caller : step[c] \in {"take", "notify"}})

\* The pool never lends what is still in use, nor lets a caller sleep on a pair.
PoolSafe == PairsInPlace /\ NoLostWakeup

\* Buffers are freed when no kernel runs on them and no copy into them is
\* queued, and a kernel whose uploads have landed finds its job: no memset of
\* the build comes after them.
SessionSafe ==
    \A c \in Caller :
        /\ step[c] = "free" =>
               /\ transfer[held[c]] = <<>>
               /\ \A i \in DOMAIN compute[held[c]] : compute[held[c]][i] # "kernel"
        /\ step[c] = "poll" /\ transfer[held[c]] = <<>> =>
               mail[held[c]].ready \/ mail[held[c]].complete

\* Once calls are being made they all return, unless the process aborts, every
\* pair is lost to a failed drain, or a session's exit word was lost: that
\* session waits for a kernel nobody told to leave.
Stuck(c) == /\ step[c] \in {"join", "drop join"}
            /\ launched[c] /\ transfer[held[c]] = <<>>
            /\ mail[held[c]].exit = "none"

CallersReturn ==
    (\E c \in Caller : step[c] # "call") ~>
        \/ \A c \in Caller : step[c] \in {"done", "aborted"}
        \/ leaked = Pair
        \/ \E c \in Caller : Stuck(c)
=============================================================================
