---------------------------- MODULE LeaseSampling ----------------------------
(***************************************************************************)
(* Lease sampling (src/src/lease.rs, src/src/lease_turn.rs): the leases of  *)
(* one sampler take turns; the one whose turn it is works through its       *)
(* salts chunk by chunk, screens each chunk with a probe if it can, and     *)
(* solves what is left with a stream of its own.                            *)
(*                                                                         *)
(* A full solve is three threads: the lease's thread runs the stream        *)
(* (run_stream; StreamDriver shows that it answers every job once), the     *)
(* reporter passes results to the lease's sink and may be blocked there,    *)
(* and the watcher cancels the stream when the sink stops.                  *)
(*                                                                         *)
(* The sink is the caller's: it may stop a lease or go away at any moment,  *)
(* and it returns from push whenever it likes.                              *)
(***************************************************************************)
EXTENDS Integers, Sequences, FiniteSets

CONSTANTS
    Lease,
    MaxSalts,   \* bound: the largest salt_count
    Salts,      \* salt_count of each lease
    ChunkMax,   \* bound: the largest chunk chunk_size may choose
    MaxFaults   \* bound: device calls that fail in one behaviour

ASSUME Assumption ==
    /\ MaxSalts \in Nat
    /\ Salts \in [Lease -> 1..MaxSalts]
    /\ ChunkMax \in Nat \ {0}
    /\ MaxFaults \in Nat

Salt == 0..(MaxSalts - 1)

VARIABLES
    sink,               \* "open", "stopped" (is_stopped), "gone" (its receiver is)
    waiting,            \* LeaseTurns: leases in join order, the working one first
    pc, result,         \* the lease's thread, and what sample returned
    screened,           \* is there a probe for its topology
    start, end,         \* the chunk
    at, upto,           \* the next probed salt to decide, and how many were probed
    pending,            \* salts of the chunk that wait for a full solve
    told,               \* what the sink was told of each salt
    batch, jobs,        \* the jobs of the full solve; those not yet answered
    out,                \* its result channel
    cancel,             \* its CancelToken
    watcher, reporter,  \* its two helper threads ("off" when they have ended)
    current,            \* the salt the reporter is about to push
    stopped, failure,   \* the reporter's locals of that name
    verdict,            \* what report returned
    faults, busies      \* device calls that failed; that found the device busy

queueVars    == <<waiting>>
chunkVars    == <<screened, start, end, at, upto>>
streamVars   == <<batch, jobs, out>>
reporterVars == <<reporter, current, stopped, failure, verdict>>
troubleVars  == <<faults, busies>>
vars == <<sink, queueVars, pc, result, chunkVars, pending, told, streamVars,
          cancel, watcher, reporterVars, troubleVars>>

Working == {"open", "head", "probe", "decide", "solve", "stream", "join"}
Pc      == Working \cup {"begin", "wait", "done"}
Result  == {"Ok", "Capacity", "DeviceFault"}
Outcome == {"reads", "cancelled", "noreads", "Capacity", "DeviceBusy", "DeviceFault"}
NoSalt  == MaxSalts
Salt0   == Salt \cup {NoSalt}

MayFail == faults + busies < MaxFaults
Fail    == MayFail /\ faults' = faults + 1 /\ UNCHANGED busies

Init ==
    /\ sink = [l \in Lease |-> "open"]
    /\ waiting = <<>>
    /\ pc = [l \in Lease |-> "begin"]
    /\ result = [l \in Lease |-> "none"]
    /\ screened = [l \in Lease |-> FALSE]
    /\ start = [l \in Lease |-> 0] /\ end = [l \in Lease |-> 0]
    /\ at = [l \in Lease |-> 0] /\ upto = [l \in Lease |-> 0]
    /\ pending = [l \in Lease |-> {}]
    /\ told = [l \in Lease |-> [s \in Salt |-> "nothing"]]
    /\ batch = [l \in Lease |-> {}] /\ jobs = [l \in Lease |-> {}]
    /\ out = [l \in Lease |-> <<>>]
    /\ cancel = [l \in Lease |-> FALSE]
    /\ watcher = [l \in Lease |-> "off"] /\ reporter = [l \in Lease |-> "off"]
    /\ current = [l \in Lease |-> NoSalt]
    /\ stopped = [l \in Lease |-> FALSE]
    /\ failure = [l \in Lease |-> "none"] /\ verdict = [l \in Lease |-> "none"]
    /\ faults = 0 /\ busies = 0

IsStopped(l) == sink[l] = "stopped"
Goto(l, p)   == pc' = [pc EXCEPT ![l] = p]

(* LeaseSink (external): each salt is to be accounted for once.             *)
Tell(l, s, kind) ==
    told' = [told EXCEPT ![l][s] = IF @ = "nothing" THEN kind ELSE "twice"]

SinkStops(l) ==
    /\ ~IsStopped(l)
    /\ sink' = [sink EXCEPT ![l] = "stopped"]
    /\ UNCHANGED <<queueVars, pc, result, chunkVars, pending, told, streamVars,
                   cancel, watcher, reporterVars, troubleVars>>

SinkGoes(l) ==
    /\ sink[l] = "open"
    /\ sink' = [sink EXCEPT ![l] = "gone"]
    /\ UNCHANGED <<queueVars, pc, result, chunkVars, pending, told, streamVars,
                   cancel, watcher, reporterVars, troubleVars>>
-----------------------------------------------------------------------------
(* sample: admission, the turn, the probe.                                  *)

(* The locals of a chunk go with it.                                        *)
DropChunk(l) ==
    /\ at' = [at EXCEPT ![l] = 0]
    /\ upto' = [upto EXCEPT ![l] = 0]
    /\ pending' = [pending EXCEPT ![l] = {}]

(* Turn::release.  An id joins once, so retain takes out one place.         *)
Without(queue, l) ==
    IF \E i \in DOMAIN queue : queue[i] = l
    THEN LET place == CHOOSE i \in DOMAIN queue : queue[i] = l
         IN  [i \in 1..(Len(queue) - 1) |-> queue[IF i < place THEN i ELSE i + 1]]
    ELSE queue

(* Returning from sample drops the Turn, whatever the exit path.            *)
Leave(l, r) ==
    /\ Goto(l, "done")
    /\ DropChunk(l)
    /\ screened' = [screened EXCEPT ![l] = FALSE]
    /\ result' = [result EXCEPT ![l] = r]
    /\ waiting' = Without(waiting, l)

TooLarge(l) ==
    /\ pc[l] = "begin"
    /\ Goto(l, "done")
    /\ result' = [result EXCEPT ![l] = "Capacity"]
    /\ UNCHANGED <<sink, queueVars, chunkVars, pending, told, streamVars,
                   cancel, watcher, reporterVars, troubleVars>>

Join(l) ==
    /\ pc[l] = "begin"
    /\ Goto(l, "wait")
    /\ waiting' = Append(waiting, l)
    /\ UNCHANGED <<sink, result, chunkVars, pending, told, streamVars,
                   cancel, watcher, reporterVars, troubleVars>>

TakeTurn(l) ==
    /\ pc[l] = "wait"
    /\ ~IsStopped(l)
    /\ Head(waiting) = l
    /\ Goto(l, "open")
    /\ UNCHANGED <<sink, queueVars, result, chunkVars, pending, told, streamVars,
                   cancel, watcher, reporterVars, troubleVars>>

\* Mutant: a lease that gives up stays in the queue.
GiveUpKeepsPlace(l) ==
    /\ pc[l] = "wait"
    /\ IsStopped(l)
    /\ Goto(l, "done")
    /\ result' = [result EXCEPT ![l] = "Ok"]
    /\ UNCHANGED <<sink, queueVars, chunkVars, pending, told, streamVars,
                   cancel, watcher, reporterVars, troubleVars>>

GiveUpTurn(l) ==
    /\ pc[l] = "wait"
    /\ IsStopped(l)
    /\ Leave(l, "Ok")
    /\ UNCHANGED <<sink, start, end, told, streamVars,
                   cancel, watcher, reporterVars, troubleVars>>

(* A topology that cannot be screened, or a screen switched off, is Direct. *)
OpenScreen(l) ==
    /\ pc[l] = "open"
    /\ \/ /\ \E direct \in BOOLEAN : screened' = [screened EXCEPT ![l] = ~direct]
          /\ Goto(l, "head")
          /\ UNCHANGED <<queueVars, result, at, upto, pending, troubleVars>>
       \/ Fail /\ Leave(l, "DeviceFault")
    /\ UNCHANGED <<sink, start, end, told, streamVars,
                   cancel, watcher, reporterVars>>
-----------------------------------------------------------------------------
(* work: one chunk after another.                                           *)

(* chunk_size never exceeds what is left; with a screen it depends on the    *)
(* live configuration and on how fast the last probe was.                   *)
ChunkSize(l) ==
    LET left == Salts[l] - start[l]
        most == IF ChunkMax < left THEN ChunkMax ELSE left
    IN  IF screened[l] THEN 1..most ELSE {most}

NextChunk(l) ==
    /\ pc[l] = "head"
    /\ start[l] < Salts[l] /\ ~IsStopped(l)
    /\ \E n \in ChunkSize(l) :
         /\ end' = [end EXCEPT ![l] = start[l] + n]
         /\ pending' = [pending EXCEPT ![l] =
                          IF screened[l] THEN {} ELSE start[l]..(start[l] + n - 1)]
    /\ Goto(l, IF screened[l] THEN "probe" ELSE "solve")
    /\ UNCHANGED <<sink, queueVars, result, screened, start, at, upto, told,
                   streamVars, cancel, watcher, reporterVars, troubleVars>>

LeaseOver(l) ==
    /\ pc[l] = "head"
    /\ start[l] = Salts[l] \/ IsStopped(l)
    /\ Leave(l, "Ok")
    /\ UNCHANGED <<sink, start, end, told, streamVars,
                   cancel, watcher, reporterVars, troubleVars>>

(* Screen.run: a stop between launches leaves a prefix.                     *)
Probe(l) ==
    /\ pc[l] = "probe"
    /\ \/ /\ \E k \in start[l]..end[l] :
               /\ k < end[l] => IsStopped(l)
               /\ upto' = [upto EXCEPT ![l] = k]
          /\ at' = [at EXCEPT ![l] = start[l]]
          /\ Goto(l, "decide")
          /\ UNCHANGED <<queueVars, result, screened, pending, troubleVars>>
       \/ Fail /\ Leave(l, "DeviceFault")
    /\ UNCHANGED <<sink, start, end, told, streamVars,
                   cancel, watcher, reporterVars>>

\* Mutant: a reject is accounted for and kept for the full solve as well.
AdmitAll(l, decision) ==
    /\ IF decision = "Reject" THEN Tell(l, at[l], "screened") ELSE UNCHANGED told
    /\ pending' = [pending EXCEPT ![l] = @ \cup {at[l]}]
    /\ at' = [at EXCEPT ![l] = @ + 1]

(* Only final rejects are accounted for before a full solve (admit).        *)
Admit(l, decision) ==
    /\ IF decision = "Reject"
       THEN Tell(l, at[l], "screened") /\ UNCHANGED pending
       ELSE pending' = [pending EXCEPT ![l] = @ \cup {at[l]}] /\ UNCHANGED told
    /\ at' = [at EXCEPT ![l] = @ + 1]

Decide(l) ==
    /\ pc[l] = "decide" /\ at[l] < upto[l] /\ ~IsStopped(l)
    /\ \E decision \in {"Reject", "Keep", "Audit"} :
         /\ decision = "Reject" => sink[l] = "open"
         /\ Admit(l, decision)
    /\ UNCHANGED <<sink, queueVars, pc, result, screened, start, end, upto,
                   streamVars, cancel, watcher, reporterVars, troubleVars>>

ScreenRefused(l) ==
    /\ pc[l] = "decide" /\ at[l] < upto[l] /\ sink[l] = "gone"
    /\ Leave(l, "Ok")
    /\ UNCHANGED <<sink, start, end, told, streamVars,
                   cancel, watcher, reporterVars, troubleVars>>

DecideStopped(l) ==
    /\ pc[l] = "decide" /\ IsStopped(l)
    /\ Leave(l, "Ok")
    /\ UNCHANGED <<sink, start, end, told, streamVars,
                   cancel, watcher, reporterVars, troubleVars>>

Decided(l) ==
    /\ pc[l] = "decide" /\ at[l] = upto[l] /\ ~IsStopped(l)
    /\ Goto(l, "solve")
    /\ UNCHANGED <<sink, queueVars, result, chunkVars, pending, told, streamVars,
                   cancel, watcher, reporterVars, troubleVars>>
-----------------------------------------------------------------------------
(* full_solve, run_full_batch: the jobs are all sent before the stream and   *)
(* its two helper threads start.                                            *)

Advance(l) ==
    /\ start' = [start EXCEPT ![l] = end[l]]
    /\ DropChunk(l)
    /\ Goto(l, "head")
    /\ UNCHANGED <<queueVars, result, screened>>

NothingToSolve(l) ==
    /\ pc[l] = "solve"
    /\ pending[l] = {} \/ IsStopped(l)
    /\ Advance(l)
    /\ UNCHANGED <<sink, end, told, streamVars, cancel, watcher, reporterVars,
                   troubleVars>>

(* A salt whose model cannot be drawn.                                      *)
DrawFails(l) ==
    /\ pc[l] = "solve" /\ pending[l] # {}
    /\ Fail
    /\ Leave(l, "DeviceFault")
    /\ UNCHANGED <<sink, start, end, told, streamVars,
                   cancel, watcher, reporterVars>>

SolveStopped(l) ==
    /\ pc[l] = "solve" /\ pending[l] # {} /\ IsStopped(l)
    /\ Leave(l, "Ok")
    /\ UNCHANGED <<sink, start, end, told, streamVars,
                   cancel, watcher, reporterVars, troubleVars>>

RunFullBatch(l) ==
    /\ pc[l] = "solve" /\ pending[l] # {} /\ ~IsStopped(l)
    /\ batch' = [batch EXCEPT ![l] = pending[l]]
    /\ jobs' = [jobs EXCEPT ![l] = pending[l]]
    /\ watcher' = [watcher EXCEPT ![l] = "watch"]
    /\ reporter' = [reporter EXCEPT ![l] = "build"]
    /\ Goto(l, "stream")
    /\ UNCHANGED <<sink, queueVars, result, chunkVars, pending, told, out, cancel,
                   current, stopped, failure, verdict, troubleVars>>

\* Mutant: the result channel has room for one result.
OutCapacityOne(l) == 1

(* run_stream, by its contract: each job is answered once, whatever happens,  *)
(* and it returns when none is left.  The result channel holds one result    *)
(* per job, so that it never waits for the reporter.                        *)
OutCapacity(l) == Cardinality(batch[l])

(* Cancelled, or its results have nowhere to go.                             *)
Abandoned(l) == cancel[l] \/ reporter[l] = "off"

CanAnswer(l, o) ==
    CASE o = "reads"      -> UNCHANGED troubleVars
      [] o = "cancelled"  -> Abandoned(l) /\ UNCHANGED troubleVars
      [] o = "DeviceBusy" -> MayFail /\ busies' = busies + 1 /\ UNCHANGED faults
      [] OTHER            -> Fail

Respond(l, s, o) ==
    /\ pc[l] = "stream" /\ s \in jobs[l]
    /\ Len(out[l]) < OutCapacity(l)
    /\ CanAnswer(l, o)
    /\ jobs' = [jobs EXCEPT ![l] = @ \ {s}]
    /\ out' = [out EXCEPT ![l] = Append(@, [salt |-> s, outcome |-> o])]
    /\ UNCHANGED <<sink, queueVars, pc, result, chunkVars, pending, told, batch,
                   cancel, watcher, reporterVars>>

StreamReturns(l) ==
    /\ pc[l] = "stream" /\ jobs[l] = {}
    /\ Goto(l, "join")
    /\ UNCHANGED <<sink, queueVars, result, chunkVars, pending, told, streamVars,
                   cancel, watcher, reporterVars, troubleVars>>

\* Mutant: the watcher only waits for the stream to return.
WatchStreamOnly(l) ==
    /\ watcher[l] = "watch" /\ pc[l] = "join"
    /\ watcher' = [watcher EXCEPT ![l] = "off"]
    /\ UNCHANGED <<sink, queueVars, pc, result, chunkVars, pending, told,
                   streamVars, cancel, reporterVars, troubleVars>>

(* Every 10 ms: the stop first, then whether the stream has returned.        *)
Watch(l) ==
    /\ watcher[l] = "watch"
    /\ \/ IsStopped(l) /\ cancel' = [cancel EXCEPT ![l] = TRUE]
       \/ pc[l] = "join" /\ UNCHANGED cancel
    /\ watcher' = [watcher EXCEPT ![l] = "off"]
    /\ UNCHANGED <<sink, queueVars, pc, result, chunkVars, pending, told,
                   streamVars, reporterVars, troubleVars>>

\* Mutant: the reporter is not joined.
WatcherJoined(l) == watcher[l] = "off"

HelpersJoined(l) == watcher[l] = "off" /\ reporter[l] = "off"

DropSolve(l) ==
    /\ batch' = [batch EXCEPT ![l] = {}]
    /\ jobs' = [jobs EXCEPT ![l] = {}]
    /\ out' = [out EXCEPT ![l] = <<>>]
    /\ cancel' = [cancel EXCEPT ![l] = FALSE]
    /\ stopped' = [stopped EXCEPT ![l] = FALSE]
    /\ failure' = [failure EXCEPT ![l] = "none"]
    /\ verdict' = [verdict EXCEPT ![l] = "none"]

Solved(l) ==
    /\ pc[l] = "join" /\ HelpersJoined(l)
    /\ DropSolve(l)
    /\ IF verdict[l] = "more"
       THEN Advance(l)
       ELSE Leave(l, verdict[l]) /\ UNCHANGED start
    /\ UNCHANGED <<sink, end, told, watcher, reporter, current, troubleVars>>
-----------------------------------------------------------------------------
(* report: the reporter thread.                                             *)

Reporter(l, r) == reporter' = [reporter EXCEPT ![l] = r]
Return(l, v)   == Reporter(l, "off") /\ verdict' = [verdict EXCEPT ![l] = v]

BuildRuntime(l) ==
    /\ reporter[l] = "build"
    /\ \/ Reporter(l, "loop") /\ UNCHANGED <<verdict, troubleVars>>
       \/ Fail /\ Return(l, "DeviceFault")
    /\ UNCHANGED <<sink, queueVars, pc, result, chunkVars, pending, told,
                   streamVars, cancel, watcher, current, stopped, failure>>

(* The top of the loop; a receive that times out comes back to it.           *)
Notice(l) ==
    /\ reporter[l] = "loop"
    /\ stopped' = [stopped EXCEPT ![l] = @ \/ IsStopped(l)]
    /\ cancel' = [cancel EXCEPT ![l] = @ \/ stopped'[l] \/ failure[l] # "none"]
    /\ Reporter(l, "receive")
    /\ UNCHANGED <<sink, queueVars, pc, result, chunkVars, pending, told,
                   streamVars, watcher, current, failure, verdict, troubleVars>>

TimedOut(l) ==
    /\ reporter[l] = "receive" /\ out[l] = <<>> /\ pc[l] = "stream"
    /\ Reporter(l, "loop")
    /\ UNCHANGED <<sink, queueVars, pc, result, chunkVars, pending, told,
                   streamVars, cancel, watcher, current, stopped, failure,
                   verdict, troubleVars>>

(* Any error but Capacity becomes a DeviceFault; the first one counts.       *)
FailureOf(o) == IF o = "Capacity" THEN "Capacity" ELSE "DeviceFault"

(* take_decision forgets the salt: a result it does not know is a fault.     *)
Take(l, s, o) ==
    LET known == s \in pending[l]
        error == IF ~known THEN "DeviceFault" ELSE FailureOf(o)
    IN  /\ pending' = [pending EXCEPT ![l] = @ \ {s}]
        /\ CASE known /\ o \in {"reads", "noreads"} ->
                  /\ current' = [current EXCEPT ![l] = s]
                  /\ Reporter(l, IF o = "reads" THEN "check" ELSE "empty")
                  /\ UNCHANGED <<failure, cancel>>
             [] known /\ o = "cancelled" ->
                  Reporter(l, "loop") /\ UNCHANGED <<current, failure, cancel>>
             [] OTHER ->
                  /\ failure' = [failure EXCEPT ![l] = error]
                  /\ cancel' = [cancel EXCEPT ![l] = TRUE]
                  /\ Reporter(l, "loop")
                  /\ UNCHANGED current
        /\ stopped' = [stopped EXCEPT ![l] = @ \/ (known /\ o = "cancelled")]

Receive(l) ==
    /\ reporter[l] = "receive" /\ out[l] # <<>>
    /\ out' = [out EXCEPT ![l] = Tail(@)]
    /\ LET r == Head(out[l])
       IN  IF stopped[l] \/ IsStopped(l) \/ failure[l] # "none"
           THEN /\ stopped' = [stopped EXCEPT ![l] = @ \/ IsStopped(l)]
                /\ Reporter(l, "loop")
                /\ UNCHANGED <<pending, cancel, current, failure>>
           ELSE Take(l, r.salt, r.outcome)
    /\ UNCHANGED <<sink, queueVars, pc, result, chunkVars, told, batch, jobs,
                   watcher, verdict, troubleVars>>

(* The second look at the stop, right before the push.                       *)
CheckStopped(l) ==
    /\ reporter[l] \in {"check", "empty"} /\ IsStopped(l)
    /\ stopped' = [stopped EXCEPT ![l] = TRUE]
    /\ current' = [current EXCEPT ![l] = NoSalt]
    /\ Reporter(l, "loop")
    /\ UNCHANGED <<sink, queueVars, pc, result, chunkVars, pending, told,
                   streamVars, cancel, watcher, failure, verdict, troubleVars>>

NoReads(l) ==
    /\ reporter[l] = "empty" /\ ~IsStopped(l)
    /\ failure' = [failure EXCEPT ![l] = "DeviceFault"]
    /\ cancel' = [cancel EXCEPT ![l] = TRUE]
    /\ current' = [current EXCEPT ![l] = NoSalt]
    /\ Reporter(l, "loop")
    /\ UNCHANGED <<sink, queueVars, pc, result, chunkVars, pending, told,
                   streamVars, watcher, stopped, verdict, troubleVars>>

ReadyToPush(l) ==
    /\ reporter[l] = "check" /\ ~IsStopped(l)
    /\ Reporter(l, "push")
    /\ UNCHANGED <<sink, queueVars, pc, result, chunkVars, pending, told,
                   streamVars, cancel, watcher, current, stopped, failure,
                   verdict, troubleVars>>

Push(l) ==
    /\ reporter[l] = "push"
    /\ \/ /\ sink[l] # "gone"
          /\ Tell(l, current[l], "pushed")
          /\ UNCHANGED <<stopped, cancel>>
       \/ /\ sink[l] # "open"
          /\ stopped' = [stopped EXCEPT ![l] = TRUE]
          /\ cancel' = [cancel EXCEPT ![l] = TRUE]
          /\ UNCHANGED told
    /\ current' = [current EXCEPT ![l] = NoSalt]
    /\ Reporter(l, "loop")
    /\ UNCHANGED <<sink, queueVars, pc, result, chunkVars, pending, streamVars,
                   watcher, failure, verdict, troubleVars>>

\* Mutant: salts left over are a fault, whether the lease was stopped or not.
VerdictIgnoresStop(l) ==
    CASE failure[l] # "none" -> failure[l]
      [] failure[l] = "none" /\ pending[l] # {} -> "DeviceFault"
      [] OTHER -> IF stopped[l] THEN "Ok" ELSE "more"

(* The result channel is closed and empty.                                  *)
Verdict(l) ==
    CASE failure[l] # "none" -> failure[l]
      [] failure[l] = "none" /\ pending[l] # {} /\ ~stopped[l] /\ ~IsStopped(l) ->
           "DeviceFault"
      [] failure[l] = "none" /\ stopped[l] -> "Ok"
      [] OTHER -> "more"

Conclude(l) ==
    /\ reporter[l] = "receive" /\ out[l] = <<>> /\ pc[l] = "join"
    /\ Return(l, Verdict(l))
    /\ UNCHANGED <<sink, queueVars, pc, result, chunkVars, pending, told,
                   streamVars, cancel, watcher, current, stopped, failure,
                   troubleVars>>
-----------------------------------------------------------------------------
WorkStep(l) ==
    \/ TooLarge(l) \/ Join(l) \/ TakeTurn(l) \/ GiveUpTurn(l) \/ OpenScreen(l)
    \/ NextChunk(l) \/ LeaseOver(l) \/ Probe(l)
    \/ Decide(l) \/ ScreenRefused(l) \/ DecideStopped(l) \/ Decided(l)
    \/ NothingToSolve(l) \/ DrawFails(l) \/ SolveStopped(l) \/ RunFullBatch(l)
    \/ StreamReturns(l) \/ Solved(l)

ReportStep(l) ==
    \/ BuildRuntime(l) \/ Notice(l) \/ TimedOut(l) \/ Receive(l)
    \/ CheckStopped(l) \/ NoReads(l) \/ ReadyToPush(l) \/ Conclude(l)

Next ==
    \E l \in Lease :
        \/ SinkStops(l) \/ SinkGoes(l)
        \/ WorkStep(l) \/ ReportStep(l) \/ Push(l) \/ Watch(l)
        \/ \E s \in Salt, o \in Outcome : Respond(l, s, o)

Spec == Init /\ [][Next]_vars

(* The lease, reporter and watcher threads run; a probe launch ends; a       *)
(* cancelled stream winds up.  Nothing says that a solve nobody cancels      *)
(* ends soon, nor that push returns.                                        *)
Fairness ==
    \A l \in Lease :
        /\ WF_vars(WorkStep(l)) /\ WF_vars(ReportStep(l)) /\ WF_vars(Watch(l))
        /\ WF_vars(\E s \in Salt : Respond(l, s, "cancelled"))

FairSpec == Spec /\ Fairness
-----------------------------------------------------------------------------
ToldKinds == {"nothing", "screened", "pushed", "twice"}

(* Every variable has its type.                                             *)
TypeOK ==
    /\ sink \in [Lease -> {"open", "stopped", "gone"}]
    /\ waiting \in Seq(Lease)
    /\ pc \in [Lease -> Pc] /\ result \in [Lease -> Result \cup {"none"}]
    /\ screened \in [Lease -> BOOLEAN]
    /\ start \in [Lease -> 0..MaxSalts] /\ end \in [Lease -> 0..MaxSalts]
    /\ at \in [Lease -> 0..MaxSalts] /\ upto \in [Lease -> 0..MaxSalts]
    /\ pending \in [Lease -> SUBSET Salt] /\ told \in [Lease -> [Salt -> ToldKinds]]
    /\ batch \in [Lease -> SUBSET Salt] /\ jobs \in [Lease -> SUBSET Salt]
    /\ out \in [Lease -> Seq([salt : Salt, outcome : Outcome])]
    /\ cancel \in [Lease -> BOOLEAN] /\ stopped \in [Lease -> BOOLEAN]
    /\ watcher \in [Lease -> {"off", "watch"}]
    /\ reporter \in [Lease -> {"off", "build", "loop", "receive", "check", "empty",
                               "push"}]
    /\ current \in [Lease -> Salt0]
    /\ failure \in [Lease -> Result \cup {"none"}]
    /\ verdict \in [Lease -> Result \cup {"none", "more"}]
    /\ faults \in 0..MaxFaults /\ busies \in 0..MaxFaults

(* One lease at a time uses the device: whoever works, or has a stream, a    *)
(* reporter or a watcher left, is first in the queue, and whoever is in the  *)
(* queue is waiting or working.  (Turn is released when sample returns,     *)
(* after the scope of run_full_batch has joined both threads.)              *)
Busy(l) ==
    \/ pc[l] \in Working
    \/ watcher[l] = "watch"
    \/ reporter[l] # "off"

HoldsTurn ==
    /\ \A l \in Lease : Busy(l) => waiting # <<>> /\ Head(waiting) = l
    /\ \A i \in DOMAIN waiting : pc[waiting[i]] \in Working \cup {"wait"}

(* No salt is accounted for twice: not screened and then pushed, not pushed   *)
(* by two chunks (admit, take_decision, start = end).                       *)
AccountedOnce == \A l \in Lease, s \in Salt : told[l][s] # "twice"

(* As long as the sink takes everything, the salts before the chunk are      *)
(* accounted for, those after it are not, and Ok means all of them are: no   *)
(* salt is lost between the probe, the decisions, the stream and the        *)
(* reporter.                                                                *)
ChunksComplete ==
    \A l \in Lease : sink[l] = "open" =>
        \A s \in 0..(Salts[l] - 1) :
            /\ s < start[l] \/ result[l] = "Ok" => told[l][s] # "nothing"
            /\ s >= end[l] => told[l][s] = "nothing"

(* A stop, or a sink that goes away, is never reported as a device fault,    *)
(* whichever thread notices it first ("full solve closed before every salt   *)
(* returned" in report is the tempting mistake).                            *)
FaultOnlyOnFailure ==
    \A l \in Lease : result[l] = "DeviceFault" => faults + busies > 0

(* What sample returns is true of its salts and of the device.               *)
VerdictSound == TypeOK /\ ChunksComplete /\ FaultOnlyOnFailure

(* The stream never waits for the reporter, who may be blocked in the core:  *)
(* while a job is unanswered, its answer fits the result channel ("One       *)
(* result per job fits even while the reporter is blocked in core").        *)
ResultFits ==
    \A l \in Lease : jobs[l] # {} => Len(out[l]) < OutCapacity(l)

(* A stopped lease gives the device back although a push may block forever   *)
(* and its solves need not end (lease.rs:455-457; the test                  *)
(* blocked_push_does_not_prevent_device_session_retirement).                *)
DeviceRetires ==
    \A l \in Lease : (IsStopped(l) /\ pc[l] = "stream") ~> pc[l] # "stream"

(* If pushes return, a lease does not wait behind stopped ones for ever      *)
(* (lease_turn.rs: every exit path lets the next lease run).                *)
PushesReturn == \A l \in Lease : []<>(reporter[l] # "push")

TurnComes ==
    PushesReturn =>
        \A l \in Lease :
            (pc[l] = "wait" /\ \A m \in Lease \ {l} : IsStopped(m)) ~> pc[l] # "wait"

=============================================================================
