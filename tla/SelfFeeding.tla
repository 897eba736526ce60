----------------------------- MODULE SelfFeeding -----------------------------
(***************************************************************************)
(* One self-feeding session: the host thread that keeps the slots of a     *)
(* persistent kernel filled (src/src/streaming.rs: SelfFeedingSession,     *)
(* SlotState and the slot operations of run_session and pump_session), its *)
(* transfer stream, and the kernel blocks (src/kernels/sa.cu, msa.cu,      *)
(* gibbs.cu) that claim, anneal and publish the slots.                     *)
(*                                                                         *)
(* Host and blocks share nothing but the control words and the slot        *)
(* buffers.  The host writes them through `stream_transfer`, a FIFO that   *)
(* runs behind the host's back; the blocks write them directly.  There is  *)
(* no event, no lock and no ordering between the two streams.              *)
(*                                                                         *)
(* Abstracted here and modelled in StreamDriver: where a job comes from    *)
(* and why the pump stops feeding or aborts.  Time (idle teardown, stall   *)
(* watchdog) is a choice the host may take at the point it looks at the    *)
(* clock.  A nonce of the Gibbs kernel is its four blocks taken together.  *)
(***************************************************************************)
EXTENDS Integers, Sequences

CONSTANTS
    Width,      \* nonces launched (active_nonces)
    Job,        \* the jobs this session may be handed
    None,       \* an empty Option
    Kernel,     \* which kernel runs: "sa", "msa" or "gibbs"
    MaxFaults   \* bound: CUDA calls that fail in one behaviour

Nonce == 1..Width
Slot  == 0..2               \* SLOTS_PER_NONCE = 3
Held  == [slot : Slot, job : Job]       \* ActiveSlot, and what NEXT holds

\* What a sample buffer, and a result, can hold besides a job's own samples.
Zeroed     == "zeroed"      \* upload_slot cleared the buffer
Torn       == "torn"        \* samples of no single complete model
Unanswered == "unanswered"  \* no StreamResult yet
Rejected   == "rejected"    \* a StreamResult without samples

ASSUME Assumption ==
    /\ Width \in Nat \ {0}
    /\ None \notin Job \cup Held
    /\ Job \cap {Zeroed, Torn, Unanswered, Rejected} = {}
    /\ Kernel \in {"sa", "msa", "gibbs"}
    /\ MaxFaults \in Nat

VARIABLES
    phase,      \* where the host thread is
    at,         \* the nonce its current loop has reached
    feeding,    \* ~exhausted: it still pulls jobs
    launched,   \* SelfFeedingSession.launched
    active,     \* SlotState.active of each nonce
    next,       \* SlotState.next of each nonce
    snap,       \* the ctrl snapshot scan_completions works on
    unseen,     \* jobs not pulled yet
    out,        \* what each job was answered with
    faults,     \* CUDA calls failed so far
    xfer,       \* stream_transfer: copies enqueued and not executed
    ctrl,       \* slot status words
    exitNow,    \* CTRL_EXIT_NOW of each nonce
    coef,       \* the job whose h/J the slot's coefficient buffers hold
    samp,       \* what the slot's sample buffer holds
    bpc,        \* where each nonce's block is
    bslot,      \* the slot it probes, or has claimed
    bsrc        \* the coefficients it started its model from

hostVars   == <<phase, at, feeding, launched, active, next, snap, unseen, out, faults>>
deviceVars == <<ctrl, exitNow, coef, samp>>
blockVars  == <<bpc, bslot, bsrc>>
vars       == <<hostVars, xfer, deviceVars, blockVars>>

EMPTY    == "EMPTY"
READY    == "READY"
ACTIVE   == "ACTIVE"
COMPLETE == "COMPLETE"
Status   == {EMPTY, READY, ACTIVE, COMPLETE}

Phase == {"cold", "top", "refill", "watch", "scan",         \* feeding, polling, delivering
          "abort", "abortDrain", "abortJoin",               \* abort_now
          "drop", "drain", "join", "context", "freed", "dead"}    \* Drop
BlockPc == {"off", "entry", "entryEnd", "anneal", "publish", "complete", "probe", "probeEnd", "gone"}

Op      == [op : {"payload", "ready", "exit"}, nonce : Nonce, slot : Slot, job : Job \cup {None}]

\* What a COMPLETE slot of job j reads back as, and what j may be answered with.
Answer  == Job \cup {Zeroed, Torn, Unanswered, Rejected}

TypeOK ==
    /\ phase \in Phase
    /\ at \in 1..(Width + 1)
    /\ feeding \in BOOLEAN
    /\ launched \in BOOLEAN
    /\ active \in [Nonce -> Held \cup {None}]
    /\ next \in [Nonce -> Held \cup {None}]
    /\ snap \in [Nonce -> [Slot -> Status]]
    /\ unseen \subseteq Job
    /\ out \in [Job -> Answer]
    /\ faults \in 0..MaxFaults
    /\ xfer \in Seq(Op)
    /\ ctrl \in [Nonce -> [Slot -> Status]]
    /\ exitNow \in [Nonce -> BOOLEAN]
    /\ coef \in [Nonce -> [Slot -> Job \cup {None}]]
    /\ samp \in [Nonce -> [Slot -> Job \cup {Zeroed, Torn}]]
    /\ bpc \in [Nonce -> BlockPc]
    /\ bslot \in [Nonce -> Slot]
    /\ bsrc \in [Nonce -> Job \cup {None}]

-----------------------------------------------------------------------------
(***************************************************************************)
(* SlotState                                                               *)
(***************************************************************************)
InUse(n, s) == \/ active[n] # None /\ active[n].slot = s
               \/ next[n] # None /\ next[n].slot = s

\* s is the slot open_slot returns for nonce n: room for a job, and the
\* lowest index neither ACTIVE nor NEXT occupies.
IsOpenSlot(n, s) ==
    /\ active[n] = None \/ next[n] = None
    /\ ~InUse(n, s)
    /\ \A t \in Slot : t < s => InUse(n, t)

IsVacant(n) == active[n] = None /\ next[n] = None
AllVacant   == \A n \in Nonce : IsVacant(n)

\* Bug: the newcomer jumps the queue.
AdmitInFront(n, s, j) ==
    /\ active' = [active EXCEPT ![n] = [slot |-> s, job |-> j]]
    /\ next' = [next EXCEPT ![n] = active[n]]

Admit(n, s, j) ==
    IF active[n] = None
    THEN /\ active' = [active EXCEPT ![n] = [slot |-> s, job |-> j]]
         /\ UNCHANGED next
    ELSE /\ next' = [next EXCEPT ![n] = [slot |-> s, job |-> j]]
         /\ UNCHANGED active

RotateOnCompletion(n) ==
    /\ active' = [active EXCEPT ![n] = next[n]]
    /\ next' = [next EXCEPT ![n] = None]

\* drain_jobs over every nonce, each job answered without samples.
HoldsJob(n, j) == \/ active[n] # None /\ active[n].job = j
                  \/ next[n] # None /\ next[n].job = j

ReleaseHeld ==
    /\ out' = [j \in Job |-> IF \E n \in Nonce : HoldsJob(n, j) THEN Rejected ELSE out[j]]
    /\ active' = [n \in Nonce |-> None]
    /\ next' = [n \in Nonce |-> None]

-----------------------------------------------------------------------------
(***************************************************************************)
(* stream_transfer                                                         *)
(***************************************************************************)
PayloadOp(n, s, j) == [op |-> "payload", nonce |-> n, slot |-> s, job |-> j]
ReadyOp(n, s)      == [op |-> "ready", nonce |-> n, slot |-> s, job |-> None]
ExitOp(n)          == [op |-> "exit", nonce |-> n, slot |-> 0, job |-> None]

\* Bug: READY is raised ahead of the coefficients.
UploadReadyFirst(n, s, j) == xfer' = Append(Append(xfer, ReadyOp(n, s)), PayloadOp(n, s, j))

\* upload_slot: h, J and the zeroed samples, and READY as the last copy.
UploadSlot(n, s, j) == xfer' = Append(Append(xfer, PayloadOp(n, s, j)), ReadyOp(n, s))

\* upload_slot returning Err: it stopped before READY, with or without the
\* copies that precede it already enqueued.
Fault == /\ faults < MaxFaults
         /\ faults' = faults + 1

\* Bug: an upload reported as failed has raised READY.
UploadFailsAfterReady(n, s, j) == Fault /\ UploadSlot(n, s, j)

UploadSlotFails(n, s, j) ==
    /\ Fault
    /\ UNCHANGED xfer \/ xfer' = Append(xfer, PayloadOp(n, s, j))

\* The device executes the oldest copy of the stream.
XferPayload(o) ==
    /\ o.op = "payload"
    /\ coef' = [coef EXCEPT ![o.nonce][o.slot] = o.job]
    /\ samp' = [samp EXCEPT ![o.nonce][o.slot] = Zeroed]
    /\ UNCHANGED <<ctrl, exitNow>>

XferReady(o) ==
    /\ o.op = "ready"
    /\ ctrl' = [ctrl EXCEPT ![o.nonce][o.slot] = READY]
    /\ UNCHANGED <<exitNow, coef, samp>>

XferExit(o) ==
    /\ o.op = "exit"
    /\ exitNow' = [exitNow EXCEPT ![o.nonce] = TRUE]
    /\ UNCHANGED <<ctrl, coef, samp>>

Xfer ==
    /\ xfer # <<>>
    /\ xfer' = Tail(xfer)
    /\ \/ XferPayload(Head(xfer))
       \/ XferReady(Head(xfer))
       \/ XferExit(Head(xfer))
    /\ UNCHANGED <<hostVars, blockVars>>

-----------------------------------------------------------------------------
(***************************************************************************)
(* run_session: cold-start uploads and the launch                          *)
(***************************************************************************)
ColdUpload(j) ==
    /\ phase = "cold" /\ at \in Nonce /\ j \in unseen
    /\ UploadSlot(at, 0, j)
    /\ active' = [active EXCEPT ![at] = [slot |-> 0, job |-> j]]
    /\ unseen' = unseen \ {j}
    /\ at' = at + 1
    /\ UNCHANGED <<phase, feeding, launched, next, snap, out, faults, deviceVars, blockVars>>

\* The nonce stays vacant, but it is launched like the others.
ColdUploadFails(j) ==
    /\ phase = "cold" /\ at \in Nonce /\ j \in unseen
    /\ UploadSlotFails(at, 0, j)
    /\ unseen' = unseen \ {j}
    /\ out' = [out EXCEPT ![j] = Rejected]
    /\ at' = at + 1
    /\ UNCHANGED <<phase, feeding, launched, active, next, snap, deviceVars, blockVars>>

\* launch drains stream_transfer before the kernel can start.
Launch ==
    /\ phase = "cold" /\ at = Width + 1
    /\ xfer = <<>>
    /\ phase' = "top"
    /\ launched' = TRUE
    /\ bpc' = [n \in Nonce |-> "entry"]
    /\ UNCHANGED <<at, feeding, active, next, snap, unseen, out, faults, xfer, deviceVars, bslot, bsrc>>

LaunchFails ==
    /\ phase = "cold" /\ at = Width + 1
    /\ Fault
    /\ ReleaseHeld
    /\ phase' = "drop" /\ at' = 1
    /\ UNCHANGED <<feeding, launched, snap, unseen, xfer, deviceVars, blockVars>>

-----------------------------------------------------------------------------
(***************************************************************************)
(* pump_session                                                            *)
(***************************************************************************)
MayStopFeeding == feeding' \in BOOLEAN /\ (feeding' => feeding)

\* Loop top: the governor may end the feeding; then refill, unless exhausted.
BeginPass ==
    /\ phase = "top"
    /\ MayStopFeeding
    /\ phase' = IF feeding' THEN "refill" ELSE "watch"
    /\ at' = 1
    /\ UNCHANGED <<launched, active, next, snap, unseen, out, faults, xfer, deviceVars, blockVars>>

\* abort_due: only while some model is ACTIVE.
BeginAbort ==
    /\ phase = "top"
    /\ \E n \in Nonce : active[n] # None
    /\ MayStopFeeding
    /\ phase' = "abort" /\ at' = 1
    /\ UNCHANGED <<launched, active, next, snap, unseen, out, faults, xfer, deviceVars, blockVars>>

RefillUpload(j) ==
    /\ phase = "refill" /\ at \in Nonce /\ j \in unseen
    /\ \E s \in Slot :
        /\ IsOpenSlot(at, s)
        /\ UploadSlot(at, s, j)
        /\ Admit(at, s, j)
    /\ unseen' = unseen \ {j}
    /\ UNCHANGED <<phase, at, feeding, launched, snap, out, faults, deviceVars, blockVars>>

RefillUploadFails(j) ==
    /\ phase = "refill" /\ at \in Nonce /\ j \in unseen
    /\ \E s \in Slot : IsOpenSlot(at, s) /\ UploadSlotFails(at, s, j)
    /\ unseen' = unseen \ {j}
    /\ out' = [out EXCEPT ![j] = Rejected]
    /\ UNCHANGED <<phase, at, feeding, launched, active, next, snap, deviceVars, blockVars>>

\* No open slot, or the channel is empty for now: on to the next nonce.
RefillNext ==
    /\ phase = "refill" /\ at \in Nonce
    /\ at' = at + 1
    /\ phase' = IF at = Width THEN "watch" ELSE "refill"
    /\ UNCHANGED <<feeding, launched, active, next, snap, unseen, out, faults, xfer, deviceVars, blockVars>>

\* Mismatch or Closed ends the refill and the feeding.
RefillEnds ==
    /\ phase = "refill" /\ at \in Nonce
    /\ \E s \in Slot : IsOpenSlot(at, s)
    /\ feeding' = FALSE
    /\ phase' = "watch"
    /\ UNCHANGED <<at, launched, active, next, snap, unseen, out, faults, xfer, deviceVars, blockVars>>

\* Exhausted and empty, or empty for IDLE_TEARDOWN.
EndSession ==
    /\ phase = "watch"
    /\ AllVacant
    /\ phase' = "drop" /\ at' = 1
    /\ UNCHANGED <<feeding, launched, active, next, snap, unseen, out, faults, xfer, deviceVars, blockVars>>

\* The stall watchdog: nothing completed for stall_cutoff.
Stall ==
    /\ phase = "watch"
    /\ ~AllVacant
    /\ ReleaseHeld
    /\ phase' = "drop" /\ at' = 1
    /\ UNCHANGED <<feeding, launched, snap, unseen, faults, xfer, deviceVars, blockVars>>

\* poll_ctrl is a copy on stream_transfer too: it returns what every earlier
\* copy, and the blocks so far, left in the control words.
PollCtrl ==
    /\ phase = "watch"
    /\ feeding \/ ~AllVacant
    /\ xfer = <<>>
    /\ snap' = ctrl
    /\ phase' = "scan" /\ at' = 1
    /\ UNCHANGED <<feeding, launched, active, next, unseen, out, faults, xfer, deviceVars, blockVars>>

PollCtrlFails ==
    /\ phase = "watch"
    /\ feeding \/ ~AllVacant
    /\ Fault
    /\ ReleaseHeld
    /\ phase' = "drop" /\ at' = 1
    /\ UNCHANGED <<feeding, launched, snap, unseen, xfer, deviceVars, blockVars>>

ScanNext ==
    /\ at' = at + 1
    /\ phase' = IF at = Width THEN "top" ELSE "scan"

SeenComplete(n) == active[n] # None /\ snap[n][active[n].slot] = COMPLETE

ScanIdle ==
    /\ phase = "scan" /\ at \in Nonce
    /\ ~SeenComplete(at)
    /\ ScanNext
    /\ UNCHANGED <<feeding, launched, active, next, snap, unseen, out, faults, xfer, deviceVars, blockVars>>

\* download_slot, rotate_on_completion, emit_completion.  The send may find
\* the result channel closed, which ends the feeding.
ScanDeliver ==
    /\ phase = "scan" /\ at \in Nonce
    /\ SeenComplete(at)
    /\ xfer = <<>>
    /\ out' = [out EXCEPT ![active[at].job] = samp[at][active[at].slot]]
    /\ RotateOnCompletion(at)
    /\ MayStopFeeding
    /\ ScanNext
    /\ UNCHANGED <<launched, snap, unseen, faults, xfer, deviceVars, blockVars>>

ScanDownloadFails ==
    /\ phase = "scan" /\ at \in Nonce
    /\ SeenComplete(at)
    /\ Fault
    /\ out' = [out EXCEPT ![active[at].job] = Rejected]
    /\ RotateOnCompletion(at)
    /\ ScanNext
    /\ UNCHANGED <<feeding, launched, snap, unseen, xfer, deviceVars, blockVars>>

-----------------------------------------------------------------------------
(***************************************************************************)
(* abort_now and Drop                                                      *)
(***************************************************************************)
\* signal_exit, one nonce: EXIT_ABORT is enqueued on stream_transfer.
SignalExit ==
    /\ phase \in {"abort", "drop"} /\ launched
    /\ at \in Nonce
    /\ xfer' = Append(xfer, ExitOp(at))
    /\ at' = at + 1
    /\ UNCHANGED <<phase, feeding, launched, active, next, snap, unseen, out, faults, deviceVars, blockVars>>

\* abort_now: every nonce is signalled, then wait_exit.
AbortSignalled ==
    /\ phase = "abort" /\ at = Width + 1
    /\ phase' = "abortDrain"
    /\ UNCHANGED <<at, feeding, launched, active, next, snap, unseen, out, faults, xfer, deviceVars, blockVars>>

\* Drop: signal_exit has run to its end, or was skipped (not launched).
DropSignalled ==
    /\ phase = "drop"
    /\ at = Width + 1 \/ ~launched
    /\ phase' = "drain"
    /\ UNCHANGED <<at, feeding, launched, active, next, snap, unseen, out, faults, xfer, deviceVars, blockVars>>

\* signal_exit failed half way; its error is dropped and wait_exit follows.
DropSignalFails ==
    /\ phase = "drop" /\ launched /\ at \in Nonce
    /\ Fault
    /\ phase' = "drain"
    /\ UNCHANGED <<at, feeding, launched, active, next, snap, unseen, out, xfer, deviceVars, blockVars>>

\* wait_exit: stream_transfer is drained first, stream_compute second.
BlocksOut == \A n \in Nonce : bpc[n] \in {"off", "gone"}

\* Bug: only the compute stream is drained.
DrainComputeOnly ==
    /\ \/ phase = "abortDrain" /\ phase' = "abortJoin"
       \/ phase = "drain" /\ phase' = "join"
    /\ UNCHANGED <<at, feeding, launched, active, next, snap, unseen, out, faults, xfer, deviceVars, blockVars>>

DrainTransfer ==
    /\ \/ phase = "abortDrain" /\ phase' = "abortJoin"
       \/ phase = "drain" /\ phase' = "join"
    /\ xfer = <<>>
    /\ UNCHANGED <<at, feeding, launched, active, next, snap, unseen, out, faults, xfer, deviceVars, blockVars>>

\* abort_now returned: refund what is held, leave the loop.
AbortDone ==
    /\ phase = "abortJoin"
    /\ BlocksOut
    /\ ReleaseHeld
    /\ launched' = FALSE
    /\ phase' = "drop" /\ at' = 1
    /\ UNCHANGED <<feeding, snap, unseen, faults, xfer, deviceVars, blockVars>>

\* signal_exit stopped half way, or a synchronize failed.
AbortFails ==
    /\ phase \in {"abort", "abortDrain", "abortJoin"}
    /\ Fault
    /\ ReleaseHeld
    /\ phase' = "drop" /\ at' = 1
    /\ UNCHANGED <<feeding, launched, snap, unseen, xfer, deviceVars, blockVars>>

\* Drop returned: the buffers are freed, after wait_exit or after the
\* whole-context synchronize that follows a failed one.
Free ==
    /\ phase \in {"join", "context"}
    /\ BlocksOut
    /\ phase = "context" => xfer = <<>>
    /\ phase' = "freed"
    /\ launched' = FALSE
    /\ UNCHANGED <<at, feeding, active, next, snap, unseen, out, faults, xfer, deviceVars, blockVars>>

\* A failed synchronize escalates; when the last resort fails too, the
\* process aborts rather than free buffers that may be in use.
Escalate ==
    /\ \/ phase \in {"drain", "join"} /\ phase' = "context"
       \/ phase = "context" /\ phase' = "dead"
    /\ Fault
    /\ UNCHANGED <<at, feeding, launched, active, next, snap, unseen, out, xfer, deviceVars, blockVars>>

\* What the host thread does when its CUDA calls succeed, and when one fails.
Step ==
    \/ \E j \in Job : ColdUpload(j) \/ RefillUpload(j)
    \/ Launch \/ BeginPass \/ BeginAbort \/ RefillNext \/ RefillEnds
    \/ EndSession \/ Stall \/ PollCtrl \/ ScanIdle \/ ScanDeliver
    \/ SignalExit \/ AbortSignalled \/ DropSignalled \/ DrainTransfer
    \/ AbortDone \/ Free

Failure ==
    \/ \E j \in Job : ColdUploadFails(j) \/ RefillUploadFails(j)
    \/ LaunchFails \/ PollCtrlFails \/ ScanDownloadFails
    \/ AbortFails \/ DropSignalFails \/ Escalate

-----------------------------------------------------------------------------
(***************************************************************************)
(* The kernel block of one nonce                                           *)
(***************************************************************************)
\* One atomicCAS of the READY scan, found READY.
Claim(n) ==
    /\ bpc[n] \in {"entry", "probe"}
    /\ ctrl[n][bslot[n]] = READY
    /\ ctrl' = [ctrl EXCEPT ![n][bslot[n]] = ACTIVE]
    /\ bsrc' = [bsrc EXCEPT ![n] = coef[n][bslot[n]]]
    /\ bpc' = [bpc EXCEPT ![n] = "anneal"]
    /\ UNCHANGED <<hostVars, xfer, exitNow, coef, samp, bslot>>

\* Bug: the scan of the slots runs one past the last.
ProbeMissPastEnd(n) ==
    /\ bpc[n] \in {"entry", "probe"}
    /\ ctrl[n][bslot[n]] # READY
    /\ bslot' = [bslot EXCEPT ![n] = @ + 1]
    /\ UNCHANGED <<hostVars, xfer, deviceVars, bpc, bsrc>>

\* One atomicCAS of the READY scan, found anything else.
ProbeMiss(n) ==
    /\ bpc[n] \in {"entry", "probe"}
    /\ ctrl[n][bslot[n]] # READY
    /\ IF bslot[n] < 2
       THEN /\ bslot' = [bslot EXCEPT ![n] = @ + 1]
            /\ UNCHANGED bpc
       ELSE /\ bpc' = [bpc EXCEPT ![n] = IF @ = "entry" THEN "entryEnd" ELSE "probeEnd"]
            /\ UNCHANGED bslot
    /\ UNCHANGED <<hostVars, xfer, deviceVars, bsrc>>

\* Bug: a fruitless scan between models ends the block (before QUI-828).
PassEndRetires(n) ==
    /\ bpc[n] \in {"entryEnd", "probeEnd"}
    /\ bpc' = [bpc EXCEPT ![n] = IF @ = "entryEnd" THEN "entry" ELSE "gone"]
    /\ bslot' = [bslot EXCEPT ![n] = 0]
    /\ UNCHANGED <<hostVars, xfer, deviceVars, bsrc>>

\* Bug: the slot wait does not look at EXIT_NOW.
PassEndDeaf(n) ==
    /\ bpc[n] \in {"entryEnd", "probeEnd"}
    /\ bpc' = [bpc EXCEPT ![n] = IF @ = "entryEnd" THEN "entry" ELSE "probe"]
    /\ bslot' = [bslot EXCEPT ![n] = 0]
    /\ UNCHANGED <<hostVars, xfer, deviceVars, bsrc>>

\* After a fruitless scan: leave on EXIT_NOW, else scan again.  The Gibbs
\* kernel's model loop does not scan again: the nonce retires.
PassEnd(n) ==
    /\ bpc[n] \in {"entryEnd", "probeEnd"}
    /\ IF exitNow[n] \/ (bpc[n] = "probeEnd" /\ Kernel = "gibbs")
       THEN /\ bpc' = [bpc EXCEPT ![n] = "gone"]
            /\ UNCHANGED bslot
       ELSE /\ bpc' = [bpc EXCEPT ![n] = IF @ = "entryEnd" THEN "entry" ELSE "probe"]
            /\ bslot' = [bslot EXCEPT ![n] = 0]
    /\ UNCHANGED <<hostVars, xfer, deviceVars, bsrc>>

\* The sweeps ran to their end and every read is packed and fenced.  The
\* samples are the job's only if its coefficients stayed put meanwhile.
Finish(n) ==
    /\ bpc[n] = "anneal"
    /\ samp' = [samp EXCEPT ![n][bslot[n]] =
                    IF bsrc[n] = coef[n][bslot[n]] /\ bsrc[n] \in Job THEN bsrc[n] ELSE Torn]
    /\ bpc' = [bpc EXCEPT ![n] = "publish"]
    /\ UNCHANGED <<hostVars, xfer, ctrl, exitNow, coef, bslot, bsrc>>

\* SA and msa peek EXIT_ABORT in the sweep loop and leave without publishing;
\* reads that had already finished may have been written.
AbortModel(n) ==
    /\ Kernel # "gibbs"
    /\ bpc[n] = "anneal"
    /\ exitNow[n]
    /\ UNCHANGED samp \/ samp' = [samp EXCEPT ![n][bslot[n]] = Torn]
    /\ bpc' = [bpc EXCEPT ![n] = "gone"]
    /\ UNCHANGED <<hostVars, xfer, ctrl, exitNow, coef, bslot, bsrc>>

Publish(n) ==
    /\ bpc[n] = "publish"
    /\ ctrl' = [ctrl EXCEPT ![n][bslot[n]] = COMPLETE]
    /\ bpc' = [bpc EXCEPT ![n] = "complete"]
    /\ UNCHANGED <<hostVars, xfer, exitNow, coef, samp, bslot, bsrc>>

\* Bug: EXIT_AFTER_MODEL, left armed by the isolated path.
AfterPublishLeaves(n) ==
    /\ bpc[n] = "complete"
    /\ bpc' = [bpc EXCEPT ![n] = "gone"]
    /\ UNCHANGED <<hostVars, xfer, deviceVars, bslot, bsrc>>

AfterPublish(n) ==
    /\ bpc[n] = "complete"
    /\ IF exitNow[n]
       THEN /\ bpc' = [bpc EXCEPT ![n] = "gone"]
            /\ UNCHANGED bslot
       ELSE /\ bpc' = [bpc EXCEPT ![n] = "probe"]
            /\ bslot' = [bslot EXCEPT ![n] = 0]
    /\ UNCHANGED <<hostVars, xfer, deviceVars, bsrc>>

Block(n) == \/ Claim(n) \/ ProbeMiss(n) \/ PassEnd(n)
            \/ Finish(n) \/ AbortModel(n) \/ Publish(n) \/ AfterPublish(n)

-----------------------------------------------------------------------------
Init ==
    /\ phase = "cold" /\ at = 1
    /\ feeding \in BOOLEAN          \* drain_cold_start may have hit the end
    /\ launched = FALSE
    /\ active = [n \in Nonce |-> None]
    /\ next = [n \in Nonce |-> None]
    /\ snap = [n \in Nonce |-> [s \in Slot |-> EMPTY]]
    /\ unseen = Job
    /\ out = [j \in Job |-> Unanswered]
    /\ faults = 0
    /\ xfer = <<>>
    /\ ctrl = [n \in Nonce |-> [s \in Slot |-> EMPTY]]
    /\ exitNow = [n \in Nonce |-> FALSE]
    /\ coef = [n \in Nonce |-> [s \in Slot |-> None]]
    /\ samp = [n \in Nonce |-> [s \in Slot |-> Zeroed]]
    /\ bpc = [n \in Nonce |-> "off"]
    /\ bslot = [n \in Nonce |-> 0]
    /\ bsrc = [n \in Nonce |-> None]

\* Nothing is left to do for a session that is over.
Over == phase \in {"freed", "dead"} /\ UNCHANGED vars

Next == Step \/ Failure \/ Xfer \/ (\E n \in Nonce : Block(n)) \/ Over

Spec == Init /\ [][Next]_vars

\* The host thread runs, the copy engine drains its stream, and every block
\* is resident on an SM of its own.  No call has to fail.
Fairness == /\ WF_vars(Step)
            /\ WF_vars(Xfer)
            /\ \A n \in Nonce : WF_vars(Block(n))

FairSpec == Spec /\ Fairness

-----------------------------------------------------------------------------
(***************************************************************************)
(* The inductive invariant                                                 *)
(***************************************************************************)
\* The phases in which the host still feeds, polls and delivers.
Live == phase \in {"cold", "top", "refill", "watch", "scan"}

IsPayload(o, n, s) == o.op = "payload" /\ o.nonce = n /\ o.slot = s
IsReady(o, n, s)   == o.op = "ready" /\ o.nonce = n /\ o.slot = s

PayloadPending(q, n, s) == \E i \in 1..Len(q) : IsPayload(q[i], n, s)
ReadyPending(q, n, s)   == \E i \in 1..Len(q) : IsReady(q[i], n, s)

\* Once q has run, the slot whose buffers hold c's coefficients holds j's.
Settles(q, c, n, s, j) ==
    \/ c = j /\ ~PayloadPending(q, n, s)
    \/ \E i \in 1..Len(q) :
        /\ IsPayload(q[i], n, s) /\ q[i].job = j
        /\ \A k \in 1..Len(q) : k > i => ~IsPayload(q[k], n, s)

\* READY is the last copy of an upload, and no upload of a slot follows it.
Ordered(q) ==
    \A i, k \in 1..Len(q) : \A n \in Nonce, s \in Slot :
        i < k /\ IsReady(q[i], n, s) => ~IsPayload(q[k], n, s) /\ ~IsReady(q[k], n, s)

QueueOrder == Ordered(xfer)

NoCopyOverModel ==
    \A n \in Nonce, s \in Slot :
        PayloadPending(xfer, n, s) => ctrl[n][s] \in {EMPTY, COMPLETE}

IsHeld(n, s, j) == \/ active[n] # None /\ active[n].slot = s /\ active[n].job = j
                   \/ next[n] # None /\ next[n].slot = s /\ next[n].job = j

\* A slot the host counts on is on its way to READY, or there, or beyond.
Uploading(n, s, j) == /\ ReadyPending(xfer, n, s)
                      /\ ctrl[n][s] \in {EMPTY, COMPLETE}
Uploaded(n, s, j)  == /\ ~ReadyPending(xfer, n, s)
                      /\ ~PayloadPending(xfer, n, s)
                      /\ ctrl[n][s] \in {READY, ACTIVE, COMPLETE}
                      /\ ctrl[n][s] = COMPLETE => samp[n][s] = j

HeldSlots ==
    \A n \in Nonce, s \in Slot, j \in Job :
        IsHeld(n, s, j) => /\ Settles(xfer, coef[n][s], n, s, j)
                           /\ Uploading(n, s, j) \/ Uploaded(n, s, j)

FreeSlots ==
    \A n \in Nonce, s \in Slot :
        ~InUse(n, s) => /\ ~ReadyPending(xfer, n, s)
                        /\ ctrl[n][s] \in {EMPTY, COMPLETE}

RunningBlocks ==
    \A n \in Nonce :
        bpc[n] \in {"anneal", "publish"} =>
            /\ ctrl[n][bslot[n]] = ACTIVE
            /\ bsrc[n] \in Job /\ bsrc[n] = coef[n][bslot[n]]
            /\ bpc[n] = "publish" => samp[n][bslot[n]] = bsrc[n]

\* The scan works on an old snapshot; COMPLETE is still COMPLETE.
SnapshotHolds ==
    phase = "scan" =>
        /\ xfer = <<>>
        /\ \A n \in Nonce, s \in Slot :
              n >= at /\ snap[n][s] = COMPLETE => ctrl[n][s] = COMPLETE

ColdVacant == phase = "cold" => \A n \in Nonce : n >= at => IsVacant(n)

LiveInv == /\ HeldSlots
           /\ FreeSlots
           /\ RunningBlocks
           /\ SnapshotHolds
           /\ ColdVacant

\* Once the host gives the session up it no longer knows what is in a slot.
SlotInv == /\ QueueOrder
           /\ NoCopyOverModel
           /\ Live => LiveInv

-----------------------------------------------------------------------------
(***************************************************************************)
(* Properties                                                              *)
(***************************************************************************)
\* A job answered with samples is answered with its own, from one complete
\* model: never another job's, never half-annealed, never the cleared buffer.
\* (upload_slot's copy order, claim, publish order, free_slot, poll order.)
ResultFidelity == \A j \in Job : out[j] \in {j, Unanswered, Rejected}

\* The transfer stream never holds a coefficient copy for a slot a block may
\* be reading: one it was told is READY, or has claimed (free_slot).
NoCopyUnderBlock ==
    \A i \in DOMAIN xfer :
        xfer[i].op = "payload" => ctrl[xfer[i].nonce][xfer[i].slot] \in {EMPTY, COMPLETE}

\* Once the buffers are freed, nothing on the device can still touch them
\* (wait_exit drains both streams, one after the other; Drop escalates).
FreedIsQuiet == phase = "freed" => xfer = <<>> /\ BlocksOut

\* "Only an explicit host EXIT_NOW ends the block": a block that left was told
\* to.  Otherwise the host goes on admitting jobs nobody will run.
LeavesOnlyOnExit == \A n \in Nonce : bpc[n] = "gone" => exitNow[n]

\* While the host still counts on its nonces, a block works on a slot whose
\* job the host holds: it never anneals a model nobody will collect.
WorksForHost ==
    \A n \in Nonce :
        bpc[n] \in {"anneal", "publish"} /\ phase \in {"top", "refill", "watch", "scan"}
            => InUse(n, bslot[n])

\* The session implements a two-deep FIFO per nonce whose answers are faithful.
HeldJobs(n) == (IF active[n] = None THEN <<>> ELSE <<active[n].job>>)
               \o (IF next[n] = None THEN <<>> ELSE <<next[n].job>>)

Queue == INSTANCE SlotQueue WITH queue <- [n \in Nonce |-> HeldJobs(n)]

ImplementsSlotQueue == Queue!Spec

\* Every job a session takes is answered.
EveryJobAnswered == \A j \in Job : j \notin unseen ~> out[j] # Unanswered

\* A session that decided to abort, or to end, gives the device back, unless a
\* CUDA call failed: then it may wait for a block nobody told to leave.
Released == phase \in {"abort", "drop"} ~> phase = "freed" \/ faults > 0

=============================================================================
