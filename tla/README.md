# Verification of the CUDA sampler

This directory holds TLA+ specifications of the sampler in this repository,
the TLC configurations that check them on small instances, and TLAPS proofs of
the properties that matter most, for every size. The reference is the code:
`src/src/*.rs` (host) and `src/kernels/*.cu` (device).

Run a check with `tlc -config <cfg> <module>`, a proof with `tlapm <module>`;
the table under "Runs" says which belong together.

## 1. The system

A coordinator hands sampling jobs (Ising graphs) to the sampler through a
channel and is owed one `StreamResult` per job. The sampler keeps a
*persistent* kernel on the GPU: one kernel launch lives for a whole session,
its blocks claim job slots, anneal them, publish them and look for the next,
and the host feeds slots and collects results while it runs.

| component | state it keeps | operations | interacts with |
|---|---|---|---|
| stream driver (`run_stream`, `run_session`, `pump_session`) | seed, cold batch, `SlotState` per nonce, `Halt`, `exhausted` | receive, build, drain cold start, launch, refill, scan, abort, stall, tear down, yield, next seed | job and result channels, `CancelToken`, governor, session |
| self-feeding session (`SelfFeedingSession`) | device buffers, `launched`, two streams | upload_slot, download_slot, poll_ctrl, launch, signal_exit, abort_now, wait_exit, Drop | kernel blocks, through control words only |
| SA, MSA kernels | control words, `active_slot` of each block | claim, anneal (peeking EXIT_ABORT), publish, wait for the next slot | host, through control words |
| Gibbs kernel | the same, plus GENERATION, WORK_QUEUE, BLOCKS_DONE, ACTIVE_SLOT, two shared words per block | lead claim, work stealing, inter-block barrier, hand over, retire | host; its blocks with each other |
| lease sampling (`lease.rs`) | chunk position, pending decisions, cancel token | probe a chunk, decide, full solve with driver, watcher and reporter threads | stream driver, screen, policy, lease sink |
| lease turns (`lease_turn.rs`) | FIFO of lease ids under a mutex | join, wait, release | leases of one sampler |
| stream pool (`stream_pool.rs`) | free stream pairs under a mutex | take, put or leak | sessions |
| screen policy (`screen_policy.rs`) | selectors per topology, configuration | decide, record_full, reconfigure | leases |
| utilization governor (`nvml_gov.rs`) | knobs, last sample, poll thread | start, reconfigure, should_throttle, stop | stream driver |
| screen kernel, cutoff estimator, coefficient plan, capacity, topology | per call | pure, or one launch | leases, sessions |
| opening a device (`cuda_device.rs`, `jit_cache.rs`, `src/bin`) | declared identity, capacity, loaded modules; files in a directory | probe, declare, resolve, load_or_compile, write_atomic, configure | other processes, the driver |
| driver budget (`driver_budget.rs`) | charged time, window | mark, charge, record_completions, maybe_report | stream driver |
| accept table, schema, bench, corpus | constants, serde types, tools | | |

What makes it hard:

* **No synchronisation between host and blocks.** Uploads run on
  `stream_transfer`, the kernel on `stream_compute`; event tracking is off.
  What orders them is FIFO order within the transfer stream, the control words,
  and the discipline with which `SlotState` reuses slots.
* **A kernel that never returns by itself.** Whatever the host does — end a
  session, abandon a round, drop a session on an error path — every block has
  to see `EXIT_NOW`, wherever it waits, before buffers may be freed.
* **Interleavings inside the Gibbs kernel.** Several blocks of one nonce share
  a model; its start, chunks, end and hand-over are agreed through plain global
  words, two shared-memory words and barriers.
* **Shared things outside a session.** Stream pairs go from one session to the next, and
  what the last one queued on them goes along; a PTX cache is written by processes that
  may die; a selector and two knobs are reconfigured in the middle of what they decide.
* **Narrow integers.** A plan picks the integer width a job runs in, a capacity the memory
  it may take; both are bounds that nothing on the device checks again.
* **One answer per job.** A job may be in the channel, the seed of a session, in
  a cold-start batch, in a slot, or carried over a session boundary when any of
  these go wrong: a device call, the round, the result channel, the GPU's other
  users, the watchdog.

## 2. Modules

| module | models | with |
|---|---|---|
| `SelfFeeding` | one session: host thread, transfer stream, and one block per nonce | abstract specification `SlotQueue` |
| `SlotQueue` | what a session promises: per nonce a two-deep FIFO whose answers are faithful | |
| `StreamDriver` | `run_stream`: sessions one after another, over two-deep queues | refines `SlotQueue` again |
| `GibbsNonce` | the blocks (two threads each) of one Gibbs nonce | abstract specification `NonceWorker` |
| `NonceWorker` | what the host may rely on of one nonce | |
| `LeaseSampling` | the leases of one sampler: turns, chunks, full solves with three threads | the contract `StreamDriver` is checked for |
| `StreamPool` | isolated sessions (`sample_one`, `bench_one`) over pooled stream pairs | |
| `DeviceOpen` | processes that declare and open devices, the PTX cache between them | uses `Capacity` |
| `Capacity` | node and read budgets of a device | |
| `JobPreparation` | plan, topology and upload of the jobs of a session | uses `Coefficients` |
| `Coefficients` | which kernel variant takes a job, at what scale | uses `Capacity` |
| `Governor` | NVML poll thread, knobs, `should_throttle` | the environment of `StreamDriver` |
| `ScreenPolicy` | the selector all leases share, and its reconfiguration | uses `Screening` |
| `Screening` | the probe screen: domain, packed adjacency, launches | the `Probe` of `LeaseSampling` |
| `Quantile` | one P2 quantile of a cutoff | |
| `DriverBudget` | the driver's time windows | |
| `LeaseSamplingProofs` | where a salt can be, the room in the result channel, whose turn it is, what `sample` returns | |
| `SelfFeedingProofs` | types and teardown of `SelfFeeding`; the slot protocol is safe, and implements `SlotQueue` | |
| `StreamDriverProofs` | every job in its place, and `SlotQueue` implemented again | |
| `GibbsNonceProofs` | the blocks of a Gibbs nonce keep models whole, and implement `NonceWorker` | |
| `DeviceProofs` | the safety properties of `DeviceOpen` and `StreamPool` | |
| `JobPreparationProofs` | a job reads back from its layout, and fits its kernel | |
| `TuningProofs` | those of `Governor`, `DriverBudget`, `ScreenPolicy`, `Screening`, `Quantile` | |
| `FoldLemmas` | sums over finite sets, joined sequences, division, for the proofs | |
| `MC...` | model values, symmetry and data for TLC | |

How they fit together: `StreamDriver` takes a session to be a set of two-deep
queues (`held`); `SelfFeeding` is shown to be one (`ImplementsSlotQueue`), and so
is the session half of `StreamDriver`. `SelfFeeding` in turn takes a nonce to be a
worker that claims one slot, anneals it and publishes it; `GibbsNonce` is shown
to be one (`ImplementsWorker`), without condition when every chunk has reads and
otherwise until a late thread breaks a block's barriers, which the code permits.

### SelfFeeding

Variables and the code they stand for: `phase`, `at` (where the host thread is in
`run_session`, `pump_session`, `refill_slots`, `scan_completions`, `abort_now`,
`Drop`), `feeding` (`!exhausted`), `active`, `next` (`SlotState`), `snap` (the copy
`poll_ctrl` returned), `xfer` (copies enqueued on `stream_transfer` and not yet
executed), `ctrl`, `exitNow` (the nonce's control words), `coef`, `samp` (what a
slot's buffers hold), `bpc`, `bslot`, `bsrc` (the block: where it is, its slot,
the coefficients it started from).

One action per host step and per block step. `poll_ctrl` and `download_slot` are
synchronous copies on the same stream as the uploads, so they return only after
every earlier copy (`xfer = <<>>` in `PollCtrl`, `ScanDeliver`); everything else
runs behind the host's back (`Xfer`). A scan for READY is one step per
`atomicCAS`. Every CUDA call has an action in which it fails, up to `MaxFaults`
of them; `upload_slot` may fail with its first copies enqueued or not. What a
sample buffer holds is the job whose complete model produced it, `Zeroed`, or
`Torn`: a model is `Torn` when the coefficients under it changed while it ran.
Time is a choice: the idle teardown and the stall watchdog may strike whenever
the host looks at the clock.

`launch` drains the transfer stream before the kernel starts, so the kernel
comments' "a block can start before its cold-start slot is READY" cannot happen
for uploads that succeeded; a nonce whose upload failed starts with none READY.

### StreamDriver

The environment sends jobs, closes the channel, raises the cancel watermark, drops
the result channel, begins and ends GPU contention, and completes held jobs,
each at any moment. The driver's own steps are the iterations of its loops: one
`try_pull`, one upload, one slot of a scan. `Key` is the `SessionKey` a job needs,
`Refused` when no plan holds it, `EmptyGraph` when it has no nodes; `Gen` its
watermark. A result sent to a consumer that is gone counts as `lost`.

### GibbsNonce

A block is two threads: thread 0, which alone talks to the control words, and one
that stands for all others. `sChunk` and `sArrival` are the shared words. The
actions follow the kernel line by line wherever a global or shared word is read
or written; `Syncthreads(b)` releases all threads of a block that have not
returned, whichever `__syncthreads` each is at, as the hardware does. `done`
counts how often each thread did its share of each chunk.

The kernel reads `s_chunk` after a barrier and thread 0 overwrites it with no
barrier in between (`gibbs.cu:314-369`). So does the model: no action waits for
another thread's read. Two things can go wrong, and the history variable `misled`
records them; `Steal` adds to it, no guard reads it:

* `"slot"`: a late thread of the lead block takes a chunk number for its slot
  (`MissesSlot`). It anneals, and adds its share to, another slot, until it reads
  ACTIVE_SLOT for the next model. `Misled(b, t)` is that thread while it does;
  `Sound(t)` says whether `done` of a thread is still to be trusted.
* `"chunk"`: a late thread, behind an empty chunk, reads the number of the next
  (`MissesChunk`), and the block's barriers pair up wrongly from then on. `InStep`
  says that this has not happened.

The properties say what the code does in spite of them, whatever the timing, and so
where exactly its correctness ends: barriers match, models are whole but for the
misled thread's part, the blocks are one worker, and all leave, up to `~InStep`, and
with reads in every chunk for ever. What happens otherwise is in the two findings.
`ImplementsWorker` counts a chunk as annealed when thread 0 has done its share, since
that is what a late thread cannot disturb; the shares of the others are in
`ModelsWhole`.

### LeaseSampling

`waiting` is the queue of `LeaseTurns`; `pc` is where a lease's thread is in `sample`,
`work`, `full_solve` and `run_stream`; `start`, `end`, `at`, `upto` and `pending` are
`work`'s locals; `watcher`, `reporter`, `current`, `stopped`, `failure` and `verdict` belong
to the threads of `run_full_batch`. `sink` is the caller's side (`LeaseSink`): it may
stop a lease or go away between any two steps, and `push` returns when it likes.
`told` records what it was told of each salt.

The stream is taken by the contract `StreamDriver` is checked for: every job is
answered once, with reads, cancelled only if abandoned, or rejected, and `run_stream`
returns when none is left. The probe is its result: all of the chunk, a prefix
if a stop came, or a failure; which salts are rejected, kept or audited is any
choice (`decide` is the screen policy's). Each read of `is_stopped` that another
thread's step can come between is a step of its own. The feeding loop of
`full_solve` is one step: nothing sees its channel before the stream starts.

### StreamPool

`step` is where a caller is in `sample_one` or `bench_one`, `available` the pool's stack,
`held` the pair of a caller, `leaked` what a failed drain kept. `compute` and `transfer` are
the work queued on the two streams of a pair and not yet executed, `mail` the control words
a session's buffers have. `take` is a test and a wait, a wait may end for no reason, and
`put` pushes under the lock and notifies after it, so that a third caller may come in
between. Drop follows the declaration order: session, buffers, lease. A call can fail at
each place; a failed drop waits for the whole context, and aborts the process if that fails
as well. The kernel is one model: it finds READY, publishes, and leaves on the exit word.

### DeviceOpen and Capacity

A process goes from `declare` (main, `--capabilities`) through `resolve` and the builds of
`compile_all_kernels`, each looked up, compiled or stored, to `open`. `final` and `tmp` are the
cache's files: which build a file's text was compiled from, and whether it is whole. Write and
rename are steps, both may fail, and a process may die and start anew between any two, with
its process identifier reused. `Capacity` has the arithmetic of `capacity.rs` with its own
numbers; devices are given by the five facts the driver reports.

### Coefficients and JobPreparation

Coefficients are integers in milli; `OffGrid` stands for a float that `to_milli` refuses.
The widths of `i8`, `i32` and the exact range of `f32` are constants, so that TLC reaches
their limits with graphs of two to four nodes. `JobPreparation` takes the first job of a
session through plan, topology and fill, and later jobs through `plan_for`, `matches` and
fill over the same layout. `GreedyColor` allows every order of nodes of one degree.

### Governor

NVML's samples are kept in a buffer with their times; `lastSeen` is what
`foreign_utilization` passes back. A sample may be of a process that is gone. The poll
thread, the session's reader that reconfigures, and the driver that asks are steps of
their own per atomic; stop may come between any two.

### ScreenPolicy, Screening, Quantile, DriverBudget

`ScreenPolicy` follows a lease from its key to its last record while any accepted or refused
table is merged; whether an energy passes the cutoff is free. `apply_config` also sets the
governor's knobs: the two halves touch disjoint state, and each is in the module of its state.
`Screening` evaluates `check` on every topology of the bound and runs launches of every
duration; a lane's result is the set of nonces and reads it came from. `Quantile` allows
every height the parabolic or the linear formula may yield in floating point: what the code
checks of it is all that is used. `DriverBudget` lets the clock tick between any two reads.

## 3. Runs

| run | question | bounds |
|---|---|---|
| `SelfFeeding` | is any result wrong, lost, doubled; any copy under a running block; anything alive after free; is the session a set of two-deep queues | 2 nonces, 3 jobs, 1 failing call, SA |
| `SelfFeedingLive` | is every job answered, is the device given back | 1 nonce, 2 jobs, 2 failing calls, SA |
| `StreamDriver` | is every job in one place, answered once, and does `run_stream` return only when it may | 2 nonces, 4 jobs, 2 generations, 2 keys |
| `StreamDriverLive` | is every job answered, does closing end the stream | 2 nonces; an ordinary, a refused, an empty-graph job; 1 failing call |
| `GibbsNonce` | do the blocks of a nonce act as one worker, and all leave | 2 blocks x 2 threads at any pace, 3 models, last chunk empty, up to `~InStep` |
| `LeaseSampling` | is every salt accounted for once and none lost, does one lease at a time use the device, is a stop ever called a fault | 2 leases of 3 and 1 salts, chunks up to 2, 1 failing call |
| `LeaseSamplingLive` | does a stopped lease give the device back, does the next one get its turn | 2 leases of 2 and 1 salts, chunks up to 2 |
| `Device` | are pooled streams clean and do callers return; are cache entries whole and a device's own; is what was declared served; do plans, layouts and budgets keep to their bounds | 3 callers, 2 pairs, 2 failing calls; 2 processes; graphs of 2 to 4 nodes, 2 jobs of a session |
| `Tuning` | is a throttle somebody else's load and does it end; does a reconfiguration leave an estimator behind; do nonces, markers and windows stay in order | 1 neighbour, 2 samples; 2 salts of a chunk; 3 nodes, 3 edges, 17 nonces; 20 observations; clock to 7 |
| `GibbsRetires` | *violation*: a Gibbs nonce leaves without being told | 1 nonce, 2 jobs |
| `SharedWordRace` | *violation*: a late thread takes a chunk for a slot | 2 blocks, 1 model |
| `EmptyChunkHang` | *violation*: an empty chunk lets barriers pair up wrongly | 2 blocks, 1 model |

Why the bounds are enough. Nonces share nothing but the host's loop, the transfer
stream and the exit signal, so two of them show every interaction. A nonce has
three slots and two jobs at most; three jobs make every slot come round again
while the stale COMPLETE of its previous model is still there, one more upload
than that repeats a state up to names. One failing call puts every error path
next to every state of the rest; two (in the live run) add a failure of the
recovery. For `StreamDriver` two generations give live and stale jobs side by side
and two keys a mismatch in both directions; four jobs let a carried job be
followed by ones that fill its session. In `GibbsNonce` two blocks are the lead
and another, either of which can be the last; three models reuse a slot while a
late block still finishes the previous one; the fourth block of the real kernel
adds another like the second. `CONSTRAINT InStep` leaves out the states after a thread
was overtaken behind an empty chunk: of those the four properties of the run say
nothing, by their own wording, and the step that leads there writes no word the
refinement looks at, so nothing is cut that could violate them. The proofs of section 5 do away with the bounds for
the safety properties altogether.

In `LeaseSampling` two leases are one that works and one that waits, in either order;
three salts give a second chunk after a full one, two jobs of a batch one that is being
pushed while the other is unanswered.

`Device` and `Tuning` check modules that share no variable side by side: a behaviour
exercises one of them, chosen at its start, so that the states add up instead of multiplying.
In `StreamPool` three callers over two pairs give one that waits while two others put
back, and two failing calls a failure of a recovery. In `DeviceOpen` the two processes share
the build of one kernel and have builds of another that differ in nothing but their capacity.
The graphs of `JobPreparation` include parallel edges, loops and edges out of range, the
coefficients of each sign on either side of every limit. In `Tuning` a screen's launches have
groups of two to eight nonces, so that a batch ends inside a group; the marker positions of
`Quantile` meet all cells and directions well before the twentieth observation.

`CHECK_DEADLOCK FALSE` appears in the runs of `StreamDriver`, which ends when
`run_stream` returned and waits for ever when nobody sends or closes, of
`LeaseSampling`, where every lease ends, of `Device` and `Tuning`, whose calls, chunks and
windows end at their bounds, and in `EmptyChunkHang`, whose hang is the point.

### Fairness

* `SelfFeeding`: the host thread runs (`WF(Step)`), the copy engine drains its
  stream (`WF(Xfer)`), every block has an SM of its own and runs (`WF(Block(n))`;
  `launch` never starts more blocks than are resident). No call has to fail, none
  has to succeed.
* `StreamDriver`: the driver thread runs; the device finishes what it holds (shown
  in `SelfFeeding`); contention comes and goes but ends (`WF(ContentionEnds)`), and
  ends often enough for the 250 ms poll to see it (`SF(Yield)`). Nothing is assumed
  of the coordinator: properties are conditional on what it did.
* `GibbsNonce`: each thread of each resident block runs.
* `LeaseSampling`: the lease, reporter and watcher threads run, a probe launch ends, a
  cancelled stream answers what is left. No fairness for solves nobody cancelled, nor
  for `push`; `TurnComes` supposes that pushes return.
* `Device` (its `StreamPool` part): a thread that can run runs, a call that does not fail
  returns, and the two streams of a pair go on independently. `CallersReturn` excepts what
  the code cannot help: every pair lost to a failed drain, an exit word that was lost.
* `Tuning` (its `Governor` part): the poll thread runs and its NVML calls return.

### What the runs show

* `ResultFidelity`, `SlotInv`: the discipline of slots, copy order and publication is
  sufficient without any event between the streams. `SlotInv` implies that no copy is
  queued for a slot a block is in, and that a block works only on jobs the host holds.
* `ImplementsSlotQueue` (of both sides), `JobsPlaced`, `ReturnsWhenAnswered`: no
  job is lost or answered twice, none is in a slot of a session of another key, on any path
  through failure, abort, watchdog, mismatch, cancellation and closing.
* `OnlyStaleCancelled`: a live job is never refunded as cancelled.
* `FreedIsQuiet`, `Released`, `AllLeaveInStep`: teardown waits for everything that can
  still write, and ends.
* `ModelsWhole`, `BarriersMatch`: however late a thread reads `s_chunk`, the threads of a
  block meet at the same barrier, a Gibbs model is complete when it is published and its
  blocks work on one slot, with two exceptions: nothing holds once a thread is overtaken
  behind an empty chunk, and a thread that took a chunk for its slot spoils its own part.
* `HoldsTurn`, `AccountedOnce`, `VerdictSound`, `ResultFits`: the three threads of a full
  solve hand every salt on exactly once, and wind up before the turn passes to the next
  lease, whichever of them sees the stop first; Ok means that every salt was answered.
* `DeviceRetires`, `TurnComes`: no blocked push and no endless solve of a stopped
  lease keeps the device from the next.
* `PoolSafe`, `SessionSafe`, `CallersReturn`: a pair changes hands with nothing of the old
  session on it, a waiter is never forgotten, and the drained memsets of `build` make the
  uploads safe on unordered streams.
* `CacheWhole`, `LoadedIsOwn`: temporary name and rename suffice even for a process that
  died and whose identifier was used again, because a process writes all of its file
  before it renames; and the key names everything that is compiled in.
* `DeclaredIsServed`, `CapacityFits`: what was declared before a device was open is what it
  serves, and everything it may be asked for fits the memory it reported (SA to within one
  byte of each resident thread, the rounding its budget drops).
* `PlanSound`, `UploadFaithful`: a plan neither overflows nor loses a coefficient, a refused
  job is refused for good, a job inside the declared limits is taken but for the cases the
  property names; and the layout a session was built with reads back as each job's model.
* `ThrottleJustified`, `ResumesWhenQuiet`: old samples do not count a process twice nor the
  miner, and do not keep it throttled; whole-device figures may, while it has company.
* `SelectorSound`, `AdjacencyExact`, `ScreenedInOrder`, `MarkersOrdered`, `WindowsFit`: see
  their comments in the modules.

## 4. Findings

* **A Gibbs nonce retires on one empty scan** (`GibbsRetires`,
  `kernels/gibbs.cu:600-609`). The wait that replaced this in `sa.cu` and `msa.cu`
  (QUI-828), and in the Gibbs kernel's own entry, is missing in its model loop. The
  host keeps admitting jobs to the nonce until the stall watchdog rebuilds.
* **Late read of the slot** (`SharedWordRace`, `kernels/gibbs.cu:314`): missing barrier
  between the lead block's read of `s_chunk` as its slot and thread 0's next write.
* **Late read of an empty chunk** (`EmptyChunkHang`, `kernels/gibbs.cu:361`): the
  same missing barrier when the reads of a job do not fill all four chunks. A thread
  may leave the work loop one barrier ahead of thread 0; then no block is the last
  to arrive and even `EXIT_NOW` does not end the nonce.

Two more places read differently from a comment, and no run is spent on either. A job carried
over from `Halt::Mismatch` waits out foreign contention (`streaming.rs:2614`), although the
pause is placed where it is so as not to sleep "with a job already in hand"
(`streaming.rs:2612`); `JobsPlaced` keeps track of the job meanwhile. And `report` turns the
`DeviceBusy` of one rejected job into a `DeviceFault` of its lease (`lease.rs:438`), where the
driver answers `DeviceBusy` precisely so that it is not a fault (`streaming.rs:2439`).

## 5. Proofs

Every safety property the passing runs check is also proved; what is left to TLC is liveness.

Of `SelfFeeding`, for any `Width`, any set of jobs, each kernel and any number of
failing calls (its `Assumption`: constants of the right kind, and job names distinct
from the markers):

* `TypeCorrect`: `Spec => []TypeOK`, one step per action.
* `SlotsSafe`: `Spec => []SlotInv`. This is the inductive invariant. `ResultFidelity` alone is not inductive: that a COMPLETE slot holds
  the samples of the job the host believes it gave depends on what is still queued
  on the transfer stream. So `SlotInv` says, of every slot:
  - `QueueOrder`: READY is the last copy of an upload, and no upload of the
    same slot follows it in the queue;
  - `NoCopyOverModel`: a slot with a coefficient copy on its way is EMPTY or COMPLETE;
  - `HeldSlots`: once the queue has run, a held slot's buffers hold its job's
    coefficients, and it is on its way to READY, or READY, ACTIVE or COMPLETE with
    that job's samples;
  - `FreeSlots`: a slot the host does not hold has no READY on its way and is
    EMPTY or COMPLETE, so no block can be in it or enter it;
  - `RunningBlocks`: a block in a model has its slot ACTIVE and the coefficients it
    started from still in place;
  - `SnapshotHolds`: what the scan's old snapshot calls COMPLETE still is;
  - `ColdVacant`: during the cold start, nonces not reached yet are vacant.

  The last five hold while the host feeds, polls and delivers (`Live`); once it has
  decided to tear down, it no longer knows what is in a slot, and reads none.
* `NoCopyUnderBlockHolds`, `WorksForHostHolds`: from `SlotInv`.
* `FreedQuietly`: `Spec => []FreedIsQuiet`. `wait_exit` leaves the copy
  queue empty before it joins the kernel, and from then on nobody appends to it.
* `StaysUntilTold`: `Spec => []LeavesOnlyOnExit`, unless the kernel is Gibbs, for which the
  run `GibbsRetires` shows that it is false.
* `ImplementsQueue`: `Spec => ImplementsSlotQueue`. It needs `SlotInv` for the answers (an
  answer with samples is faithful) and `NextBehindActive`, NEXT is never filled without
  ACTIVE, for the order: then releasing, rotating and admitting are each one step of a queue.
* `Faithful`: `Spec => []ResultFidelity`, from `SlotInv`: a delivery reads the slot
  of the ACTIVE job after every queued copy ran, and `HeldSlots` says whose samples
  are in it.

The lemmas cover the queue (what `Append` and `Tail` do to pending copies, to their
order and to what a slot settles on), the uploads, the copies as they execute, the
block's steps, the release of jobs and the rotation.

Of `StreamDriver`, for any width, any set of jobs with any keys and generations, and any
number of failing calls (its `Assumption`: constants of the right kind, `None` no job and
no result):

* `TypeCorrect`: `Spec => []TypeOK`.
* `DriverSafe`: `Spec => []DriverInv`, the inductive invariant. That each job is in one place
  is not inductive: a step that moves the seed into the batch, say, would double a job if
  something were still in the batch or in the slots. `DriverInv` says:
  - `Shape`: what each stage has in its hands, so that nothing is left in the hands of a
    stage that is over: a seed only before the build, a carried job exactly with
    `Halt::Mismatch`, slots vacant outside a session and above the nonce the cold start
    has reached;
  - `Fitting`: the batch and the slots fit the key of the session's seed;
  - `NoDoubles`: no job twice in the channel, the batch, a queue, or in two queues;
  - `AllPlaced`: every job is in exactly one of the seven places it can be in;
  - `Ending`: the stream ends, and a result is lost, only for the two reasons there are.
* `JobsStayPlaced`, `ReturnsOnlyWhenAnswered`: `JobsPlaced` and `ReturnsWhenAnswered`, from it.
* `RefundsOnlyStale`: `Spec => []OnlyStaleCancelled`, because the watermark only rises.
* `DriverKeepsToQueue`: `Spec => ImplementsSlotQueue`. With `ImplementsQueue` it closes the gap
  between the two modules: the driver relies on no more than a session was shown to give.
  The run `StreamDriver` checks this without failing calls, the theorem with any number.

Of `GibbsNonce`, for any number of blocks and of models, any chunks of which any are empty,
any timing, and two threads in a block, one of which stands for all that are not thread 0.

* `NonceHolds`: `Spec => [](InStep => IInv)`, the inductive invariant. That a thread may read
  `s_chunk` late shows in `Paired` (it can be behind thread 0 at the entry, and behind an
  empty chunk), `Entry`, `Registers` and `ChunksAnnealed`; that such a read breaks no
  barrier unless it skips an empty chunk is `StealStep`. The other hard step is the one
  in which the last block to arrive closes a model: that every chunk was annealed by then is
  not to be seen in any state of that block. `IInv` says, beside the types:
  - `Paired`: where the two threads of a block can be at the same time;
  - `Stage`, `Entry`: which generation a block works for, that a block may be one behind, and
    what `s_chunk` holds while a thread has yet to read its slot;
  - `OneCloser`, `ArrivalsCounted`, `QueueCounted`: `CTRL_BLOCKS_DONE` counts the blocks that
    have found no chunk, `CTRL_WORK_QUEUE` those and the chunks that were dealt, so the last to
    arrive is one block, and nobody is left in a chunk;
  - `DealtOnce`, `ChunksAnnealed`: no chunk is with two blocks, and a share of a dealt chunk is
    done exactly when its thread has left it;
  - `OneActive`, `Registers`: one slot is ACTIVE from claim to publication, and it is the slot
    in the registers of every thread that may still use it and is not misled;
  - `Handed`, `Claims`: what the host wrote on a READY slot, and that there are no more
    generations than uploads.
* `ModelsStayWhole`, `ThreadsMeet`: `Spec => []ModelsWhole`, `Spec => []BarriersMatch`, from it.
* `BlocksAreOneWorker`: `Spec => ImplementsWorker`. Only the lead's claim, thread 0's share of
  a chunk, the publication and the last departure are steps of the worker.
* `FullChunksMeet`, `FullChunksImplementWorker`: when no chunk is empty `InStep` holds for
  ever, and `Spec => []BarriersMatch` and the whole refinement `Spec => Worker!Spec` follow
  with no condition left, for any pace of the threads.

Of `LeaseSampling`, for any finite or infinite set of leases, any numbers of salts,
any chunk size and any number of failing calls (its `Assumption`: constants of the
right kind, and between 1 and `MaxSalts` salts in a lease):

* `SaltsAccounted`: `Spec => []SaltsInv`, the inductive invariant. `AccountedOnce` alone
  is not inductive: that the reporter's next push is the first word on its salt
  depends on where the salt was before. `SaltsInv` says, of every lease:
  - `ToldOnce`: no salt was told twice, and none past the current chunk at all;
  - `PendingUntold`: a salt waiting for its full solve was not told;
  - `InHand`: the salt the reporter has taken is neither pending nor told;
  - `ReporterInScope`: the reporter runs only while its lease is in `run_full_batch`;
  - `BetweenChunks`, `InProbe`, `InDecide`, `InSolve`: what of the chunk is untold at
    each place of the lease's thread, and that chunks do not overlap.

  A step of one lease changes nothing of another (`StepKeeps`), so each action is
  checked for its own lease.
* `EachSaltOnce`: `Spec => []AccountedOnce`, from `SaltsInv`.
* `NeverWaitsForReporter`: `Spec => []ResultFits`, from `SaltsInv` and a second inductive
  invariant: answers in the channel and jobs unanswered together never exceed the
  channel's capacity, which is the number of salts sent to be solved. So the stream
  never waits for the reporter, and a reporter blocked in the sink cannot hold up the
  stream.
* `OneAtATime`: `Spec => []HoldsTurn`, from `TurnInv`: a lease is in the queue once, exactly
  while it waits or works, it works at the front, and its helpers run only inside
  `run_full_batch`. `Left` says what remains of a queue that a lease leaves.
* `AnswersTruly`: `Spec => []VerdictSound`. What `sample` returns is decided by three threads
  and a sink that may stop between any two of their steps, so the invariant follows the
  reasons. `Honest` says, of every lease:
  - `FreshSolve`: a full solve starts with nothing left of the last one;
  - `Outstanding`: unless the reporter gave up, a pending salt is an unanswered job or has
    its one answer in the channel, so an empty, closed channel means that none is pending;
  - `TrueAnswers`: an answer reads cancelled only if the sink or an error is the reason, and
    tells of a failure only if a call failed;
  - `TrueReport`: the same of `stopped`, of the cancel token and of the verdict;
  - `TrueFault`: a device fault goes back to a call, or a thread, that failed;
  - `ToldBehind`: while the sink takes everything, each salt behind the work was told, and
    each of the chunk was told, is pending, or is in the reporter's hand.

Of `StreamPool`, for any finite sets of callers and pairs and any number of failing calls:

* `PoolIsSafe`, `SessionIsSafe`: `PoolSpec => []PoolSafe` and `PoolSpec => []SessionSafe`.
  Neither is inductive alone. The invariant adds who holds a pair at which step
  (`HoldsWhile`) and, for each step of a session, what its two streams can still have
  queued (`SessionAt`): that the pair a caller takes is quiet is why its memsets are all
  that `build` has to drain, which is why its upload comes last. For `NoLostWakeup` it counts
  callers on their way to the pool, or about to notify, against the pairs in it; each step
  changes either count by at most one, which takes the theorems on finite cardinalities.

Of `DeviceOpen`, for any processes, devices and requests, and a cache in which earlier runs of
the processes left what they left:

* `OpensSafe`: the invariant. What a process is about to rename is the whole text of its own
  build (`FilesWhole`), because a temporary name is the process's own; and a key determines
  its build (`KeyOfBuild`), so that a hit is what a compilation would have given.
* `CacheIsWhole`, `LoadsItsOwn`, `ServesDeclared`: from it.
* `CapacityAlwaysFits`: `WholeWarps => (OpenSpec => []CapacityFits)`. The budgets are quotients
  of what a device has, and the theorem is about what their roundings lose (`SaFits`), where the
  loop of `sa_wide_budget` stops (`WideFits`) and how many reads a replica word holds
  (`WordsFit`). `WholeWarps` says that the resident threads of a multiprocessor are a multiple
  of eight; they are whole warps of 32. For other numbers `(threads * 9) / 8` drops up to one
  byte a node for each multiprocessor, and SA's working set exceeds the budget by more than
  `CapacityFits` allows.

Of the modules of the run `Tuning` (`TuningProofs`), for any constants their assumptions admit:

* `ThrottleAlwaysJustified` (`Governor`): a figure that was attributed per process is at most
  what the neighbours can have put on the device. The newest samples of the others are as many
  as there are neighbours, whatever else the buffer holds (`ForeignLoad`); `GovInv` keeps
  where each figure and each answer came from.
* `WindowsAlwaysFit` (`DriverBudget`): for any set of buckets. `BudgetInv` says that time is
  charged to the window it passed in, an open region's included (`Charged`), what stands still
  while a window closes (`Frozen`), and that reported windows end before the open one begins
  (`Reported`).
* `SelectorIsSound` (`ScreenPolicy`): whatever tables are merged and when, every estimator
  there is was made for the keep denominator in force, and a lease's key was admitted.
* `AdjacencyAlwaysExact` (`Screening`): for any topology of naturals, which `check` admits or
  not. The rows are the nodes' edges in order, put together edge by edge (`Flattened`,
  `NodeExact`); an entry can be taken apart again because a node is below `IndexSize - 1`
  (`EntryReads`).
* `ChunkScreenedInOrder` (`Screening`): for any number of lanes, nonces and groups. `ScreenInv`
  says what each result is, that a launch in flight begins where the results end (`Flying`),
  and what the budget knows of the launches before it (`Paced`). The lanes of a nonce are a
  class of residues (`Class`), which takes the assumption that the reads divide the lanes: a
  group has 32 and a nonce 4 to 32 reads, a power of two.
* `MarkersInOrder` (`Quantile`): an observation moves the markers above its cell, which keeps
  them apart; an inner marker moves only into room, and gets a height between its neighbours'.

Of `JobPreparation`, for any set of graphs, finite or not, any kernels, and any widths of the
machine types (`WidthAssumption`, `PrepAssumption`: an edge is a pair of naturals, of which
those past the last node are out of range; a device is open for one node at least, since
`resolve` opens none for fewer than its kernel's default):

* `PrepInvAlways`: `PrepSpec => []PrepInv`. The plan of the session is that of the job at hand,
  the topology is that of some graph with the same edges (`Seeded`), for some order of its
  nodes, and the staging buffers hold the job at hand. A fill never fails (`FillExact`).
* `JobsAreFaithful`: `PrepSpec => []UploadFaithful`. `Row` and the coloring are chosen by what
  they satisfy, so the first step is that there is such a thing: the halves of a node can be
  sorted (`SortedExists`), the greedy coloring can be carried out (`ColorsExist`). Then each
  half has a position of its own, because a row ends before the next begins (`PositionOf`), a
  position is claimed by the edge of its half and by no other (`ClaimsAre`), and the sum over
  a row is that over the edges of the node (`SumOfRenamed`), whatever edges are parallel,
  loops, out of range, or without a coupling. Neighbours differ in color because the later of
  the two was given one that none of its colored neighbours had (`FreeIsUnused`).
* `PlansAreSound`: `PrepSpec => []PlanSound`. The field a kernel computes is at most the largest
  local field (`KernelFieldBound`), although a loop counts twice in the one and once in the
  other; and the scale is the greatest common divisor, so that no other scale that keeps the
  coefficients whole makes the job smaller (`CoarsestScale`): what is refused at this one is
  refused at all. An earlier form of the property had no missing couplings in a multi-spin
  int8 job. The plan does take such a job (`coefficients.rs:181-183` looks at the couplings
  there are); they are staged as 0, which `msa.cu` counts as no neighbour, so the property
  says {-1, 0, 1}, and two graphs of the run have one missing.

Sums over a finite set and sequences put together are folds, which are defined by recursion, and
the library's induction theorems are out of the provers' reach. `FoldLemmas` proves what is
needed about them without induction, from a least counterexample: a set of naturals has a least
member (`LeastNatural`), and so has a set of subsets of a finite set (`LeastSet`). What a fold
gives is characterised by its two equations (`SumsExist`, `SumsUnique`, `JoinedExist`).

Only model-checked:

* Liveness, of every module: it needs ENABLED, which the prover does not handle.
* That `InStep` and `OneSlotPerModel` do not always hold: the runs of section 4 show it.

## 6. Not modelled

* Annealing arithmetic, random numbers, scoring of spins and the packing of bits:
  numeric, not protocol. A model is its job and whether it ran whole.
* Beta ranges and schedules, the moments and normal quantiles of a cutoff, `ProbeBudget`:
  floating point or time.
* GPU memory order below the fences the kernels place; in particular whether
  `__ldg` may return a line cached from a slot's previous model.
* 32-bit limits of arguments (`to_kernel_i32`): refused before anything is queued.
* Pauses and margins that change when a thing happens and not what: `CancelHeld` decides all
  held jobs in one step (the watermark only rises), and without the back-pressure of the
  channel; `Launch` of `StreamPool` waits for the transfer stream for every caller;
  `DriverBudget` has an integer clock in place of rounded durations (`driver_budget.rs:144`).
* Free memory that changes between declaring a device and opening it (`cuda_device.rs:340`
  reads the limits again; `LimitsOf` is constant for a process), and two live processes of
  one identifier in separate namespaces over one cache (`jit_cache.rs:115`).
* Driver calls behind opening a device (attributes, streams, module loading): their results
  are inputs of `DeviceOpen`.
* The accept table and the serde types (constants), the trait methods that only forward,
  command-line parsing, and the tools (bench, corpus, nsight, calibration), which are
  sequential programs around `sample_one` and `bench_one`.

## 7. What could come next

1. Proofs: what the liveness properties rest on that is not liveness itself, such as that some
   step of a session, a nonce or a pool can be taken wherever the properties have it go on.
2. `LeaseSampling` with the decisions of `ScreenPolicy` in place of free ones, once the states
   of both fit one run.
