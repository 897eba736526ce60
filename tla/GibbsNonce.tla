----------------------------- MODULE GibbsNonce ------------------------------
(***************************************************************************)
(* The blocks of one nonce of cuda_gibbs_self_feeding (src/kernels/        *)
(* gibbs.cu): how they agree on a slot, share its reads out of a work      *)
(* queue, meet at a barrier, and how the last to arrive publishes the      *)
(* model and hands over the next one.                                      *)
(*                                                                         *)
(* A block is thread 0, which talks to the control words, and one thread   *)
(* standing for the others, which learns from thread 0 through shared      *)
(* memory.  __syncthreads releases a block's threads when all of them, but *)
(* those that returned, have arrived, at whichever call.                   *)
(*                                                                         *)
(* The host is what this nonce sees of it (SelfFeeding has it in full):    *)
(* READY on the slot open_slot picks, the slots it collects, and EXIT_NOW. *)
(* The annealing is the fact that a thread did its share of a chunk.       *)
(***************************************************************************)
EXTENDS Integers, Sequences

CONSTANTS
    Blocks,     \* blocks_per_nonce, and chunks_per_model: launch passes one for both
    EmptyChunk, \* chunks without reads, when the reads do not divide evenly
    MaxUploads  \* bound: models the host hands over

Block  == 0..(Blocks - 1)
Thread == 0..1
Slot   == 0..2
Chunk  == 0..(Blocks - 1)
Share  == Chunk \ EmptyChunk   \* the chunks with reads

ASSUME Assumption ==
    /\ Blocks \in Nat \ {0}
    /\ EmptyChunk \subseteq Nat
    /\ MaxUploads \in Nat

VARIABLES
    ctrl,       \* slot status words
    exitNow,    \* CTRL_EXIT_NOW
    activeSlot, \* CTRL_ACTIVE_SLOT
    workQueue,  \* CTRL_WORK_QUEUE
    blocksDone, \* CTRL_BLOCKS_DONE
    generation, \* CTRL_GENERATION
    pc,         \* where each thread is
    slot,       \* its register active_slot
    myGen,      \* its register my_gen
    sChunk,     \* shared s_chunk of each block
    sArrival,   \* shared s_arrival of each block
    probe,      \* the slot the scan for READY has reached
    done,       \* how often a thread's share of a chunk of a slot was annealed
    held,       \* the slots the host counts as ACTIVE and NEXT (SlotState)
    uploads,    \* models handed over so far
    misled      \* history: what a thread overtaken before it read s_chunk read in its place

control == <<ctrl, exitNow, activeSlot, workQueue, blocksDone, generation>>
shared  == <<sChunk, sArrival>>
vars    == <<control, shared, pc, slot, myGen, probe, done, held, uploads, misled>>

\* The __syncthreads calls, and the reads each is followed by.
Barrier == {"announced", "dealt", "packed", "counted", "regroup"}
Pc      == Barrier \cup {"claim", "claimEnd", "setup", "open", "await", "enter", "steal", "took",
                         "arrive", "judge", "finish", "reset", "exitCheck", "rescan", "hand",
                         "advance", "spin", "reload", "gone"}

NoWork == [c \in Share |-> [t \in Thread |-> 0]]

TypeOK ==
    /\ ctrl \in [Slot -> {"EMPTY", "READY", "ACTIVE", "COMPLETE"}]
    /\ exitNow \in BOOLEAN
    /\ activeSlot \in Slot
    /\ workQueue \in 0..(2 * Blocks)
    /\ blocksDone \in 0..Blocks
    /\ generation \in -1..MaxUploads
    /\ pc \in [Block -> [Thread -> Pc]]
    /\ slot \in [Block -> [Thread -> Nat]]
    /\ myGen \in [Block -> [Thread -> 1..(MaxUploads + 1)]]
    /\ sChunk \in [Block -> -1..(2 * Blocks)]
    /\ sArrival \in [Block -> Block]
    /\ probe \in Slot
    /\ done \in [Slot -> [Share -> [Thread -> Nat]]]
    /\ held \in Seq(Slot) /\ Len(held) <= 2
    /\ uploads \in 0..MaxUploads
    /\ misled \subseteq {"slot", "chunk"}

Init ==
    /\ ctrl = [s \in Slot |-> "EMPTY"]
    /\ exitNow = FALSE
    /\ activeSlot = 0 /\ workQueue = 0 /\ blocksDone = 0 /\ generation = 0
    /\ pc = [b \in Block |-> [t \in Thread |-> IF t = 1 THEN "announced"
                                               ELSE IF b = 0 THEN "claim" ELSE "await"]]
    /\ slot = [b \in Block |-> [t \in Thread |-> 0]]
    /\ myGen = [b \in Block |-> [t \in Thread |-> 1]]
    /\ sChunk = [b \in Block |-> 0]         \* uninitialised; no thread reads it before it is set
    /\ sArrival = [b \in Block |-> 0]
    /\ probe = 0
    /\ done = [s \in Slot |-> NoWork]
    /\ held = <<>>
    /\ uploads = 0
    /\ misled = {}

Go(b, t, from, to) == pc[b][t] = from /\ pc' = [pc EXCEPT ![b][t] = to]

\* Where a thread goes to fetch a chunk: thread 0 asks the queue, the others
\* wait for what it deals.
ToSteal(t) == IF t = 0 THEN "steal" ELSE "dealt"

-----------------------------------------------------------------------------
(***************************************************************************)
(* The host                                                                *)
(***************************************************************************)
\* open_slot's lowest free slot, at most two of them taken.
Taken(s) == \E i \in 1..Len(held) : held[i] = s

Upload(s) ==
    /\ uploads < MaxUploads
    /\ Len(held) < 2 /\ ~Taken(s)
    /\ \A r \in Slot : r < s => Taken(r)
    /\ held' = Append(held, s)
    /\ ctrl' = [ctrl EXCEPT ![s] = "READY"]
    /\ done' = [done EXCEPT ![s] = NoWork]
    /\ uploads' = uploads + 1
    /\ UNCHANGED <<exitNow, activeSlot, workQueue, blocksDone, generation, shared, pc, slot, myGen, probe, misled>>

\* scan_completions collects the ACTIVE slot and promotes the NEXT one.
Deliver ==
    /\ held # <<>>
    /\ ctrl[Head(held)] = "COMPLETE"
    /\ held' = Tail(held)
    /\ UNCHANGED <<control, shared, pc, slot, myGen, probe, done, uploads, misled>>

SetExitNow ==
    /\ ~exitNow
    /\ exitNow' = TRUE
    /\ UNCHANGED <<ctrl, activeSlot, workQueue, blocksDone, generation, shared, pc, slot, myGen, probe, done, held, uploads, misled>>

-----------------------------------------------------------------------------
(***************************************************************************)
(* The scan for a READY slot, by the lead block at entry and by the last   *)
(* block to arrive after a model                                           *)
(***************************************************************************)
\* One atomicCAS that succeeds.
ScanHit(b) ==
    /\ \/ Go(b, 0, "claim", "setup")
       \/ Go(b, 0, "rescan", "hand")
    /\ ctrl[probe] = "READY"
    /\ ctrl' = [ctrl EXCEPT ![probe] = "ACTIVE"]
    /\ UNCHANGED <<exitNow, activeSlot, workQueue, blocksDone, generation, shared, slot, myGen, probe, done, held, uploads, misled>>

ScanMiss(b) ==
    /\ pc[b][0] \in {"claim", "rescan"}
    /\ ctrl[probe] # "READY"
    /\ probe < 2
    /\ probe' = probe + 1
    /\ UNCHANGED <<control, shared, pc, slot, myGen, done, held, uploads, misled>>

\* The lead block's scan came up empty: leave on EXIT_NOW, else scan again.
ClaimEnds(b) ==
    /\ probe = 2 /\ ctrl[probe] # "READY"
    /\ Go(b, 0, "claim", "claimEnd")
    /\ UNCHANGED <<control, shared, slot, myGen, probe, done, held, uploads, misled>>

ClaimAgain(b) ==
    /\ Go(b, 0, "claimEnd", "claim")
    /\ ~exitNow
    /\ probe' = 0
    /\ UNCHANGED <<control, shared, slot, myGen, done, held, uploads, misled>>

ClaimExit(b) ==
    /\ Go(b, 0, "claimEnd", "announced")
    /\ exitNow
    /\ generation' = -1
    /\ sChunk' = [sChunk EXCEPT ![b] = -1]
    /\ UNCHANGED <<ctrl, exitNow, activeSlot, workQueue, blocksDone, sArrival, slot, myGen, probe, done, held, uploads, misled>>

\* Bug: GENERATION is raised before the queue is set up.
SetupAfterOpening(b) ==
    /\ Go(b, 0, "setup", "open")
    /\ generation' = 1
    /\ sChunk' = [sChunk EXCEPT ![b] = probe]
    /\ UNCHANGED <<ctrl, exitNow, activeSlot, workQueue, blocksDone, sArrival, slot, myGen, probe, done, held, uploads, misled>>

\* The lead block claimed: its three words, a fence, then GENERATION.
Setup(b) ==
    /\ Go(b, 0, "setup", "open")
    /\ activeSlot' = probe
    /\ workQueue' = 0
    /\ blocksDone' = 0
    /\ UNCHANGED <<ctrl, exitNow, generation, shared, slot, myGen, probe, done, held, uploads, misled>>

Open(b) ==
    /\ Go(b, 0, "open", "announced")
    /\ generation' = 1
    /\ sChunk' = [sChunk EXCEPT ![b] = probe]
    /\ UNCHANGED <<ctrl, exitNow, activeSlot, workQueue, blocksDone, sArrival, slot, myGen, probe, done, held, uploads, misled>>

\* Thread 0 of the other blocks spins on GENERATION.
Await(b) ==
    /\ generation # 0
    /\ Go(b, 0, "await", "announced")
    /\ sChunk' = [sChunk EXCEPT ![b] = IF generation > 0 THEN 1 ELSE -1]
    /\ UNCHANGED <<control, sArrival, slot, myGen, probe, done, held, uploads, misled>>

\* Every thread learns the slot: in the lead block from s_chunk, in the
\* others from ACTIVE_SLOT.
Enter(b, t) ==
    /\ \/ sChunk[b] < 0 /\ Go(b, t, "enter", "gone") /\ UNCHANGED slot
       \/ /\ sChunk[b] >= 0
          /\ Go(b, t, "enter", ToSteal(t))
          /\ slot' = [slot EXCEPT ![b][t] = IF b = 0 THEN sChunk[b] ELSE activeSlot]
    /\ UNCHANGED <<control, shared, myGen, probe, done, held, uploads, misled>>

-----------------------------------------------------------------------------
(***************************************************************************)
(* __syncthreads                                                           *)
(***************************************************************************)
After(p, t) == CASE p = "announced" -> "enter"
                 [] p = "dealt"     -> "took"
                 [] p = "packed"    -> ToSteal(t)
                 [] p = "counted"   -> "judge"
                 [] p = "regroup"   -> "reload"
                 [] OTHER           -> p

Syncthreads(b) ==
    /\ \A t \in Thread : pc[b][t] \in Barrier \cup {"gone"}
    /\ \E t \in Thread : pc[b][t] \in Barrier
    /\ pc' = [pc EXCEPT ![b] = [t \in Thread |-> After(@[t], t)]]
    /\ UNCHANGED <<control, shared, slot, myGen, probe, done, held, uploads, misled>>

-----------------------------------------------------------------------------
(***************************************************************************)
(* The work-steal loop                                                     *)
(***************************************************************************)
\* Bug: thread 0 leaves the loop on an empty queue before the barrier.
StealBreaksEarly(b) ==
    /\ Go(b, 0, "steal", IF workQueue >= Blocks THEN "arrive" ELSE "dealt")
    /\ sChunk' = [sChunk EXCEPT ![b] = workQueue]
    /\ workQueue' = workQueue + 1
    /\ UNCHANGED <<ctrl, exitNow, activeSlot, blocksDone, generation, sArrival, slot, myGen, probe, done, held, uploads, misled>>

\* No barrier separates the reads of s_chunk from thread 0's next write: a
\* late thread of the lead block takes the chunk for its slot, or a late
\* thread, behind an empty chunk, the next chunk for the one it should read.
MissesSlot(b)  == b = 0 /\ pc[b][1] = "enter" /\ sChunk[b] # workQueue
MissesChunk(b) == pc[b][1] = "took" /\ workQueue \notin Chunk \cap EmptyChunk

Steal(b) ==
    /\ Go(b, 0, "steal", "dealt")
    /\ sChunk' = [sChunk EXCEPT ![b] = workQueue]
    /\ workQueue' = workQueue + 1
    /\ misled' = misled \cup {m \in {"slot", "chunk"} : IF m = "slot" THEN MissesSlot(b) ELSE MissesChunk(b)}
    /\ UNCHANGED <<ctrl, exitNow, activeSlot, blocksDone, generation, sArrival, slot, myGen, probe, done, held, uploads>>

\* The queue is empty: thread 0 counts the block in, the others wait.
TookNone(b, t) ==
    /\ sChunk[b] >= Blocks
    /\ Go(b, t, "took", IF t = 0 THEN "arrive" ELSE "counted")
    /\ UNCHANGED <<control, shared, slot, myGen, probe, done, held, uploads, misled>>

\* No read in the chunk, and so no barrier on the way back to the queue.
TookEmpty(b, t) ==
    /\ sChunk[b] < Blocks /\ sChunk[b] \in EmptyChunk
    /\ Go(b, t, "took", ToSteal(t))
    /\ UNCHANGED <<control, shared, slot, myGen, probe, done, held, uploads, misled>>

\* The thread's part of every read of the chunk, up to the last barrier.
TookReads(b, t) ==
    /\ sChunk[b] < Blocks /\ sChunk[b] \notin EmptyChunk
    /\ Go(b, t, "took", "packed")
    /\ done' = [s \in Slot |-> IF s = slot[b][t] THEN [done[s] EXCEPT ![sChunk[b]][t] = @ + 1] ELSE done[s]]
    /\ UNCHANGED <<control, shared, slot, myGen, probe, held, uploads, misled>>

-----------------------------------------------------------------------------
(***************************************************************************)
(* The barrier between blocks, and the last one to arrive                  *)
(***************************************************************************)
Arrive(b) ==
    /\ Go(b, 0, "arrive", "counted")
    /\ sArrival' = [sArrival EXCEPT ![b] = blocksDone]
    /\ blocksDone' = blocksDone + 1
    /\ UNCHANGED <<ctrl, exitNow, activeSlot, workQueue, generation, sChunk, slot, myGen, probe, done, held, uploads, misled>>

\* Bug: the block before the last takes itself for the last.
IsLastTooEarly(b) == sArrival[b] + 2 = Blocks

IsLast(b) == sArrival[b] + 1 = Blocks

Judge(b, t) ==
    /\ Go(b, t, "judge", IF t = 0 /\ IsLast(b) THEN "finish" ELSE "spin")
    /\ UNCHANGED <<control, shared, slot, myGen, probe, done, held, uploads, misled>>

Finish(b) ==
    /\ Go(b, 0, "finish", "reset")
    /\ ctrl' = [ctrl EXCEPT ![slot[b][0]] = "COMPLETE"]
    /\ UNCHANGED <<exitNow, activeSlot, workQueue, blocksDone, generation, shared, slot, myGen, probe, done, held, uploads, misled>>

Reset(b) ==
    /\ Go(b, 0, "reset", "exitCheck")
    /\ blocksDone' = 0
    /\ UNCHANGED <<ctrl, exitNow, activeSlot, workQueue, generation, shared, slot, myGen, probe, done, held, uploads, misled>>

\* Bug: on EXIT_NOW the last block leaves without telling the others.
ExitCheckAlone(b) ==
    /\ Go(b, 0, "exitCheck", IF exitNow THEN "gone" ELSE "rescan")
    /\ probe' = 0
    /\ UNCHANGED <<control, shared, slot, myGen, done, held, uploads, misled>>

ExitCheck(b) ==
    /\ Go(b, 0, "exitCheck", IF exitNow THEN "spin" ELSE "rescan")
    /\ generation' = IF exitNow THEN -1 ELSE generation
    /\ probe' = 0
    /\ UNCHANGED <<ctrl, exitNow, activeSlot, workQueue, blocksDone, shared, slot, myGen, done, held, uploads, misled>>

\* "No more work": one empty scan retires every block of the nonce.
Retire(b) ==
    /\ probe = 2 /\ ctrl[probe] # "READY"
    /\ Go(b, 0, "rescan", "spin")
    /\ generation' = -1
    /\ UNCHANGED <<ctrl, exitNow, activeSlot, workQueue, blocksDone, shared, slot, myGen, probe, done, held, uploads, misled>>

\* The next model: ACTIVE_SLOT and WORK_QUEUE, a fence, then GENERATION.
Hand(b) ==
    /\ Go(b, 0, "hand", "advance")
    /\ activeSlot' = probe
    /\ workQueue' = 0
    /\ UNCHANGED <<ctrl, exitNow, blocksDone, generation, shared, slot, myGen, probe, done, held, uploads, misled>>

Advance(b) ==
    /\ Go(b, 0, "advance", "spin")
    /\ generation' = generation + 1
    /\ UNCHANGED <<ctrl, exitNow, activeSlot, workQueue, blocksDone, shared, slot, myGen, probe, done, held, uploads, misled>>

\* Every thread spins until GENERATION passes its own, or turns negative.
Spin(b, t) ==
    /\ \/ generation > myGen[b][t] /\ Go(b, t, "spin", "regroup")
       \/ generation < 0 /\ Go(b, t, "spin", "gone")
    /\ UNCHANGED <<control, shared, slot, myGen, probe, done, held, uploads, misled>>

Reload(b, t) ==
    /\ Go(b, t, "reload", ToSteal(t))
    /\ myGen' = [myGen EXCEPT ![b][t] = @ + 1]
    /\ slot' = [slot EXCEPT ![b][t] = activeSlot]
    /\ UNCHANGED <<control, shared, probe, done, held, uploads, misled>>

-----------------------------------------------------------------------------
LeadThread(b) ==
    \/ ScanHit(b) \/ ScanMiss(b) \/ ClaimEnds(b) \/ ClaimAgain(b) \/ ClaimExit(b)
    \/ Setup(b) \/ Open(b) \/ Await(b) \/ Steal(b)
    \/ Arrive(b) \/ Finish(b) \/ Reset(b) \/ ExitCheck(b) \/ Retire(b) \/ Hand(b) \/ Advance(b)

EveryThread(b, t) ==
    \/ Enter(b, t) \/ TookNone(b, t) \/ TookEmpty(b, t) \/ TookReads(b, t)
    \/ Judge(b, t) \/ Spin(b, t) \/ Reload(b, t)

Host == SetExitNow \/ Deliver \/ \E s \in Slot : Upload(s)

AllGone == \A b \in Block, t \in Thread : pc[b][t] = "gone"

\* No thread has read a later chunk than the one thread 0 dealt it.
InStep == "chunk" \notin misled

\* The nonce is at its end, or its threads may wait for each other for ever.
Over == (AllGone \/ ~InStep) /\ UNCHANGED vars

Next == \/ Host
        \/ \E b \in Block : LeadThread(b) \/ Syncthreads(b) \/ \E t \in Thread : EveryThread(b, t)
        \/ Over

Spec == Init /\ [][Next]_vars

\* Every block is resident (one per SM), so each of its threads runs.
Fairness == \A b \in Block : /\ WF_vars(LeadThread(b))
                             /\ WF_vars(Syncthreads(b))
                             /\ \A t \in Thread : WF_vars(EveryThread(b, t))

FairSpec == Spec /\ Fairness

-----------------------------------------------------------------------------
(***************************************************************************)
(* Properties                                                              *)
(***************************************************************************)
\* Where a thread works with its slot: the reads of a chunk, the publication.
UsesSlot(b, t) == \/ pc[b][t] = "took" /\ sChunk[b] < Blocks
                  \/ pc[b][t] \in {"packed", "finish"}
OnSlot(b, t)   == slot[b][t] = activeSlot /\ ctrl[activeSlot] = "ACTIVE"

\* Every thread of every block anneals, and publishes, the one slot that was
\* claimed: the generation counter "prevents multiple blocks from claiming
\* different slots", and a late thread never mixes two models.
OneSlotPerModel == \A b \in Block, t \in Thread : UsesSlot(b, t) => OnSlot(b, t)

\* What a chunk taken for the slot spoils: the first model of the lead block's
\* late threads, and the sums they add to; never what thread 0 does.
Misled(b, t) == "slot" \in misled /\ b = 0 /\ t = 1 /\ myGen[b][t] = 1
Sound(t)     == t = 0 \/ "slot" \notin misled

\* A slot the host may read back was annealed in full: every thread did its
\* share of every chunk, once (the energies are sums: twice is wrong too).
CompleteIsWhole ==
    \A s \in Slot : ctrl[s] = "COMPLETE" => \A c \in Share, t \in Thread : Sound(t) => done[s][c][t] = 1

\* The blocks anneal one model at a time, and all of it, whatever the timing:
\* a read of s_chunk that comes too late harms no more than its own thread.
ModelsWhole ==
    InStep => /\ TypeOK
              /\ \A b \in Block, t \in Thread : UsesSlot(b, t) /\ ~Misled(b, t) => OnSlot(b, t)
              /\ CompleteIsWhole

\* The threads of a block meet at the same __syncthreads call, but for one
\* way apart: a thread overtaken behind an empty chunk.
BarriersMatch ==
    InStep => \A b \in Block :
                  (\A t \in Thread : pc[b][t] \in Barrier) => pc[b][0] = pc[b][1]

\* Seen from the control words and from thread 0 of each block, the blocks are
\* one worker, also when a late thread took a chunk for its slot (what that
\* does to a model is in ModelsWhole).
Annealed == {c \in Share : \E s \in Slot : ctrl[s] = "ACTIVE" /\ done[s][c][0] = 1}

Worker == INSTANCE NonceWorker WITH
            Chunk    <- Share,
            annealed <- Annealed,
            leaving  <- generation = -1

ImplementsWorker == Worker!Init /\ [][InStep => Worker!Next]_(Worker!vars)

\* After EXIT_NOW no block of the nonce stays behind: the launch ends, and
\* with it wait_exit.
AllLeave == exitNow ~> AllGone

\* So it does as long as the threads of a block meet, chunks taken for slots
\* or not.
AllLeaveInStep == exitNow ~> (AllGone \/ ~InStep)

=============================================================================
