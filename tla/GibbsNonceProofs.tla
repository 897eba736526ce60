-------------------------- MODULE GibbsNonceProofs ---------------------------
(***************************************************************************)
(* The blocks of a Gibbs nonce, however many, anneal one model at a time   *)
(* and all of it, keep to their barriers, and are together one worker      *)
(* (NonceWorker).                                                          *)
(*                                                                         *)
(* The threads run at any pace: a thread of a block may be overtaken       *)
(* between a barrier and its read of s_chunk.  Behind an empty chunk that  *)
(* breaks the block's barriers, and IInv says nothing of what follows      *)
(* (InStep); otherwise it can only spoil what the late thread itself adds  *)
(* to the lead block's first model (Misled, Sound).                        *)
(*                                                                         *)
(* The argument: each generation is one model.  No block closes it before  *)
(* every block has found the work queue past the last chunk (OneCloser,    *)
(* ArrivalsCounted), at which point every chunk was dealt to one block     *)
(* (DealtOnce) and both its threads have annealed it (ChunksAnnealed);     *)
(* until the closing block publishes, the ACTIVE slot and the words it is  *)
(* read from stand still (OneActive, Registers), and from then to the next *)
(* generation no other block reads them.  IInv is the conjunction;         *)
(* SyncthreadsStep and StealStep are where the barriers matter.            *)
(***************************************************************************)
EXTENDS GibbsNonce, FiniteSetTheorems, TLAPS

(***************************************************************************)
(* The program counters of thread 0 once its block is counted in, up to    *)
(* the next generation (ClosePc: as the last block), and of those PastPc,  *)
(* where the model is published and the next one not yet open.             *)
(***************************************************************************)
ClosePc == {"finish", "reset", "exitCheck", "rescan", "hand", "advance"}
PastPc  == {"reset", "exitCheck", "rescan", "hand", "advance"}
CountPc == {"counted", "judge", "spin"}

None(b)  == sChunk[b] >= Blocks
Whole(b) == sChunk[b] \in Share

\* The model, numbered like GENERATION, a thread is working for.
Model(b, t) == IF pc[b][t] = "reload" THEN myGen[b][t] + 1 ELSE myGen[b][t]

\* Where the two threads of a block can be at the same time.
Pair(b) ==
    \/ pc[b][0] \in {"claim", "claimEnd", "setup", "open"} /\ b = 0 /\ pc[b][1] = "announced"
    \/ pc[b][0] = "await" /\ b # 0 /\ pc[b][1] = "announced"
    \/ pc[b][0] = "announced" /\ pc[b][1] = "announced"
    \/ pc[b][0] = "enter" /\ sChunk[b] < 0 /\ pc[b][1] \in {"enter", "gone"}
    \/ pc[b][0] = "enter" /\ sChunk[b] >= 0 /\ pc[b][1] \in {"enter", "dealt"}
    \/ pc[b][0] = "steal" /\ pc[b][1] \in {"dealt", "reload"}
    \/ pc[b][0] = "steal" /\ pc[b][1] = "enter" /\ sChunk[b] >= 0
    \/ pc[b][0] = "steal" /\ pc[b][1] = "took" /\ sChunk[b] \in Chunk \cap EmptyChunk
    \/ pc[b][0] = "dealt" /\ pc[b][1] \in {"dealt", "reload", "enter"} /\ sChunk[b] >= 0
    \/ pc[b][0] = "dealt" /\ pc[b][1] = "took" /\ sChunk[b] \in Chunk \cap EmptyChunk
    \/ pc[b][0] = "took" /\ pc[b][1] = "took" /\ sChunk[b] >= 0
    \/ pc[b][0] = "took" /\ pc[b][1] = "dealt" /\ sChunk[b] \in Chunk \cap EmptyChunk
    \/ pc[b][0] = "took" /\ pc[b][1] = "packed" /\ Whole(b)
    \/ pc[b][0] = "packed" /\ pc[b][1] \in {"took", "packed"} /\ Whole(b)
    \/ pc[b][0] = "took" /\ pc[b][1] = "counted" /\ None(b)
    \/ pc[b][0] \in {"arrive", "counted"} /\ pc[b][1] \in {"took", "counted"} /\ None(b)
    \/ pc[b][0] \in {"judge", "spin"} /\ pc[b][1] \in {"judge", "spin", "regroup", "gone"} /\ None(b)
    \/ pc[b][0] \in ClosePc /\ pc[b][1] \in {"judge", "spin"} /\ None(b)
    \/ pc[b][0] = "regroup" /\ pc[b][1] \in {"judge", "spin", "regroup"} /\ None(b)
    \/ pc[b][0] = "reload" /\ pc[b][1] \in {"reload", "dealt"}
    \/ pc[b][0] = "gone" /\ pc[b][1] \in {"enter", "gone"} /\ sChunk[b] < 0
    \/ pc[b][0] = "gone" /\ pc[b][1] \in {"judge", "spin", "gone"} /\ None(b)

Paired == \A b \in Block : Pair(b)

\* Before the first model.
Waiting(b) == /\ pc[b][0] \in {"claim", "claimEnd", "setup", "open", "await"}
              /\ myGen[b][0] = 1 /\ myGen[b][1] = 1

\* In the model that is open, or being closed.
Working(b) == /\ Model(b, 0) = generation /\ Model(b, 1) = generation
              /\ pc[b][0] \notin {"claim", "claimEnd", "setup", "open", "regroup", "gone"}
              /\ pc[b][1] \notin {"regroup", "gone"}
              /\ pc[b][0] = "await" => generation = 1

\* Not yet woken for it.
Waking(b) == /\ Model(b, 0) = generation - 1 /\ Model(b, 1) = generation - 1
             /\ pc[b][0] \in CountPc \cup {"regroup"}
             /\ pc[b][1] \in CountPc \cup {"took", "regroup"}

\* On the way out.
Leaving(b) == /\ pc[b][0] \in CountPc \cup {"await", "announced", "enter", "gone"}
              /\ pc[b][1] \notin {"regroup", "reload"}

Stage ==
    /\ generation = 0 => \A b \in Block : Waiting(b)
    /\ generation >= 1 => \A b \in Block : Working(b) \/ Waking(b)
    /\ generation = -1 => \A b \in Block : Leaving(b)

\* The slot thread 0 of a block announces, for as long as a thread that is
\* not misled has yet to read it.
Entry ==
    \A b \in Block :
        /\ pc[b][0] \in {"announced", "enter"} \/ pc[b][1] = "enter" =>
              generation # 0 /\ (sChunk[b] < 0 <=> generation < 0)
        /\ pc[b][1] \in {"announced", "enter"} => myGen[b][1] = 1
        /\ b = 0 /\ generation > 0 =>
              /\ pc[b][0] \in {"announced", "enter"} => sChunk[b] = activeSlot
              /\ pc[b][1] = "enter" /\ "slot" \notin misled => sChunk[b] = activeSlot

\* The last block to arrive: there is one, and only when all are counted in.
Closer(b) == \/ pc[b][0] \in ClosePc
             \/ pc[b][0] \in {"counted", "judge"} /\ IsLast(b)

OneCloser ==
    \A b \in Block : Closer(b) =>
        /\ generation >= 1
        /\ \A c \in Block : /\ Model(c, 0) = generation
                            /\ pc[c][0] \in CountPc \cup ClosePc
                            /\ c # b => ~Closer(c)

Published == \E b \in Block : pc[b][0] \in PastPc

\* CTRL_BLOCKS_DONE counts the blocks that have arrived.
Arrived == {b \in Block : /\ Model(b, 0) = generation
                          /\ pc[b][0] \in CountPc \cup {"finish", "reset"}}

ArrivalsCounted ==
    /\ \A b \in Block : pc[b][0] \in {"exitCheck", "rescan", "hand", "advance"} => blocksDone = 0
    /\ generation >= 1 /\ (\A b \in Block : pc[b][0] \notin {"exitCheck", "rescan", "hand", "advance"})
            => blocksDone = Cardinality(Arrived)

\* Past the last chunk, CTRL_WORK_QUEUE counts the blocks that found none.
Drained == {b \in Block : /\ Model(b, 0) = generation
                          /\ pc[b][0] \in CountPc \cup ClosePc \cup {"dealt", "took", "arrive"}
                          /\ None(b)}

QueueCounted ==
    /\ \A b \in Block : pc[b][0] = "advance" => workQueue = 0
    /\ generation >= 1 /\ (\A b \in Block : pc[b][0] # "advance")
            => \/ workQueue <= Blocks /\ Drained = {}
               \/ workQueue = Blocks + Cardinality(Drained)

\* A chunk is dealt once, and annealed unless a thread still has it to do.
Deals(b)    == pc[b][0] \in {"dealt", "took"} \/ pc[b][1] = "took"
Holds(b, t) == \/ t = 0 /\ pc[b][0] \in {"dealt", "took"}
               \/ t = 1 /\ (pc[b][0] = "dealt" \/ pc[b][1] = "took")

DealtOnce ==
    \A b \in Block : Deals(b) /\ ~None(b) =>
        /\ sChunk[b] < workQueue
        /\ \A c \in Block \ {b} : Deals(c) => sChunk[c] # sChunk[b]

ChunksAnnealed ==
    generation >= 1 /\ ~Published =>
        \A c \in Share, t \in Thread : Sound(t) =>
            done[activeSlot][c][t] =
                IF c < workQueue /\ \A b \in Block : Holds(b, t) => sChunk[b] # c THEN 1 ELSE 0

\* No sound thread has annealed a share of the slot's model.
Wiped(s) == \A c \in Share, t \in Thread : Sound(t) => done[s][c][t] = 0

\* The slots the nonce has claimed: one, from the claim to the publication.
Active == {s \in Slot : ctrl[s] = "ACTIVE"}

OneActive ==
    /\ pc[0][0] \in {"claim", "claimEnd"} => Active = {}
    /\ pc[0][0] \in {"setup", "open"} => Active = {probe} /\ Wiped(probe)
    /\ pc[0][0] = "open" => activeSlot = probe /\ workQueue = 0 /\ blocksDone = 0
    /\ generation = -1 => Active = {}
    /\ \A b \in Block :
          /\ pc[b][0] \in {"reset", "exitCheck", "rescan"} => Active = {}
          /\ pc[b][0] = "hand" => Active = {probe} /\ Wiped(probe)
          /\ pc[b][0] = "advance" => Active = {activeSlot} /\ Wiped(activeSlot)
    /\ generation >= 1 /\ ~Published => Active = {activeSlot}

\* The slots the threads have read, but for the misled.
ReadSide == {"steal", "dealt", "took", "packed", "arrive", "counted", "judge", "finish"}

Registers ==
    generation >= 1 /\ ~Published =>
        \A b \in Block, t \in Thread :
            /\ Model(b, t) = generation
            /\ pc[b][t] \in ReadSide
            /\ ~Misled(b, t)
            => slot[b][t] = activeSlot

\* READY is written on a slot that is wiped and taken, and stays taken.
Handed == \A s \in Slot : /\ ctrl[s] = "READY" => Wiped(s)
                          /\ ctrl[s] \in {"READY", "ACTIVE"} => Taken(s)

\* Every generation is a model the host handed over.
Ready(s) == IF ctrl[s] = "READY" THEN 1 ELSE 0
Waits    == Ready(0) + Ready(1) + Ready(2)

Claims ==
    generation >= 0 =>
        /\ generation + Waits <= uploads
        /\ \A b \in Block : pc[b][0] \in {"setup", "open", "hand", "advance"} => generation + 1 + Waits <= uploads

IInv == /\ TypeOK /\ Paired /\ Stage /\ Entry /\ OneCloser /\ ArrivalsCounted /\ QueueCounted
        /\ DealtOnce /\ ChunksAnnealed /\ OneActive /\ Registers /\ Handed /\ Claims
        /\ CompleteIsWhole

-----------------------------------------------------------------------------
(***************************************************************************)
(* Facts every step uses                                                   *)
(***************************************************************************)
LEMMA Basics ==
    ASSUME TypeOK
    PROVE  /\ 0 \in Thread /\ 1 \in Thread /\ \A t \in Thread : t = 0 \/ t = 1
           /\ Blocks \in Nat /\ Blocks >= 1 /\ 0 \in Block /\ MaxUploads \in Nat
           /\ generation \in Int /\ generation >= -1 /\ generation <= MaxUploads
           /\ workQueue \in Nat /\ blocksDone \in Nat
           /\ \A c \in Block : sChunk[c] \in Int /\ sArrival[c] \in Nat
           /\ activeSlot \in Slot /\ probe \in Slot
<1>1. /\ 0 \in Thread /\ 1 \in Thread /\ \A t \in Thread : t = 0 \/ t = 1
      /\ Blocks \in Nat /\ Blocks >= 1 /\ 0 \in Block /\ MaxUploads \in Nat
  BY Assumption DEF Thread, Block
<1>2. \A c \in Block : sArrival[c] \in Nat
  <2>1. \A c \in Block : sArrival[c] \in Block
    BY DEF TypeOK
  <2>. QED BY <1>1, <2>1 DEF Block
<1>. QED BY <1>1, <1>2 DEF TypeOK

LEMMA Moves ==
    ASSUME TypeOK, NEW b \in Block, NEW t \in Thread, NEW from, NEW to \in Pc,
           Go(b, t, from, to)
    PROVE  /\ pc' \in [Block -> [Thread -> Pc]]
           /\ pc[b][t] = from /\ pc'[b][t] = to
           /\ \A c \in Block, u \in Thread : c # b \/ u # t => pc'[c][u] = pc[c][u]
BY DEF Go, TypeOK

\* Until the nonce has opened its first model.
LEMMA PairAtStart ==
    ASSUME NEW b \in Block, Pair(b)
    PROVE  /\ pc[b][0] \in {"claim", "claimEnd", "setup", "open"} => b = 0 /\ pc[b][1] = "announced"
           /\ pc[b][0] = "await" => b # 0 /\ pc[b][1] = "announced"
BY DEF Pair, ClosePc

LEMMA PairKept ==
    ASSUME NEW c \in Block,
           pc'[c][0] = pc[c][0], pc'[c][1] = pc[c][1], sChunk'[c] = sChunk[c], Pair(c)
    PROVE  Pair(c)'
BY DEF Pair, None, Whole

LEMMA Staged ==
    ASSUME TypeOK, Stage, NEW b \in Block
    PROVE  \/ generation = 0 /\ Waiting(b)
           \/ generation >= 1 /\ (Working(b) \/ Waking(b))
           \/ generation = -1 /\ Leaving(b)
<1>1. generation \in Int /\ generation >= -1
  BY Basics
<1>. QED BY <1>1 DEF Stage

\* When the last block closes a model the others are counted in and wait.
LEMMA Closing ==
    ASSUME IInv, NEW b \in Block, Closer(b)
    PROVE  /\ generation >= 1 /\ Model(b, 0) = generation /\ Working(b)
           /\ \A c \in Block : c # b =>
                  /\ pc[c][0] \in CountPc /\ ~Closer(c) /\ None(c)
                  /\ Model(c, 0) = generation /\ Working(c)
<1>1. generation >= 1 /\ \A c \in Block : Model(c, 0) = generation /\ (c # b => ~Closer(c))
  BY DEF IInv, OneCloser
<1>2. ASSUME NEW c \in Block, c # b PROVE pc[c][0] \in CountPc /\ None(c)
  <2>1. pc[c][0] \in CountPc
    BY <1>1, <1>2 DEF IInv, OneCloser, Closer
  <2>. QED BY <2>1 DEF IInv, Paired, Pair, CountPc, ClosePc
<1>3. ASSUME NEW c \in Block PROVE Working(c)
  BY <1>1, Staged, Basics DEF IInv, Waking
<1>. QED BY <1>1, <1>2, <1>3

\* While some block still has chunks to ask for, none closes the model.
LEMMA Unclosed ==
    ASSUME IInv, NEW b \in Block, pc[b][0] \notin CountPc \cup ClosePc
    PROVE  /\ \A c \in Block : ~Closer(c)
           /\ ~Published
<1>1. \A c \in Block : ~Closer(c)
  BY DEF IInv, OneCloser
<1>. QED BY <1>1 DEF Closer, Published, PastPc, ClosePc

\* Counting blocks.
LEMMA BlocksCounted ==
    ASSUME Blocks \in Nat, NEW S \in SUBSET Block
    PROVE  /\ IsFiniteSet(S) /\ Cardinality(S) \in 0..Blocks
           /\ Cardinality(S) = 0 <=> S = {}
           /\ Cardinality(S) = Blocks <=> S = Block
<1>1. IsFiniteSet(Block) /\ Cardinality(Block) = Blocks
  BY FS_Interval DEF Block
<1>2. /\ IsFiniteSet(S) /\ Cardinality(S) <= Blocks
      /\ Cardinality(S) = Blocks => S = Block
  BY <1>1, FS_Subset
<1>. QED BY <1>1, <1>2, FS_CardinalityType, FS_EmptySet

LEMMA OneMoreBlock ==
    ASSUME Blocks \in Nat, NEW S \in SUBSET Block, NEW b \in Block, b \notin S
    PROVE  Cardinality(S \cup {b}) = Cardinality(S) + 1
BY BlocksCounted, FS_AddElement

LEMMA WordsKept ==
    ASSUME TypeOK, Handed, CompleteIsWhole, UNCHANGED <<ctrl, done, held, misled>>
    PROVE  Handed' /\ CompleteIsWhole'
BY DEF Handed, CompleteIsWhole, Taken, Wiped, Sound

-----------------------------------------------------------------------------
(***************************************************************************)
(* Steps of one block that write no control word                           *)
(***************************************************************************)
\* A step of block b leaves the control words and the other blocks alone ...
Aside(b) ==
    /\ UNCHANGED <<ctrl, activeSlot, workQueue, blocksDone, generation, shared, done, held, uploads, misled>>
    /\ probe' = probe \/ pc'[0][0] = "claim"
    /\ \A c \in Block, u \in Thread : c # b =>
          pc'[c][u] = pc[c][u] /\ slot'[c][u] = slot[c][u] /\ myGen'[c][u] = myGen[c][u]

\* ... and b on the same side of everything that counts blocks or chunks.
CountSide == CountPc \cup ClosePc

KeepsStage(b) ==
    /\ Waiting(b) => Waiting(b)'
    /\ generation >= 1 /\ (Working(b) \/ Waking(b)) => (Working(b) \/ Waking(b))'
    /\ generation = -1 /\ Leaving(b) => Leaving(b)'
    /\ pc'[b][0] \in {"announced", "enter"} => pc[b][0] \in {"announced", "enter"}
    /\ pc'[b][1] = "enter" => pc[b][1] = "enter" \/ pc[b][0] = "announced"
    /\ pc'[b][1] \in {"announced", "enter"} => pc[b][1] \in {"announced", "enter"} /\ myGen'[b][1] = myGen[b][1]
    /\ pc'[b][0] # pc[b][0] =>
            /\ pc'[b][0] \notin PastPc \cup {"setup", "open"}
            /\ pc[b][0] \notin PastPc \cup {"setup", "open"}
            /\ pc'[b][0] \in {"claim", "claimEnd"} => pc[b][0] \in {"claim", "claimEnd"}

KeepsCounts(b) ==
    /\ Closer(b)' <=> Closer(b)
    /\ Model(b, 0) = generation /\ pc[b][0] \in CountSide =>
            Model(b, 0)' = generation /\ pc'[b][0] \in CountSide
    /\ generation >= 1 => (b \in Arrived <=> (b \in Arrived)') /\ (b \in Drained <=> (b \in Drained)')

KeepsChunks(b) ==
    /\ Deals(b)' => Deals(b)
    /\ sChunk[b] \in Share => \A t \in Thread : Holds(b, t)' <=> Holds(b, t)
    /\ \A t \in Thread :
            generation >= 1 /\ ~Published /\ Model(b, t)' = generation /\ pc'[b][t] \in ReadSide /\ ~Misled(b, t)'
            => slot'[b][t] = activeSlot

Quiet(b) == Pair(b)' /\ KeepsStage(b) /\ KeepsCounts(b) /\ KeepsChunks(b)

LEMMA LocalStep ==
    ASSUME IInv, TypeOK', NEW b \in Block, Aside(b), Quiet(b)
    PROVE  IInv'
<1>. /\ TypeOK /\ 0 \in Thread /\ 1 \in Thread /\ 0 \in Block /\ Blocks \in Nat
  BY Basics DEF IInv
<1>1. /\ \A c \in Block, u \in Thread : c # b => Model(c, u)' = Model(c, u)
      /\ \A c \in Block : c # b => pc'[c][0] = pc[c][0] /\ pc'[c][1] = pc[c][1]
      /\ sChunk' = sChunk /\ sArrival' = sArrival
      /\ UNCHANGED <<ctrl, activeSlot, workQueue, blocksDone, generation, done, held, uploads, misled>>
  BY DEF Model, shared, Aside
<1>2. Paired'
  BY <1>1, PairKept DEF IInv, Paired, Quiet
<1>3. Stage'
  <2>1. ASSUME NEW c \in Block, c # b
        PROVE  /\ Waiting(c) => Waiting(c)'
               /\ Working(c) \/ Waking(c) => Working(c)' \/ Waking(c)'
               /\ Leaving(c) => Leaving(c)'
    BY <1>1, <2>1 DEF Waiting, Working, Waking, Leaving, Aside
  <2>. QED BY <2>1, <1>1 DEF IInv, Stage, Quiet, KeepsStage
<1>4. Entry'
  BY <1>1 DEF IInv, Entry, Quiet, KeepsStage, Aside
<1>5. \A c \in Block : Closer(c)' <=> Closer(c)
  BY <1>1 DEF Closer, IsLast, Quiet, KeepsCounts
<1>6. OneCloser'
  BY <1>1, <1>5 DEF IInv, OneCloser, Quiet, KeepsCounts, CountSide
<1>7. ArrivalsCounted'
  <2>1. generation >= 1 => Arrived' = Arrived
    <3>1. ASSUME NEW c \in Block, generation >= 1 PROVE c \in Arrived <=> (c \in Arrived)'
      BY <1>1, <3>1 DEF Arrived, Quiet, KeepsCounts
    <3>. QED BY <3>1 DEF Arrived
  <2>2. ASSUME NEW c \in Block, NEW p \in PastPc PROVE pc'[c][0] = p <=> pc[c][0] = p
    BY <1>1 DEF Quiet, KeepsStage
  <2>. QED BY <2>1, <2>2, <1>1 DEF IInv, ArrivalsCounted, PastPc
<1>8. QueueCounted'
  <2>1. generation >= 1 => Drained' = Drained
    <3>1. ASSUME NEW c \in Block, generation >= 1 PROVE c \in Drained <=> (c \in Drained)'
      BY <1>1, <3>1 DEF Drained, None, Quiet, KeepsCounts, CountSide
    <3>. QED BY <3>1 DEF Drained
  <2>2. ASSUME NEW c \in Block, NEW p \in PastPc PROVE pc'[c][0] = p <=> pc[c][0] = p
    BY <1>1 DEF Quiet, KeepsStage
  <2>. QED BY <2>1, <2>2, <1>1 DEF IInv, QueueCounted, PastPc
<1>9. Published' <=> Published
  BY <1>1 DEF Published, Quiet, KeepsStage
<1>10. DealtOnce'
  <2>1. \A c \in Block : Deals(c)' => Deals(c)
    BY <1>1 DEF Deals, Quiet, KeepsChunks
  <2>. QED BY <2>1, <1>1 DEF IInv, DealtOnce, None
<1>11. ChunksAnnealed'
  <2>1. ASSUME NEW c \in Block, NEW t \in Thread, sChunk[c] \in Share PROVE Holds(c, t)' <=> Holds(c, t)
    BY <1>1, <2>1 DEF Holds, Quiet, KeepsChunks
  <2>. QED BY <1>1, <1>9, <2>1 DEF IInv, ChunksAnnealed, Sound
<1>12. OneActive'
  <2>1. /\ Active' = Active
        /\ activeSlot' = activeSlot => (Wiped(activeSlot)' <=> Wiped(activeSlot))
        /\ probe' = probe => (Wiped(probe)' <=> Wiped(probe))
    BY DEF Active, Wiped, Sound, Aside
  <2>2. /\ pc'[0][0] \in {"claim", "claimEnd"} => pc[0][0] \in {"claim", "claimEnd"}
        /\ pc'[0][0] = "setup" <=> pc[0][0] = "setup"
        /\ pc'[0][0] = "open" <=> pc[0][0] = "open"
        /\ \A c \in Block, p \in PastPc : pc'[c][0] = p <=> pc[c][0] = p
    BY <1>1 DEF Quiet, KeepsStage
  <2>3. probe' = probe \/ (pc'[0][0] \notin {"setup", "open"} /\ \A c \in Block : pc'[c][0] # "hand")
    <3>1. CASE probe' = probe
      BY <3>1
    <3>2. CASE pc'[0][0] = "claim"
      <4>1. generation = 0
        BY <2>2, <3>2, Staged DEF IInv, Working, Waking, Leaving, CountPc
      <4>. QED BY <4>1, <3>2, <2>2, Staged DEF IInv, Waiting, PastPc
    <3>. QED BY <3>1, <3>2 DEF Aside
  <2>4. ASSUME NEW c \in Block
        PROVE  /\ pc'[c][0] \in {"reset", "exitCheck", "rescan"} => Active' = {}
               /\ pc'[c][0] = "hand" => Active' = {probe'} /\ Wiped(probe)'
               /\ pc'[c][0] = "advance" => Active' = {activeSlot'} /\ Wiped(activeSlot)'
    BY <1>1, <2>1, <2>2, <2>3 DEF IInv, OneActive, PastPc
  <2>5. /\ pc'[0][0] \in {"claim", "claimEnd"} => Active' = {}
        /\ pc'[0][0] \in {"setup", "open"} => Active' = {probe'} /\ Wiped(probe)'
        /\ pc'[0][0] = "open" => activeSlot' = probe' /\ workQueue' = 0 /\ blocksDone' = 0
        /\ generation' = -1 => Active' = {}
        /\ generation' >= 1 /\ ~Published' => Active' = {activeSlot'}
    <3>1. /\ pc'[0][0] \in {"claim", "claimEnd"} => Active' = {}
          /\ generation' = -1 => Active' = {}
      BY <1>1, <2>1, <2>2 DEF IInv, OneActive
    <3>2. /\ pc'[0][0] \in {"setup", "open"} => Active' = {probe'} /\ Wiped(probe)'
      BY <1>1, <2>1, <2>2, <2>3 DEF IInv, OneActive
    <3>3. pc'[0][0] = "open" => activeSlot' = probe' /\ workQueue' = 0 /\ blocksDone' = 0
      BY <1>1, <2>2, <2>3 DEF IInv, OneActive
    <3>4. generation' >= 1 /\ ~Published' => Active' = {activeSlot'}
      BY <1>1, <2>1, <1>9 DEF IInv, OneActive
    <3>. QED BY <3>1, <3>2, <3>3, <3>4
  <2>. QED BY <2>1, <2>4, <2>5 DEF OneActive
<1>13. Registers'
  BY <1>1, <1>9 DEF IInv, Registers, Misled, Aside, Quiet, KeepsChunks
<1>14. Handed' /\ CompleteIsWhole'
  BY <1>1, WordsKept DEF IInv
<1>15. Claims'
  BY <1>1 DEF IInv, Claims, Waits, Ready, PastPc, Quiet, KeepsStage
<1>. QED BY <1>2, <1>3, <1>4, <1>6, <1>7, <1>8, <1>10, <1>11, <1>12, <1>13, <1>14, <1>15 DEF IInv

LEMMA TookNoneStep ==
    ASSUME IInv, NEW b \in Block, NEW t \in Thread, TookNone(b, t)
    PROVE  IInv'
<1>1. TypeOK /\ Pair(b) /\ (t = 0 \/ t = 1) /\ None(b) /\ 0 \in Thread /\ 1 \in Thread /\ Blocks \in Nat /\ sChunk[b] \in Int
  BY Basics DEF IInv, Paired, TookNone, None
<1>2. /\ pc' \in [Block -> [Thread -> Pc]]
      /\ pc[b][t] = "took" /\ pc'[b][t] = IF t = 0 THEN "arrive" ELSE "counted"
      /\ \A c \in Block, u \in Thread : c # b \/ u # t => pc'[c][u] = pc[c][u]
  BY <1>1, Moves DEF TookNone, Pc, Barrier
<1>3. UNCHANGED <<control, shared, slot, myGen, probe, done, held, uploads, misled>>
  BY DEF TookNone
<1>4. TypeOK'
  BY <1>1, <1>2, <1>3 DEF TypeOK, control, shared
<1>5. Aside(b)
  BY <1>2, <1>3 DEF Aside, control
<1>6. Quiet(b)
  <2>1. Pair(b)'
    BY <1>1, <1>2, <1>3 DEF Pair, None, Whole, shared, ClosePc, Share, Chunk
  <2>2. KeepsStage(b)
    BY <1>1, <1>2, <1>3 DEF KeepsStage, control, Pair, Model, Waiting, Working, Waking, Leaving, CountPc, ClosePc, PastPc
  <2>3. KeepsCounts(b)
    BY <1>1, <1>2, <1>3 DEF KeepsCounts, control, shared, Pair, Model, Closer, IsLast, None, CountPc, ClosePc, CountSide, Arrived, Drained
  <2>4. KeepsChunks(b)
    BY <1>1, <1>2, <1>3 DEF KeepsChunks, Deals, Holds, shared, Pair, Model, None, Whole, ClosePc, ReadSide, IInv, Registers, Misled, Share, Chunk
  <2>. QED BY <2>1, <2>2, <2>3, <2>4 DEF Quiet
<1>. QED BY <1>4, <1>5, <1>6, LocalStep

LEMMA ClaimEndsStep ==
    ASSUME IInv, NEW b \in Block, ClaimEnds(b)
    PROVE  IInv'
<1>1. /\ TypeOK /\ Pair(b) /\ 0 \in Thread /\ 1 \in Thread
      /\ Blocks \in Nat /\ sChunk[b] \in Int /\ generation \in Int
  BY Basics DEF IInv, Paired
<1>2. /\ pc' \in [Block -> [Thread -> Pc]]
      /\ pc[b][0] = "claim" /\ pc'[b][0] = "claimEnd"
      /\ \A c \in Block, u \in Thread : c # b \/ u # 0 => pc'[c][u] = pc[c][u]
  BY <1>1, Moves DEF ClaimEnds, Pc, Barrier
<1>3. UNCHANGED <<control, shared, slot, myGen, probe, done, held, uploads, misled>>
  BY DEF ClaimEnds
<1>4. TypeOK'
  BY <1>1, <1>2, <1>3 DEF TypeOK, control, shared
<1>5. Aside(b)
  BY <1>1, <1>2, <1>3 DEF Aside, control
<1>6. Quiet(b)
  <2>1. Pair(b)'
    BY <1>1, <1>2, <1>3 DEF Pair, None, Whole, shared, ClosePc, Share, Chunk
  <2>2. KeepsStage(b)
    BY <1>1, <1>2, <1>3 DEF KeepsStage, control, Pair, Model, Waiting, Working, Waking, Leaving, CountPc, ClosePc, PastPc
  <2>3. KeepsCounts(b)
    BY <1>1, <1>2, <1>3 DEF KeepsCounts, control, shared, Pair, Model, Closer, IsLast, None, CountPc, ClosePc, CountSide, Arrived, Drained
  <2>4. KeepsChunks(b)
    BY <1>1, <1>2, <1>3 DEF KeepsChunks, Deals, Holds, shared, Pair, Model, None, Whole, ClosePc, ReadSide, IInv, Registers, Misled, Share, Chunk
  <2>. QED BY <2>1, <2>2, <2>3, <2>4 DEF Quiet
<1>. QED BY <1>4, <1>5, <1>6, LocalStep


LEMMA TookEmptyStep ==
    ASSUME IInv, NEW b \in Block, NEW t \in Thread, TookEmpty(b, t)
    PROVE  IInv'
<1>1. /\ TypeOK /\ Pair(b) /\ 0 \in Thread /\ 1 \in Thread /\ (t = 0 \/ t = 1)
      /\ Blocks \in Nat /\ sChunk[b] \in Int /\ generation \in Int
  BY Basics DEF IInv, Paired
<1>2. /\ pc' \in [Block -> [Thread -> Pc]]
      /\ pc[b][t] = "took" /\ pc'[b][t] = ToSteal(t)
      /\ \A c \in Block, u \in Thread : c # b \/ u # t => pc'[c][u] = pc[c][u]
  BY <1>1, Moves DEF TookEmpty, Pc, Barrier, ToSteal
<1>3. /\ UNCHANGED <<control, shared, slot, myGen, probe, done, held, uploads, misled>>
      /\ ~None(b) /\ sChunk[b] \in EmptyChunk
  BY <1>1 DEF TookEmpty, None
<1>4. TypeOK'
  BY <1>1, <1>2, <1>3 DEF TypeOK, control, shared, ToSteal
<1>5. Aside(b)
  BY <1>1, <1>2, <1>3 DEF Aside, control, ToSteal
<1>6. Quiet(b)
  <2>1. sChunk[b] \in Chunk \cap EmptyChunk /\ sChunk[b] >= 0 /\ ~Whole(b) /\ sChunk[b] \notin Share
    BY <1>1, <1>2, <1>3 DEF Pair, None, Whole, Share, Chunk, CountPc, ClosePc
  <2>2. \/ t = 0 /\ pc[b][1] \in {"took", "dealt"}
        \/ t = 1 /\ pc[b][0] \in {"took", "steal", "dealt"}
    BY <1>1, <1>2, <1>3, <2>1 DEF Pair, ClosePc
  <2>3. Pair(b)'
    BY <1>1, <1>2, <1>3, <2>1, <2>2 DEF Pair, shared, ToSteal
  <2>4. KeepsStage(b)
    BY <1>1, <1>2, <1>3, <2>2 DEF KeepsStage, control, Model, Waiting, Working, Waking, Leaving, CountPc, ClosePc, PastPc, ToSteal
  <2>5. KeepsCounts(b)
    BY <1>1, <1>2, <1>3, <2>2 DEF KeepsCounts, control, shared, Model, Closer, IsLast, None, CountPc, ClosePc, CountSide, Arrived, Drained, ToSteal
  <2>6. KeepsChunks(b)
    BY <1>1, <1>2, <1>3, <2>1, <2>2 DEF KeepsChunks, Deals, Model, ReadSide, IInv, Registers, Misled, ToSteal
  <2>. QED BY <2>3, <2>4, <2>5, <2>6 DEF Quiet
<1>. QED BY <1>4, <1>5, <1>6, LocalStep


LEMMA JudgeStep ==
    ASSUME IInv, NEW b \in Block, NEW t \in Thread, Judge(b, t)
    PROVE  IInv'
<1>1. /\ TypeOK /\ Pair(b) /\ 0 \in Thread /\ 1 \in Thread /\ (t = 0 \/ t = 1)
      /\ Blocks \in Nat /\ sChunk[b] \in Int /\ generation \in Int
  BY Basics DEF IInv, Paired
<1>2. /\ pc' \in [Block -> [Thread -> Pc]]
      /\ pc[b][t] = "judge" /\ pc'[b][t] = IF t = 0 /\ IsLast(b) THEN "finish" ELSE "spin"
      /\ \A c \in Block, u \in Thread : c # b \/ u # t => pc'[c][u] = pc[c][u]
  BY <1>1, Moves DEF Judge, Pc, Barrier
<1>3. UNCHANGED <<control, shared, slot, myGen, probe, done, held, uploads, misled>>
  BY DEF Judge
<1>4. t = 0 /\ IsLast(b) => generation >= 1 /\ Working(b)
  BY <1>1, <1>2, Closing DEF Closer
<1>5. None(b) /\ ~Waiting(b)
  BY <1>1, <1>2 DEF Pair, Waiting, ClosePc
<1>6. TypeOK'
  BY <1>1, <1>2, <1>3 DEF TypeOK, control, shared
<1>7. Aside(b)
  BY <1>1, <1>2, <1>3 DEF Aside, control
<1>8. Quiet(b)
  <2>1. Pair(b)'
    BY <1>1, <1>2, <1>3, <1>4, <1>5 DEF Pair, None, Working, shared, ClosePc
  <2>2. KeepsStage(b)
    BY <1>1, <1>2, <1>3, <1>4, <1>5 DEF KeepsStage, control, Pair, Model, Working, Waking, Leaving, CountPc, ClosePc, PastPc
  <2>3. KeepsCounts(b)
    BY <1>1, <1>2, <1>3, <1>4, <1>5 DEF KeepsCounts, control, shared, Pair, Model, Closer, IsLast, None, CountPc, ClosePc, CountSide, Arrived, Drained
  <2>4. KeepsChunks(b)
    BY <1>1, <1>2, <1>3, <1>4, <1>5 DEF KeepsChunks, Deals, Holds, shared, Pair, Model, None, Whole, ClosePc, ReadSide, IInv, Registers, Misled, Share, Chunk
  <2>. QED BY <2>1, <2>2, <2>3, <2>4 DEF Quiet
<1>. QED BY <1>6, <1>7, <1>8, LocalStep

LEMMA ClaimAgainStep ==
    ASSUME IInv, NEW b \in Block, ClaimAgain(b)
    PROVE  IInv'
<1>1. /\ TypeOK /\ Pair(b) /\ 0 \in Thread /\ 1 \in Thread
      /\ Blocks \in Nat /\ sChunk[b] \in Int /\ generation \in Int
  BY Basics DEF IInv, Paired
<1>2. /\ pc' \in [Block -> [Thread -> Pc]]
      /\ pc[b][0] = "claimEnd" /\ pc'[b][0] = "claim"
      /\ \A c \in Block, u \in Thread : c # b \/ u # 0 => pc'[c][u] = pc[c][u]
  BY <1>1, Moves DEF ClaimAgain, Pc, Barrier
<1>3. UNCHANGED <<control, shared, slot, myGen, done, held, uploads, misled>> /\ probe' = 0 /\ b = 0
  BY <1>1, <1>2 DEF ClaimAgain, Pair, ClosePc
<1>4. TypeOK'
  <2>1. probe' \in Slot
    BY <1>3 DEF Slot
  <2>. QED BY <1>1, <1>2, <1>3, <2>1 DEF TypeOK, control, shared
<1>5. Aside(b)
  BY <1>1, <1>2, <1>3 DEF Aside, control
<1>6. Quiet(b)
  <2>1. Pair(b)'
    BY <1>1, <1>2, <1>3 DEF Pair, None, Whole, shared, ClosePc, Share, Chunk
  <2>2. KeepsStage(b)
    BY <1>1, <1>2, <1>3 DEF KeepsStage, control, Pair, Model, Waiting, Working, Waking, Leaving, CountPc, ClosePc, PastPc
  <2>3. KeepsCounts(b)
    BY <1>1, <1>2, <1>3 DEF KeepsCounts, control, shared, Pair, Model, Closer, IsLast, None, CountPc, ClosePc, CountSide, Arrived, Drained
  <2>4. KeepsChunks(b)
    BY <1>1, <1>2, <1>3 DEF KeepsChunks, Deals, Holds, shared, Pair, Model, None, Whole, ClosePc, ReadSide, IInv, Registers, Misled, Share, Chunk
  <2>. QED BY <2>1, <2>2, <2>3, <2>4 DEF Quiet
<1>. QED BY <1>4, <1>5, <1>6, LocalStep

LEMMA EnterStep ==
    ASSUME IInv, NEW b \in Block, NEW t \in Thread, Enter(b, t)
    PROVE  IInv'
<1>1. /\ TypeOK /\ Pair(b) /\ 0 \in Thread /\ 1 \in Thread /\ (t = 0 \/ t = 1)
      /\ Blocks \in Nat /\ sChunk[b] \in Int /\ generation \in Int /\ generation >= -1
      /\ activeSlot \in Slot
  BY Basics DEF IInv, Paired
<1>2. /\ pc' \in [Block -> [Thread -> Pc]]
      /\ pc[b][t] = "enter" /\ pc'[b][t] = IF sChunk[b] < 0 THEN "gone" ELSE ToSteal(t)
      /\ \A c \in Block, u \in Thread : c # b \/ u # t => pc'[c][u] = pc[c][u]
  BY <1>1, Moves DEF Enter, Pc, Barrier, ToSteal
<1>3. /\ generation # 0 /\ (sChunk[b] < 0 <=> generation < 0)
      /\ generation > 0 /\ b = 0 /\ Sound(t) => sChunk[b] = activeSlot
  BY <1>1, <1>2 DEF IInv, Entry, Sound
<1>4. /\ UNCHANGED <<control, shared, myGen, probe, done, held, uploads, misled>>
      /\ slot' \in [Block -> [Thread -> Nat]]
      /\ \A c \in Block, u \in Thread : c # b \/ u # t => slot'[c][u] = slot[c][u]
      /\ generation > 0 /\ (b # 0 \/ Sound(t)) => slot'[b][t] = activeSlot
  <2>1. CASE sChunk[b] < 0
    BY <1>1, <1>3, <2>1 DEF Enter, TypeOK
  <2>2. CASE sChunk[b] >= 0
    <3>1. /\ slot' = [slot EXCEPT ![b][t] = IF b = 0 THEN sChunk[b] ELSE activeSlot]
          /\ sChunk[b] \in Nat /\ activeSlot \in Nat
      BY <1>1, <2>2 DEF Enter, Slot
    <3>. QED BY <1>1, <1>3, <3>1 DEF Enter, TypeOK
  <2>. QED BY <1>1, <2>1, <2>2
<1>5. /\ ~Waiting(b)
      /\ generation >= 1 => Working(b)
      /\ generation = -1 => Leaving(b)
  BY <1>1, <1>2, <1>3, Staged DEF IInv, Pair, Waiting, Waking, CountPc, ClosePc
<1>6. TypeOK'
  BY <1>1, <1>2, <1>4 DEF TypeOK, control, shared
<1>7. Aside(b)
  BY <1>1, <1>2, <1>4 DEF Aside, control
<1>8. Quiet(b)
  <2>1. Pair(b)'
    BY <1>1, <1>2, <1>3, <1>4, <1>5 DEF Pair, None, Whole, shared, ClosePc, Share, Chunk, ToSteal
  <2>2. KeepsStage(b)
    BY <1>1, <1>2, <1>3, <1>4, <1>5 DEF KeepsStage, control, Pair, Model, Waiting, Working, Waking, Leaving, CountPc, ClosePc, PastPc, ToSteal
  <2>3. KeepsCounts(b)
    BY <1>1, <1>2, <1>3, <1>4, <1>5 DEF KeepsCounts, control, shared, Pair, Model, Closer, IsLast, None, CountPc, ClosePc, CountSide, Arrived, Drained, ToSteal
  <2>4. KeepsChunks(b)
    <3>1. Deals(b)' => Deals(b)
      BY <1>1, <1>2 DEF Deals, ToSteal
    <3>2. \A u \in Thread : Holds(b, u)' <=> Holds(b, u)
      BY <1>1, <1>2 DEF Holds, Pair, ClosePc, ToSteal
    <3>3. ASSUME NEW u \in Thread, generation >= 1, ~Published, Model(b, u)' = generation, pc'[b][u] \in ReadSide,
                 ~Misled(b, u)'
          PROVE  slot'[b][u] = activeSlot
      <4>1. CASE u = t
        <5>1. b # 0 \/ Sound(t)
          <6>1. t = 1 => myGen'[b][t] = 1
            BY <1>2, <1>4 DEF IInv, Entry
          <6>. QED BY <1>1, <1>4, <3>3, <4>1, <6>1 DEF Misled, Sound
        <5>. QED BY <1>1, <1>4, <3>3, <4>1, <5>1
      <4>2. CASE u # t
        BY <1>2, <1>4, <3>3, <4>2 DEF IInv, Registers, Misled, Model
      <4>. QED BY <4>1, <4>2
    <3>. QED BY <3>1, <3>2, <3>3 DEF KeepsChunks
  <2>. QED BY <2>1, <2>2, <2>3, <2>4 DEF Quiet
<1>. QED BY <1>6, <1>7, <1>8, LocalStep

LEMMA SpinStep ==
    ASSUME IInv, NEW b \in Block, NEW t \in Thread, Spin(b, t)
    PROVE  IInv'
<1>1. /\ TypeOK /\ Pair(b) /\ 0 \in Thread /\ 1 \in Thread /\ (t = 0 \/ t = 1)
      /\ Blocks \in Nat /\ sChunk[b] \in Int /\ generation \in Int /\ generation >= -1
  BY Basics DEF IInv, Paired
<1>2. /\ pc' \in [Block -> [Thread -> Pc]]
      /\ pc[b][t] = "spin" /\ pc'[b][t] = IF generation < 0 THEN "gone" ELSE "regroup"
      /\ \A c \in Block, u \in Thread : c # b \/ u # t => pc'[c][u] = pc[c][u]
      /\ generation >= 0 => generation > myGen[b][t]
  <2>1. myGen[b][t] \in Nat
    BY <1>1 DEF TypeOK
  <2>2. \/ generation > myGen[b][t] /\ Go(b, t, "spin", "regroup")
        \/ generation < 0 /\ Go(b, t, "spin", "gone")
    BY DEF Spin
  <2>3. \A to \in {"regroup", "gone"} : Go(b, t, "spin", to) =>
            /\ pc' \in [Block -> [Thread -> Pc]]
            /\ pc[b][t] = "spin" /\ pc'[b][t] = to
            /\ \A c \in Block, u \in Thread : c # b \/ u # t => pc'[c][u] = pc[c][u]
    BY <1>1, Moves DEF Pc, Barrier
  <2>4. CASE generation > myGen[b][t] /\ Go(b, t, "spin", "regroup")
    BY <1>1, <2>1, <2>3, <2>4
  <2>5. CASE generation < 0 /\ Go(b, t, "spin", "gone")
    BY <1>1, <2>3, <2>5
  <2>. QED BY <2>2, <2>4, <2>5
<1>3. UNCHANGED <<control, shared, slot, myGen, probe, done, held, uploads, misled>>
  BY DEF Spin
<1>4. /\ generation >= 1 => Waking(b)
      /\ generation = -1 => Leaving(b)
      /\ generation # 0 /\ ~Waiting(b)
      /\ Model(b, 0) # generation
  <2>1. /\ generation >= 1 => Waking(b)
        /\ generation = -1 => Leaving(b)
        /\ generation # 0 /\ ~Waiting(b)
    <3>1. generation >= 1 => ~Working(b)
      <4>1. Model(b, t) = myGen[b][t] /\ myGen[b][t] \in Nat
        BY <1>1, <1>2 DEF Model, TypeOK
      <4>. QED BY <1>1, <1>2, <4>1 DEF Working
    <3>2. generation # 0 /\ ~Waiting(b)
      <4>1. ~Waiting(b)
        BY <1>1, <1>2 DEF Waiting, Pair, ClosePc
      <4>. QED BY <4>1, Staged DEF IInv
    <3>. QED BY <3>1, <3>2, Staged DEF IInv
  <2>2. Model(b, 0) \in Nat
    BY <1>1 DEF Model, TypeOK
  <2>. QED BY <1>1, <2>1, <2>2 DEF Waking
<1>5. TypeOK'
  BY <1>1, <1>2, <1>3 DEF TypeOK, control, shared
<1>6. Aside(b)
  BY <1>1, <1>2, <1>3 DEF Aside, control
<1>7. Quiet(b)
  <2>1. Pair(b)'
    BY <1>1, <1>2, <1>3, <1>4 DEF Pair, None, Waking, Leaving, shared, CountPc, ClosePc
  <2>2. KeepsStage(b)
    BY <1>1, <1>2, <1>3, <1>4 DEF KeepsStage, control, Pair, Model, Waiting, Working, Waking, Leaving, CountPc, ClosePc, PastPc
  <2>3. KeepsCounts(b)
    BY <1>1, <1>2, <1>3, <1>4 DEF KeepsCounts, control, shared, Pair, Model, Closer, IsLast, None, CountPc, ClosePc, CountSide, Arrived, Drained
  <2>4. KeepsChunks(b)
    BY <1>1, <1>2, <1>3, <1>4 DEF KeepsChunks, Deals, Holds, shared, Pair, Model, None, Whole, ClosePc, ReadSide, IInv, Registers, Misled, Share, Chunk
  <2>. QED BY <2>1, <2>2, <2>3, <2>4 DEF Quiet
<1>. QED BY <1>5, <1>6, <1>7, LocalStep

LEMMA ReloadStep ==
    ASSUME IInv, NEW b \in Block, NEW t \in Thread, Reload(b, t)
    PROVE  IInv'
<1>1. /\ TypeOK /\ Pair(b) /\ 0 \in Thread /\ 1 \in Thread /\ (t = 0 \/ t = 1)
      /\ Blocks \in Nat /\ sChunk[b] \in Int /\ generation \in Int /\ generation >= -1
      /\ activeSlot \in Slot /\ MaxUploads \in Nat /\ generation <= MaxUploads
  BY Basics DEF IInv, Paired
<1>2. /\ pc' \in [Block -> [Thread -> Pc]]
      /\ pc[b][t] = "reload" /\ pc'[b][t] = ToSteal(t)
      /\ \A c \in Block, u \in Thread : c # b \/ u # t => pc'[c][u] = pc[c][u]
  BY <1>1, Moves DEF Reload, Pc, Barrier, ToSteal
<1>3. generation >= 1 /\ Working(b) /\ myGen[b][t] + 1 = generation
  BY <1>1, <1>2, Staged DEF IInv, Waiting, Working, Waking, Leaving, Model, Pair, CountPc, ClosePc
<1>4. /\ UNCHANGED <<control, shared, probe, done, held, uploads, misled>>
      /\ slot' \in [Block -> [Thread -> Nat]]
      /\ \A c \in Block, u \in Thread : c # b \/ u # t => slot'[c][u] = slot[c][u]
      /\ slot'[b][t] = activeSlot
  <2>1. slot \in [Block -> [Thread -> Nat]] /\ activeSlot \in Nat
    BY <1>1 DEF TypeOK, Slot
  <2>. QED BY <2>1 DEF Reload
<1>5. /\ myGen' \in [Block -> [Thread -> 1..(MaxUploads + 1)]]
      /\ \A c \in Block, u \in Thread : c # b \/ u # t => myGen'[c][u] = myGen[c][u]
      /\ myGen'[b][t] = myGen[b][t] + 1
  <2>1. myGen \in [Block -> [Thread -> 1..(MaxUploads + 1)]] /\ myGen' = [myGen EXCEPT ![b][t] = @ + 1]
    BY <1>1 DEF TypeOK, Reload
  <2>2. myGen[b][t] + 1 \in 1..(MaxUploads + 1)
    BY <1>1, <1>3, <2>1
  <2>. QED BY <2>1, <2>2
<1>6. TypeOK'
  BY <1>1, <1>2, <1>4, <1>5 DEF TypeOK, control, shared
<1>7. Aside(b)
  BY <1>1, <1>2, <1>4, <1>5 DEF Aside, control
<1>8. Quiet(b)
  <2>1. Pair(b)'
    <3>1. \/ t = 0 /\ pc[b][1] \in {"reload", "dealt"}
          \/ t = 1 /\ pc[b][0] \in {"steal", "reload"}
          \/ t = 1 /\ pc[b][0] = "dealt" /\ sChunk[b] >= 0
      BY <1>1, <1>2 DEF Pair, ClosePc
    <3>2. sChunk' = sChunk
      BY <1>4 DEF shared
    <3>. QED BY <1>1, <1>2, <3>1, <3>2 DEF Pair, ToSteal
  <2>2. KeepsStage(b)
    BY <1>1, <1>2, <1>3, <1>4, <1>5 DEF KeepsStage, control, Pair, Model, Waiting, Working, Waking, Leaving, CountPc, ClosePc, PastPc, ToSteal
  <2>3. KeepsCounts(b)
    BY <1>1, <1>2, <1>3, <1>4, <1>5 DEF KeepsCounts, control, shared, Pair, Model, Closer, IsLast, None, CountPc, ClosePc, CountSide, Arrived, Drained, ToSteal
  <2>4. KeepsChunks(b)
    <3>1. Deals(b)' => Deals(b)
      BY <1>1, <1>2 DEF Deals, Pair, ClosePc, ToSteal
    <3>2. \A u \in Thread : Holds(b, u)' <=> Holds(b, u)
      BY <1>1, <1>2 DEF Holds, Pair, ClosePc, ToSteal
    <3>3. ASSUME NEW u \in Thread, generation >= 1, ~Published, Model(b, u)' = generation, pc'[b][u] \in ReadSide,
                 ~Misled(b, u)'
          PROVE  slot'[b][u] = activeSlot
      <4>1. CASE u = t
        BY <1>4, <4>1
      <4>2. CASE u # t
        <5>1. pc'[b][u] = pc[b][u] /\ slot'[b][u] = slot[b][u] /\ Model(b, u) = generation
          BY <1>2, <1>4, <1>5, <3>3, <4>2 DEF Model
        <5>. QED BY <3>3, <5>1, <1>2, <1>4, <1>5, <4>2 DEF IInv, Registers, Misled
      <4>. QED BY <4>1, <4>2
    <3>. QED BY <3>1, <3>2, <3>3 DEF KeepsChunks
  <2>. QED BY <2>1, <2>2, <2>3, <2>4 DEF Quiet
<1>. QED BY <1>6, <1>7, <1>8, LocalStep

LEMMA SyncthreadsStep ==
    ASSUME IInv, NEW b \in Block, Syncthreads(b)
    PROVE  IInv'
<1>1. /\ TypeOK /\ Pair(b) /\ 0 \in Thread /\ 1 \in Thread /\ (\A t \in Thread : t = 0 \/ t = 1)
      /\ Blocks \in Nat /\ sChunk[b] \in Int /\ generation \in Int /\ generation >= -1
  BY Basics DEF IInv, Paired
<1>2. /\ pc[b][0] \in {"announced", "dealt", "packed", "counted", "regroup"}
      /\ pc[b][1] = pc[b][0]
  BY <1>1 DEF Syncthreads, Barrier, Pair, ClosePc
<1>3. /\ pc' \in [Block -> [Thread -> Pc]]
      /\ pc'[b][0] = After(pc[b][0], 0) /\ pc'[b][1] = After(pc[b][0], 1)
      /\ \A c \in Block, u \in Thread : c # b => pc'[c][u] = pc[c][u]
  <2>1. \A t \in Thread : After(pc[b][t], t) \in Pc
    BY <1>1, <1>2 DEF After, ToSteal, Pc, Barrier
  <2>. QED BY <1>1, <1>2, <2>1 DEF Syncthreads, TypeOK
<1>4. \/ pc[b][0] = "announced" /\ pc'[b][0] = "enter" /\ pc'[b][1] = "enter"
      \/ pc[b][0] = "dealt" /\ pc'[b][0] = "took" /\ pc'[b][1] = "took"
      \/ pc[b][0] = "packed" /\ pc'[b][0] = "steal" /\ pc'[b][1] = "dealt"
      \/ pc[b][0] = "counted" /\ pc'[b][0] = "judge" /\ pc'[b][1] = "judge"
      \/ pc[b][0] = "regroup" /\ pc'[b][0] = "reload" /\ pc'[b][1] = "reload"
  BY <1>2, <1>3 DEF After, ToSteal
<1>5. UNCHANGED <<control, shared, slot, myGen, probe, done, held, uploads, misled>>
  BY DEF Syncthreads
<1>6. TypeOK'
  BY <1>1, <1>3, <1>5 DEF TypeOK, control, shared
<1>7. Aside(b)
  BY <1>1, <1>3, <1>5 DEF Aside, control
<1>8. Quiet(b)
  <2>1. Pair(b)'
    BY <1>1, <1>2, <1>4, <1>5 DEF Pair, None, Whole, shared, ClosePc, Share, Chunk
  <2>2. KeepsStage(b)
    BY <1>1, <1>2, <1>4, <1>5 DEF KeepsStage, control, Pair, Model, Waiting, Working, Waking, Leaving, CountPc, ClosePc, PastPc
  <2>3. KeepsCounts(b)
    BY <1>1, <1>2, <1>4, <1>5 DEF KeepsCounts, control, shared, Pair, Model, Closer, IsLast, None, CountPc, ClosePc, CountSide, Arrived, Drained
  <2>4. KeepsChunks(b)
    BY <1>1, <1>2, <1>4, <1>5 DEF KeepsChunks, Deals, Holds, shared, Pair, Model, None, Whole, ClosePc, ReadSide, IInv, Registers, Misled, Share, Chunk
  <2>. QED BY <2>1, <2>2, <2>3, <2>4 DEF Quiet
<1>. QED BY <1>6, <1>7, <1>8, LocalStep

-----------------------------------------------------------------------------
(***************************************************************************)
(* Before the first model                                                  *)
(***************************************************************************)
LEMMA Early ==
    ASSUME IInv, pc[0][0] \in {"claim", "claimEnd", "setup", "open"}
    PROVE  /\ generation = 0
           /\ \A c \in Block : Waiting(c) /\ pc[c][1] = "announced" /\ (c # 0 => pc[c][0] = "await")
           /\ \A c \in Block, u \in Thread : Model(c, u) = 1
<1>1. TypeOK /\ 0 \in Block /\ \A c \in Block : Pair(c)
  BY Basics DEF IInv, Paired
<1>2. generation = 0
  BY <1>1, Staged DEF IInv, Working, Waking, Leaving, CountPc
<1>3. \A c \in Block : Waiting(c)
  BY <1>1, <1>2, Staged DEF IInv
<1>4. ASSUME NEW c \in Block
      PROVE  pc[c][1] = "announced" /\ (c # 0 => pc[c][0] = "await")
  BY <1>1, <1>3 DEF Pair, Waiting, ClosePc
<1>5. ASSUME NEW c \in Block, NEW u \in Thread PROVE Model(c, u) = 1
  BY <1>3, <1>4, <1>1, Basics DEF Waiting, Model
<1>. QED BY <1>2, <1>3, <1>4, <1>5

LEMMA EarlyMoves ==
    ASSUME IInv, pc[0][0] \in {"claim", "claimEnd", "setup", "open"}, pc'[0][0] \in {"setup", "open"},
           \A c \in Block, u \in Thread : c # 0 \/ u # 0 => pc'[c][u] = pc[c][u],
           UNCHANGED <<generation, shared, slot, myGen>>
    PROVE  /\ Paired' /\ Stage' /\ Entry' /\ OneCloser' /\ ArrivalsCounted' /\ QueueCounted'
           /\ DealtOnce' /\ ChunksAnnealed' /\ Registers'
<1>1. TypeOK /\ 0 \in Block /\ 0 \in Thread /\ 1 \in Thread
  BY Basics DEF IInv
<1>2. /\ generation = 0 /\ generation' = 0
      /\ \A c \in Block : pc'[c][1] = "announced" /\ pc'[c][0] \in {"setup", "open", "await"}
      /\ \A c \in Block : c # 0 => pc'[c][0] = "await"
      /\ \A c \in Block : myGen'[c][0] = 1 /\ myGen'[c][1] = 1
  BY <1>1, Early DEF Waiting
<1>. QED BY <1>1, <1>2 DEF Paired, Pair, Stage, Waiting, Entry, OneCloser, Closer, ArrivalsCounted, QueueCounted,
              DealtOnce, Deals, ChunksAnnealed, Registers, ClosePc

\* The word that becomes ACTIVE is that of the slot the scan has reached.
LEMMA Claiming ==
    ASSUME IInv, NEW b \in Block, ScanHit(b), generation >= 0, Active = {}
    PROVE  /\ Active' = {probe} /\ Wiped(probe) /\ Wiped(probe)'
           /\ generation + Waits' <= uploads /\ generation + 1 + Waits' <= uploads
           /\ Handed' /\ CompleteIsWhole'
<1>1. /\ TypeOK /\ probe \in Slot /\ ctrl[probe] = "READY" /\ ctrl' = [ctrl EXCEPT ![probe] = "ACTIVE"]
      /\ UNCHANGED <<probe, done, held, uploads, misled>>
  BY DEF IInv, TypeOK, ScanHit
<1>2. \A s \in Slot : ctrl'[s] = IF s = probe THEN "ACTIVE" ELSE ctrl[s]
  BY <1>1 DEF TypeOK
<1>3. Active' = {probe}
  BY <1>1, <1>2 DEF Active
<1>4. Wiped(probe) /\ Wiped(probe)'
  <2>1. Wiped(probe)
    BY <1>1 DEF IInv, Handed
  <2>. QED BY <1>1, <2>1 DEF Wiped, Sound
<1>5. generation + Waits' <= uploads /\ generation + 1 + Waits' <= uploads
  <2>1. /\ probe = 0 \/ probe = 1 \/ probe = 2
        /\ 0 \in Slot /\ 1 \in Slot /\ 2 \in Slot /\ uploads \in Int /\ generation \in Int
    BY <1>1, Basics DEF Slot, TypeOK
  <2>2. Waits' + 1 = Waits
    BY <1>1, <1>2, <2>1 DEF Waits, Ready
  <2>3. Waits \in Int /\ Waits' \in Int
    BY DEF Waits, Ready
  <2>4. generation + Waits <= uploads
    BY DEF IInv, Claims
  <2>. QED BY <2>1, <2>2, <2>3, <2>4 DEF Waits, Ready
<1>6. Handed'
  BY <1>1, <1>2 DEF IInv, Handed, Taken, Wiped, Sound
<1>7. CompleteIsWhole'
  BY <1>1, <1>2 DEF IInv, CompleteIsWhole, Sound
<1>. QED BY <1>3, <1>4, <1>5, <1>6, <1>7

LEMMA ClaimHitStep ==
    ASSUME IInv, NEW b \in Block, ScanHit(b), Go(b, 0, "claim", "setup")
    PROVE  IInv'
<1>1. TypeOK /\ Pair(b) /\ 0 \in Thread /\ 1 \in Thread /\ 0 \in Block
  BY Basics DEF IInv, Paired
<1>2. /\ pc' \in [Block -> [Thread -> Pc]]
      /\ pc[b][0] = "claim" /\ pc'[b][0] = "setup" /\ b = 0
      /\ \A c \in Block, u \in Thread : c # b \/ u # 0 => pc'[c][u] = pc[c][u]
  BY <1>1, Moves, PairAtStart DEF Pc, Barrier
<1>3. UNCHANGED <<exitNow, activeSlot, workQueue, blocksDone, generation, shared, slot, myGen, probe, done, held, uploads, misled>>
  BY DEF ScanHit
<1>4. generation = 0 /\ Active = {} /\ \A c \in Block : c # 0 => pc[c][0] = "await"
  BY <1>1, <1>2, Early DEF IInv, OneActive
<1>5. TypeOK'
  BY <1>1, <1>2, <1>3 DEF TypeOK, ScanHit, shared
<1>6. /\ Active' = {probe'} /\ Wiped(probe)' /\ Handed' /\ CompleteIsWhole'
      /\ generation' + Waits' <= uploads' /\ generation' + 1 + Waits' <= uploads'
  BY <1>3, <1>4, Claiming
<1>7. /\ Paired' /\ Stage' /\ Entry' /\ OneCloser' /\ ArrivalsCounted' /\ QueueCounted'
      /\ DealtOnce' /\ ChunksAnnealed' /\ Registers'
  BY <1>2, <1>3, EarlyMoves
<1>8. \A c \in Block : pc'[c][0] \in {"setup", "await"} /\ (c # 0 => pc'[c][0] = "await")
  BY <1>2, <1>4, <1>1
<1>9. OneActive'
  BY <1>1, <1>2, <1>3, <1>4, <1>6, <1>8 DEF OneActive
<1>10. Claims'
  BY <1>6 DEF Claims
<1>. QED BY <1>5, <1>6, <1>7, <1>9, <1>10 DEF IInv

LEMMA SetupStep ==
    ASSUME IInv, NEW b \in Block, Setup(b)
    PROVE  IInv'
<1>1. TypeOK /\ Pair(b) /\ 0 \in Thread /\ 1 \in Thread /\ 0 \in Block
  BY Basics DEF IInv, Paired
<1>2. /\ pc' \in [Block -> [Thread -> Pc]]
      /\ pc[b][0] = "setup" /\ pc'[b][0] = "open" /\ b = 0
      /\ \A c \in Block, u \in Thread : c # b \/ u # 0 => pc'[c][u] = pc[c][u]
  BY <1>1, Moves, PairAtStart DEF Setup, Pc, Barrier
<1>3. /\ UNCHANGED <<ctrl, exitNow, generation, shared, slot, myGen, probe, done, held, uploads, misled>>
      /\ activeSlot' = probe /\ workQueue' = 0 /\ blocksDone' = 0
  BY DEF Setup
<1>4. generation = 0 /\ Active = {probe} /\ Wiped(probe) /\ \A c \in Block : c # 0 => pc[c][0] = "await"
  BY <1>1, <1>2, Early DEF IInv, OneActive
<1>5. TypeOK'
  <2>1. 0 \in 0..(2 * Blocks) /\ 0 \in 0..Blocks
    BY <1>1, Basics
  <2>. QED BY <1>1, <1>2, <1>3, <2>1 DEF TypeOK, shared
<1>6. /\ Paired' /\ Stage' /\ Entry' /\ OneCloser' /\ ArrivalsCounted' /\ QueueCounted'
      /\ DealtOnce' /\ ChunksAnnealed' /\ Registers'
  BY <1>2, <1>3, EarlyMoves
<1>7. \A c \in Block : pc'[c][0] \in {"open", "await"} /\ (c # 0 => pc'[c][0] = "await")
  BY <1>2, <1>4, <1>1
<1>8. OneActive'
  <2>1. Active' = Active /\ Wiped(probe)'
    BY <1>3, <1>4 DEF Active, Wiped, Sound
  <2>. QED BY <1>1, <1>2, <1>3, <1>4, <1>7, <2>1 DEF OneActive
<1>9. Claims'
  BY <1>1, <1>2, <1>3 DEF IInv, Claims, Waits, Ready
<1>10. Handed' /\ CompleteIsWhole'
  BY <1>1, <1>3, WordsKept DEF IInv
<1>. QED BY <1>5, <1>6, <1>8, <1>9, <1>10 DEF IInv

LEMMA OpenStep ==
    ASSUME IInv, NEW b \in Block, Open(b)
    PROVE  IInv'
<1>1. TypeOK /\ Pair(b) /\ 0 \in Thread /\ 1 \in Thread /\ 0 \in Block /\ Blocks \in Nat /\ MaxUploads \in Nat
  BY Basics DEF IInv, Paired
<1>2. /\ pc' \in [Block -> [Thread -> Pc]]
      /\ pc[b][0] = "open" /\ pc'[b][0] = "announced" /\ b = 0
      /\ \A c \in Block, u \in Thread : c # b \/ u # 0 => pc'[c][u] = pc[c][u]
  BY <1>1, Moves, PairAtStart DEF Open, Pc, Barrier
<1>3. /\ UNCHANGED <<ctrl, exitNow, activeSlot, workQueue, blocksDone, sArrival, slot, myGen, probe, done, held, uploads, misled>>
      /\ generation' = 1
      /\ sChunk' \in [Block -> Int] /\ sChunk'[0] = probe
  BY <1>1, <1>2 DEF Open, TypeOK, Slot
<1>4. /\ generation = 0 /\ \A c \in Block : Waiting(c)
      /\ Active = {probe} /\ Wiped(probe) /\ activeSlot = probe /\ workQueue = 0 /\ blocksDone = 0
  BY <1>1, <1>2, Early DEF IInv, OneActive
<1>5. /\ \A c \in Block : pc'[c][1] = "announced" /\ (c # 0 => pc'[c][0] = "await")
      /\ \A c \in Block : myGen'[c][0] = 1 /\ myGen'[c][1] = 1
      /\ \A c \in Block, u \in Thread : Model(c, u)' = 1
  <2>1. /\ \A c \in Block : pc'[c][1] = "announced" /\ (c # 0 => pc'[c][0] = "await")
        /\ \A c \in Block : myGen'[c][0] = 1 /\ myGen'[c][1] = 1
    BY <1>1, <1>2, <1>3, <1>4, Early DEF Waiting
  <2>. QED BY <1>1, <1>2, <2>1, Basics DEF Model
<1>6. uploads >= 1 /\ Waits + 1 <= uploads
  <2>1. generation + 1 + Waits <= uploads
    BY <1>1, <1>2, <1>4 DEF IInv, Claims
  <2>2. Waits \in Nat /\ uploads \in Int
    <3>1. Waits \in Nat
      BY DEF Waits, Ready
    <3>2. uploads \in Int
      BY <1>1 DEF TypeOK
    <3>. QED BY <3>1, <3>2
  <2>. QED BY <1>4, <2>1, <2>2
<1>7. TypeOK'
  <2>1. probe \in -1..(2 * Blocks) /\ sChunk \in [Block -> -1..(2 * Blocks)]
    <3>1. sChunk \in [Block -> -1..(2 * Blocks)]
      BY <1>1 DEF TypeOK
    <3>2. Blocks >= 1 /\ probe \in 0..2
      BY <1>1, Basics DEF Slot
    <3>3. probe \in -1..(2 * Blocks)
      BY <1>1, <3>2
    <3>. QED BY <3>1, <3>3
  <2>2. sChunk' \in [Block -> -1..(2 * Blocks)]
    BY <2>1 DEF Open
  <2>3. 1 \in -1..MaxUploads
    BY <1>1, <1>6 DEF TypeOK
  <2>. QED BY <1>1, <1>2, <1>3, <2>2, <2>3 DEF TypeOK
<1>8. Paired'
  BY <1>1, <1>2, <1>5 DEF Paired, Pair
<1>9. Stage'
  BY <1>1, <1>2, <1>3, <1>5 DEF Stage, Working
<1>10. Entry'
  <2>1. sChunk'[0] = activeSlot' /\ sChunk'[0] >= 0
    BY <1>1, <1>3, <1>4, Basics DEF Slot
  <2>2. \A c \in Block : pc'[c][1] # "enter" /\ (c # 0 => pc'[c][0] \notin {"announced", "enter"})
    BY <1>5
  <2>. QED BY <1>3, <1>5, <2>1, <2>2 DEF Entry
<1>11. OneCloser' /\ ~Published'
  BY <1>1, <1>2, <1>5 DEF OneCloser, Closer, ClosePc, Published, PastPc
<1>12. ArrivalsCounted'
  <2>1. Arrived' = {}
    BY <1>1, <1>2, <1>5 DEF Arrived, CountPc
  <2>2. Cardinality({}) = 0
    BY FS_EmptySet
  <2>. QED BY <1>1, <1>2, <1>3, <1>4, <1>5, <2>1, <2>2 DEF ArrivalsCounted
<1>13. QueueCounted'
  <2>1. Drained' = {}
    BY <1>1, <1>2, <1>5 DEF Drained, CountPc, ClosePc
  <2>. QED BY <1>1, <1>2, <1>3, <1>4, <1>5, <2>1 DEF QueueCounted
<1>14. DealtOnce'
  BY <1>1, <1>2, <1>5 DEF DealtOnce, Deals
<1>15. ChunksAnnealed'
  <2>1. \A c \in Share, t \in Thread : Sound(t)' => done'[activeSlot'][c][t] = 0
    BY <1>3, <1>4 DEF Wiped, Sound
  <2>. QED BY <1>1, <1>3, <1>4, <2>1 DEF ChunksAnnealed, Share, Chunk
<1>16. OneActive'
  <2>1. Active' = Active
    BY <1>3 DEF Active
  <2>. QED BY <1>1, <1>2, <1>3, <1>4, <1>5, <2>1 DEF OneActive
<1>17. Registers'
  BY <1>1, <1>2, <1>5, Basics DEF Registers, ReadSide
<1>18. Handed' /\ CompleteIsWhole'
  BY <1>1, <1>3, WordsKept DEF IInv
<1>19. Claims'
  <2>1. Waits' = Waits
    BY <1>3 DEF Waits, Ready
  <2>. QED BY <1>1, <1>2, <1>3, <1>5, <1>6, <2>1 DEF Claims, Waits, Ready
<1>. QED BY <1>7, <1>8, <1>9, <1>10, <1>11, <1>12, <1>13, <1>14, <1>15, <1>16, <1>17, <1>18, <1>19 DEF IInv

LEMMA ClaimExitStep ==
    ASSUME IInv, NEW b \in Block, ClaimExit(b)
    PROVE  IInv'
<1>1. TypeOK /\ Pair(b) /\ 0 \in Thread /\ 1 \in Thread /\ 0 \in Block /\ Blocks \in Nat /\ MaxUploads \in Nat
  BY Basics DEF IInv, Paired
<1>2. /\ pc' \in [Block -> [Thread -> Pc]]
      /\ pc[b][0] = "claimEnd" /\ pc'[b][0] = "announced" /\ b = 0
      /\ \A c \in Block, u \in Thread : c # b \/ u # 0 => pc'[c][u] = pc[c][u]
  BY <1>1, Moves, PairAtStart DEF ClaimExit, Pc, Barrier
<1>3. /\ UNCHANGED <<ctrl, exitNow, activeSlot, workQueue, blocksDone, sArrival, slot, myGen, probe, done, held, uploads, misled>>
      /\ generation' = -1
      /\ sChunk' \in [Block -> -1..(2 * Blocks)] /\ sChunk'[0] = -1
  BY <1>1, <1>2 DEF ClaimExit, TypeOK
<1>4. generation = 0 /\ Active = {}
  BY <1>1, <1>2, Early DEF IInv, OneActive
<1>5. \A c \in Block : pc'[c][1] = "announced" /\ (c # 0 => pc'[c][0] = "await")
  BY <1>1, <1>2, <1>4, Early
<1>6. TypeOK'
  <2>1. -1 \in -1..MaxUploads
    BY <1>1
  <2>. QED BY <1>1, <1>2, <1>3, <2>1 DEF TypeOK
<1>7. Paired'
  BY <1>1, <1>2, <1>5 DEF Paired, Pair
<1>8. Stage'
  BY <1>1, <1>2, <1>3, <1>5 DEF Stage, Leaving
<1>9. Entry'
  <2>1. \A c \in Block : myGen'[c][1] = 1
    BY <1>1, <1>3, <1>4, Staged DEF IInv, Waiting
  <2>. QED BY <1>1, <1>2, <1>3, <1>5, <2>1 DEF Entry
<1>10. OneCloser' /\ ArrivalsCounted' /\ QueueCounted' /\ DealtOnce' /\ ChunksAnnealed' /\ Registers' /\ Claims'
  BY <1>1, <1>2, <1>3, <1>5 DEF OneCloser, Closer, ClosePc, ArrivalsCounted, QueueCounted, DealtOnce, Deals,
     ChunksAnnealed, Registers, Claims
<1>11. OneActive'
  <2>1. Active' = Active
    BY <1>3 DEF Active
  <2>. QED BY <1>1, <1>2, <1>3, <1>4, <1>5, <2>1 DEF OneActive
<1>12. Handed' /\ CompleteIsWhole'
  BY <1>1, <1>3, WordsKept DEF IInv
<1>. QED BY <1>6, <1>7, <1>8, <1>9, <1>10, <1>11, <1>12 DEF IInv

LEMMA AwaitStep ==
    ASSUME IInv, NEW b \in Block, Await(b)
    PROVE  IInv'
<1>1. TypeOK /\ Pair(b) /\ 0 \in Thread /\ 1 \in Thread /\ 0 \in Block /\ Blocks \in Nat /\ generation \in Int
  BY Basics DEF IInv, Paired
<1>2. /\ pc' \in [Block -> [Thread -> Pc]]
      /\ pc[b][0] = "await" /\ pc'[b][0] = "announced" /\ b # 0
      /\ pc[b][1] = "announced" /\ pc'[b][1] = "announced"
      /\ \A c \in Block, u \in Thread : c # b \/ u # 0 => pc'[c][u] = pc[c][u]
  BY <1>1, Moves, PairAtStart DEF Await, Pc, Barrier
<1>3. /\ UNCHANGED <<control, sArrival, slot, myGen, probe, done, held, uploads, misled>>
      /\ generation # 0
      /\ \A c \in Block : c # b => sChunk'[c] = sChunk[c]
      /\ sChunk'[b] = IF generation > 0 THEN 1 ELSE -1
      /\ sChunk' \in [Block -> -1..(2 * Blocks)]
  <2>1. sChunk \in [Block -> -1..(2 * Blocks)]
    BY <1>1 DEF TypeOK
  <2>2. sChunk' = [sChunk EXCEPT ![b] = IF generation > 0 THEN 1 ELSE -1]
    BY DEF Await
  <2>3. generation # 0 /\ UNCHANGED <<control, sArrival, slot, myGen, probe, done, held, uploads, misled>>
    BY DEF Await
  <2>4. 1 \in -1..(2 * Blocks) /\ -1 \in -1..(2 * Blocks)
    BY <1>1, Basics
  <2>. QED BY <2>1, <2>2, <2>3, <2>4
<1>4. TypeOK'
  BY <1>1, <1>2, <1>3 DEF TypeOK, control
<1>5. \A c \in Block, u \in Thread : Model(c, u)' = Model(c, u)
  BY <1>2, <1>3 DEF Model
<1>6. Paired'
  <2>1. Pair(b)'
    BY <1>1, <1>2 DEF Pair
  <2>2. ASSUME NEW c \in Block, c # b PROVE Pair(c)'
    BY <1>1, <1>2, <1>3, <2>2, PairKept DEF IInv, Paired
  <2>. QED BY <2>1, <2>2 DEF Paired
<1>7. Stage'
  <2>1. /\ generation >= 1 => Working(b)'
        /\ generation = -1 => Leaving(b)'
    BY <1>1, <1>2, <1>3, <1>5, Staged DEF IInv, Waiting, Working, Waking, Leaving, CountPc, control
  <2>2. ASSUME NEW c \in Block, c # b
        PROVE  /\ Working(c) => Working(c)'
               /\ Waking(c) => Waking(c)'
               /\ Leaving(c) => Leaving(c)'
    BY <1>1, <1>2, <1>3, <1>5, <2>2 DEF Working, Waking, Leaving, control
  <2>. QED BY <1>1, <1>3, <2>1, <2>2 DEF IInv, Stage, control
<1>8. Entry'
  BY <1>1, <1>2, <1>3 DEF IInv, Entry, control
<1>9. ~Published /\ ~Published' /\ \A c \in Block : ~Closer(c) /\ ~Closer(c)'
  <2>1. ~Published /\ \A c \in Block : ~Closer(c)
    BY <1>2, Unclosed DEF CountPc, ClosePc
  <2>. QED BY <1>1, <1>2, <1>3, <2>1 DEF Published, PastPc, Closer, IsLast, ClosePc
<1>10. OneCloser'
  BY <1>9 DEF OneCloser
<1>11. ArrivalsCounted'
  <2>1. Arrived' = Arrived
    BY <1>1, <1>2, <1>3, <1>5 DEF Arrived, CountPc, control
  <2>. QED BY <1>1, <1>2, <1>3, <2>1 DEF IInv, ArrivalsCounted, control
<1>12. QueueCounted'
  <2>1. Drained' = Drained
    BY <1>1, <1>2, <1>3, <1>5 DEF Drained, None, CountPc, ClosePc, control
  <2>. QED BY <1>1, <1>2, <1>3, <2>1 DEF IInv, QueueCounted, control
<1>13. DealtOnce'
  <2>1. ASSUME NEW c \in Block PROVE Deals(c)' => Deals(c) /\ c # b
    BY <1>1, <1>2, <2>1 DEF Deals
  <2>. QED BY <1>3, <2>1 DEF IInv, DealtOnce, None, control
<1>14. ChunksAnnealed'
  <2>1. ASSUME NEW c \in Block, NEW u \in Thread PROVE Holds(c, u)' <=> Holds(c, u) /\ c # b
    BY <1>1, <1>2, <2>1 DEF Holds
  <2>2. ~Holds(b, 0) /\ ~Holds(b, 1)
    BY <1>2 DEF Holds
  <2>3. \A u \in Thread : u = 0 \/ u = 1
    BY Basics, <1>1
  <2>4. \A k \in Share, u \in Thread :
            (\A c \in Block : Holds(c, u)' => sChunk'[c] # k) <=> (\A c \in Block : Holds(c, u) => sChunk[c] # k)
    BY <1>3, <2>1, <2>2, <2>3
  <2>5. generation' = generation /\ activeSlot' = activeSlot /\ workQueue' = workQueue /\ done' = done
    BY <1>3 DEF control
  <2>. QED BY <1>3, <1>9, <2>4, <2>5 DEF IInv, ChunksAnnealed, Sound
<1>15. OneActive'
  <2>1. /\ Active' = Active
        /\ Wiped(activeSlot)' <=> Wiped(activeSlot)
        /\ Wiped(probe)' <=> Wiped(probe)
    BY <1>3 DEF Active, Wiped, Sound, control
  <2>. QED BY <1>1, <1>2, <1>3, <1>9, <2>1 DEF IInv, OneActive, control
<1>16. Registers'
  BY <1>1, <1>2, <1>3, <1>5, <1>9 DEF IInv, Registers, Misled, ReadSide, control
<1>17. Handed' /\ CompleteIsWhole'
  BY <1>1, <1>3, WordsKept DEF IInv, control
<1>18. Claims'
  BY <1>1, <1>2, <1>3 DEF IInv, Claims, Waits, Ready, control
<1>. QED BY <1>4, <1>6, <1>7, <1>8, <1>10, <1>11, <1>12, <1>13, <1>14, <1>15, <1>16, <1>17, <1>18 DEF IInv

-----------------------------------------------------------------------------
(***************************************************************************)
(* The work queue                                                          *)
(***************************************************************************)
\* Thread 0 may deal while the other thread has yet to read the slot, or an
\* empty chunk it stands before; the number dealt is read in its place.
LEMMA StealStep ==
    ASSUME IInv, NEW b \in Block, Steal(b), InStep'
    PROVE  IInv'
<1>1. /\ TypeOK /\ Pair(b) /\ 0 \in Thread /\ 1 \in Thread /\ 0 \in Block /\ Blocks \in Nat /\ workQueue \in Nat
      /\ \A c \in Block : sChunk[c] \in Int
  BY Basics DEF IInv, Paired
<1>2. /\ pc' \in [Block -> [Thread -> Pc]]
      /\ pc[b][0] = "steal" /\ pc'[b][0] = "dealt"
      /\ \A c \in Block, u \in Thread : c # b \/ u # 0 => pc'[c][u] = pc[c][u]
  BY <1>1, Moves DEF Steal, Pc, Barrier
<1>3. /\ pc'[b][1] = pc[b][1]
      /\ \/ pc[b][1] \in {"dealt", "reload", "enter"}
         \/ pc[b][1] = "took" /\ sChunk[b] \in Chunk \cap EmptyChunk /\ workQueue \in Chunk \cap EmptyChunk
  <2>1. pc[b][1] \in {"dealt", "reload", "enter"} \/ (pc[b][1] = "took" /\ sChunk[b] \in Chunk \cap EmptyChunk)
    BY <1>1, <1>2 DEF Pair, ClosePc
  <2>2. ~MissesChunk(b)
    BY DEF Steal, InStep
  <2>. QED BY <1>1, <1>2, <2>1, <2>2 DEF MissesChunk
<1>4. /\ UNCHANGED <<ctrl, exitNow, activeSlot, blocksDone, generation, sArrival, slot, myGen, probe, done, held, uploads>>
      /\ \A c \in Block : c # b => sChunk'[c] = sChunk[c]
      /\ sChunk'[b] = workQueue /\ workQueue' = workQueue + 1
      /\ misled' \subseteq {"slot", "chunk"} /\ misled \subseteq misled'
      /\ "slot" \notin misled' => ~MissesSlot(b)
  BY <1>1 DEF Steal, TypeOK
<1>5. \A c \in Block, u \in Thread : Model(c, u)' = Model(c, u)
  BY <1>2, <1>4 DEF Model
<1>6. ~Published /\ ~Published' /\ \A c \in Block : ~Closer(c) /\ ~Closer(c)'
  <2>1. ~Published /\ \A c \in Block : ~Closer(c)
    BY <1>2, Unclosed DEF CountPc, ClosePc
  <2>. QED BY <1>1, <1>2, <1>4, <2>1 DEF Published, PastPc, Closer, IsLast, ClosePc
<1>7. generation >= 1 /\ Model(b, 0) = generation /\ Model(b, 1) = generation /\ Working(b)
  BY <1>1, <1>2, Staged DEF IInv, Waiting, Working, Waking, Leaving, CountPc
<1>8. pc[0][0] \notin {"claim", "claimEnd", "setup", "open"}
  BY <1>7, Early
<1>9. Paired'
  <2>1. Pair(b)'
    BY <1>1, <1>2, <1>3, <1>4 DEF Pair
  <2>2. ASSUME NEW c \in Block, c # b PROVE Pair(c)'
    BY <1>1, <1>2, <1>4, <2>2, PairKept DEF IInv, Paired
  <2>. QED BY <2>1, <2>2 DEF Paired
<1>10. Stage'
  BY <1>1, <1>2, <1>3, <1>4, <1>5, <1>7 DEF IInv, Stage, Waiting, Working, Waking, Leaving, CountPc
<1>11. Entry'
  <2>1. /\ pc'[b][1] = "enter" => generation' # 0 /\ (sChunk'[b] < 0 <=> generation' < 0)
        /\ b = 0 /\ pc'[b][1] = "enter" /\ "slot" \notin misled' => sChunk'[b] = activeSlot'
    <3>1. generation' \in Nat /\ generation' # 0 /\ sChunk'[b] \in Nat
      BY <1>1, <1>4, <1>7, Basics
    <3>2. ASSUME b = 0, pc[b][1] = "enter", "slot" \notin misled' PROVE sChunk'[b] = activeSlot'
      <4>1. sChunk[b] = activeSlot
        <5>1. generation > 0
          BY <1>4, <3>1
        <5>2. "slot" \notin misled
          BY <1>4, <3>2
        <5>. QED BY <3>2, <5>1, <5>2 DEF IInv, Entry
      <4>2. sChunk[b] = workQueue
        BY <1>4, <3>2 DEF MissesSlot
      <4>. QED BY <1>4, <4>1, <4>2
    <3>. QED BY <1>3, <3>1, <3>2
  <2>2. ASSUME NEW c \in Block, c # b
        PROVE  /\ pc'[c][0] = pc[c][0] /\ pc'[c][1] = pc[c][1] /\ sChunk'[c] = sChunk[c]
    BY <1>1, <1>2, <1>4, <2>2
  <2>3. pc'[b][1] = pc[b][1] /\ pc'[b][0] = "dealt"
    BY <1>2, <1>3
  <2>. QED BY <1>4, <2>1, <2>2, <2>3 DEF IInv, Entry
<1>12. OneCloser'
  BY <1>6 DEF OneCloser
<1>13. ArrivalsCounted'
  <2>1. Arrived' = Arrived
    BY <1>1, <1>2, <1>4, <1>5 DEF Arrived, CountPc
  <2>. QED BY <2>1, <1>1, <1>2, <1>4 DEF IInv, ArrivalsCounted
<1>14. b \notin Drained /\ Drained \subseteq Block /\ Cardinality(Drained \cup {b}) = Cardinality(Drained) + 1
  <2>1. b \notin Drained /\ Drained \subseteq Block
    BY <1>1, <1>2 DEF Drained, CountPc, ClosePc
  <2>. QED BY <2>1, <1>1, OneMoreBlock
<1>15. \/ workQueue < Blocks /\ Drained = {}
       \/ workQueue = Blocks + Cardinality(Drained)
  <2>1. \A c \in Block : pc[c][0] # "advance"
    BY <1>6 DEF Published, PastPc
  <2>2. Drained = {} => Cardinality(Drained) = 0
    BY FS_EmptySet
  <2>. QED BY <1>1, <1>7, <2>1, <2>2 DEF IInv, QueueCounted
<1>16. QueueCounted'
  <2>1. Drained' = IF workQueue >= Blocks THEN Drained \cup {b} ELSE Drained
    BY <1>1, <1>2, <1>4, <1>5, <1>7 DEF Drained, CountPc, ClosePc, None
  <2>2. Cardinality(Drained) \in Nat
    BY <1>1, <1>14, BlocksCounted
  <2>3. \A c \in Block : pc'[c][0] # "advance"
    BY <1>6 DEF Published, PastPc
  <2>4. (workQueue' <= Blocks /\ Drained' = {}) \/ workQueue' = Blocks + Cardinality(Drained')
    <3>1. CASE workQueue < Blocks /\ Drained = {}
      BY <1>1, <1>4, <2>1, <3>1
    <3>2. CASE workQueue = Blocks + Cardinality(Drained)
      BY <1>1, <1>4, <1>14, <2>1, <2>2, <3>2
    <3>. QED BY <1>15, <3>1, <3>2
  <2>. QED BY <2>3, <2>4 DEF QueueCounted
<1>17. DealtOnce'
  <2>1. ASSUME NEW c \in Block PROVE Deals(c)' <=> Deals(c) \/ c = b
    BY <1>1, <1>2, <1>3 DEF Deals
  <2>. QED BY <2>1, <1>1, <1>4 DEF IInv, DealtOnce, None
<1>18. ChunksAnnealed'
  <2>1. \A u \in Thread : Holds(b, u)' /\ (Holds(b, u) => sChunk[b] \notin Share)
    <3>1. Holds(b, 0)' /\ ~Holds(b, 0)
      BY <1>2 DEF Holds
    <3>2. Holds(b, 1)' /\ (Holds(b, 1) => sChunk[b] \notin Share)
      BY <1>2, <1>3 DEF Holds, Share
    <3>. QED BY <3>1, <3>2, <1>1, Basics
  <2>2. \A c \in Block, u \in Thread : c # b => (Holds(c, u)' <=> Holds(c, u))
    BY <1>1, <1>2 DEF Holds
  <2>3. ASSUME NEW k \in Share, NEW u \in Thread, Sound(u)'
        PROVE  done'[activeSlot'][k][u] =
                  IF k < workQueue' /\ \A c \in Block : Holds(c, u)' => sChunk'[c] # k THEN 1 ELSE 0
    <3>1. Sound(u)
      BY <1>4, <2>3 DEF Sound
    <3>2. done[activeSlot][k][u] = IF k < workQueue /\ \A c \in Block : Holds(c, u) => sChunk[c] # k THEN 1 ELSE 0
      BY <1>6, <1>7, <3>1 DEF IInv, ChunksAnnealed
    <3>3. k \in Int
      BY DEF Share, Chunk
    <3>4. (k < workQueue /\ \A c \in Block : Holds(c, u) => sChunk[c] # k)
            <=> (k < workQueue + 1 /\ \A c \in Block : Holds(c, u)' => sChunk'[c] # k)
      <4>1. CASE k = workQueue
        BY <1>1, <1>4, <2>1, <3>3, <4>1
      <4>2. CASE k # workQueue
        BY <1>1, <1>4, <2>1, <2>2, <3>3, <4>2
      <4>. QED BY <4>1, <4>2
    <3>. QED BY <1>4, <3>2, <3>4
  <2>. QED BY <2>3 DEF ChunksAnnealed
<1>19. OneActive'
  <2>1. /\ Active' = Active
        /\ activeSlot' = activeSlot => (Wiped(activeSlot) => Wiped(activeSlot)')
        /\ probe' = probe => (Wiped(probe) => Wiped(probe)')
    BY <1>4 DEF Active, Wiped, Sound
  <2>. QED BY <2>1, <1>1, <1>2, <1>4, <1>6, <1>8 DEF IInv, OneActive
<1>20. Registers'
  BY <1>1, <1>2, <1>4, <1>5, <1>6, <1>7 DEF IInv, Registers, Misled, ReadSide
<1>21. Handed' /\ CompleteIsWhole'
  BY <1>1, <1>4 DEF IInv, Handed, CompleteIsWhole, Taken, Wiped, Sound
<1>22. Claims'
  BY <1>1, <1>2, <1>4 DEF IInv, Claims, Waits, Ready
<1>23. TypeOK'
  <2>1. Cardinality(Drained) < Blocks
    BY <1>1, <1>14, BlocksCounted
  <2>2. workQueue < 2 * Blocks
    BY <2>1, <1>1, <1>14, <1>15, BlocksCounted
  <2>3. sChunk' \in [Block -> -1..(2 * Blocks)] /\ workQueue' \in 0..(2 * Blocks)
    BY <1>1, <1>4, <2>2 DEF TypeOK, Steal
  <2>. QED BY <1>1, <1>2, <1>4, <2>3 DEF TypeOK
<1>. QED BY <1>9, <1>10, <1>11, <1>12, <1>13, <1>16, <1>17, <1>18, <1>19, <1>20, <1>21, <1>22, <1>23 DEF IInv

\* A chunk of the open model that a thread was dealt and has not done.
LEMMA HasChunk ==
    ASSUME IInv, NEW b \in Block, NEW t \in Thread, pc[b][t] = "took",
           sChunk[b] < Blocks, sChunk[b] \notin EmptyChunk
    PROVE  /\ sChunk[b] \in Share /\ generation >= 1 /\ ~Published
           /\ pc[b][0] \in {"took", "packed"} /\ pc[b][1] \in {"took", "packed"}
           /\ Active = {activeSlot} /\ (~Misled(b, t) => slot[b][t] = activeSlot)
           /\ Sound(t) => done[activeSlot][sChunk[b]][t] = 0
<1>1. /\ TypeOK /\ Pair(b) /\ 0 \in Thread /\ 1 \in Thread /\ (t = 0 \/ t = 1) /\ Blocks \in Nat
      /\ sChunk[b] \in Int /\ generation \in Int /\ generation >= -1
  BY Basics DEF IInv, Paired
<1>2. /\ pc[b][0] \in {"took", "packed"} /\ pc[b][1] \in {"took", "packed"} /\ sChunk[b] \in Share /\ ~None(b)
  BY <1>1 DEF Pair, None, Whole, Share, Chunk, ClosePc
<1>3. ~Published /\ generation >= 1 /\ Model(b, t) = generation
  <2>1. ~Published
    BY <1>2, Unclosed DEF CountPc, ClosePc
  <2>2. generation >= 1 /\ Model(b, t) = generation
    BY <1>1, <1>2, Staged DEF IInv, Waiting, Working, Waking, Leaving, CountPc
  <2>. QED BY <2>1, <2>2
<1>4. Active = {activeSlot} /\ (~Misled(b, t) => slot[b][t] = activeSlot)
  BY <1>3 DEF IInv, Registers, OneActive, ReadSide
<1>5. Sound(t) => done[activeSlot][sChunk[b]][t] = 0
  BY <1>1, <1>2, <1>3 DEF IInv, ChunksAnnealed, Holds
<1>. QED BY <1>2, <1>3, <1>4, <1>5

LEMMA TookReadsStep ==
    ASSUME IInv, NEW b \in Block, NEW t \in Thread, TookReads(b, t)
    PROVE  IInv'
<1>1. /\ TypeOK /\ Pair(b) /\ 0 \in Thread /\ 1 \in Thread /\ (t = 0 \/ t = 1) /\ 0 \in Block /\ Blocks \in Nat
      /\ \A c \in Block : sChunk[c] \in Int
  BY Basics DEF IInv, Paired
<1>2. /\ pc' \in [Block -> [Thread -> Pc]]
      /\ pc[b][t] = "took" /\ pc'[b][t] = "packed"
      /\ \A c \in Block, u \in Thread : c # b \/ u # t => pc'[c][u] = pc[c][u]
  BY <1>1, Moves DEF TookReads, Pc, Barrier
<1>3. /\ sChunk[b] \in Share /\ generation >= 1 /\ ~Published
      /\ pc[b][0] \in {"took", "packed"} /\ pc[b][1] \in {"took", "packed"}
      /\ Active = {activeSlot} /\ activeSlot \in Slot
      /\ Sound(t) => slot[b][t] = activeSlot /\ done[activeSlot][sChunk[b]][t] = 0
  BY <1>1, <1>2, HasChunk, Basics DEF TookReads, Misled, Sound
<1>4. UNCHANGED <<control, shared, slot, myGen, probe, held, uploads, misled>>
  BY DEF TookReads
<1>5. /\ done' \in [Slot -> [Share -> [Thread -> Nat]]]
      /\ \A s \in Slot, c \in Share, u \in Thread : Sound(u) =>
            done'[s][c][u] = IF s = activeSlot /\ c = sChunk[b] /\ u = t THEN 1 ELSE done[s][c][u]
  <2>1. done \in [Slot -> [Share -> [Thread -> Nat]]]
    BY <1>1 DEF TypeOK
  <2>2. done' = [s \in Slot |-> IF s = slot[b][t] THEN [done[s] EXCEPT ![sChunk[b]][t] = @ + 1] ELSE done[s]]
    BY DEF TookReads
  <2>3. ASSUME NEW s \in Slot
        PROVE  /\ done'[s] \in [Share -> [Thread -> Nat]]
               /\ \A c \in Share, u \in Thread :
                     done'[s][c][u] = IF s = slot[b][t] /\ c = sChunk[b] /\ u = t THEN done[s][c][u] + 1 ELSE done[s][c][u]
    BY <1>3, <2>1, <2>2
  <2>4. done' \in [Slot -> [Share -> [Thread -> Nat]]]
    BY <2>2, <2>3
  <2>. QED BY <1>3, <2>3, <2>4
<1>6. TypeOK'
  BY <1>1, <1>2, <1>4, <1>5 DEF TypeOK, control, shared
<1>7. \A c \in Block, u \in Thread : Model(c, u)' = Model(c, u)
  BY <1>2, <1>4 DEF Model
<1>8. ~Published' /\ \A c \in Block : ~Closer(c) /\ ~Closer(c)'
  <2>1. \A c \in Block : ~Closer(c)
    BY <1>3, Unclosed DEF CountPc, ClosePc
  <2>. QED BY <1>1, <1>2, <1>3, <1>4, <2>1 DEF Published, PastPc, Closer, IsLast, ClosePc, shared
<1>9. pc[0][0] \notin {"claim", "claimEnd", "setup", "open"}
  BY <1>3, Early
<1>10. Paired'
  <2>1. Pair(b)'
    BY <1>1, <1>2, <1>3, <1>4 DEF Pair, Whole, Share, Chunk, shared
  <2>2. ASSUME NEW c \in Block, c # b PROVE Pair(c)'
    BY <1>1, <1>2, <1>4, <2>2, PairKept DEF IInv, Paired, shared
  <2>. QED BY <2>1, <2>2 DEF Paired
<1>11. Stage'
  BY <1>1, <1>2, <1>3, <1>4, <1>7 DEF IInv, Stage, Waiting, Working, Waking, Leaving, CountPc, control
<1>12. Entry'
  BY <1>1, <1>2, <1>3, <1>4 DEF IInv, Entry, control, shared
<1>13. OneCloser'
  BY <1>8 DEF OneCloser
<1>14. ArrivalsCounted'
  <2>1. Arrived' = Arrived
    BY <1>1, <1>2, <1>4, <1>7 DEF Arrived, CountPc, control
  <2>. QED BY <2>1, <1>1, <1>2, <1>4 DEF IInv, ArrivalsCounted, control
<1>15. QueueCounted'
  <2>1. Drained' = Drained
    BY <1>1, <1>2, <1>3, <1>4, <1>7 DEF Drained, None, Share, Chunk, CountPc, ClosePc, control, shared
  <2>. QED BY <2>1, <1>1, <1>2, <1>4 DEF IInv, QueueCounted, control
<1>16. DealtOnce'
  <2>1. \A c \in Block : Deals(c)' => Deals(c)
    BY <1>1, <1>2, <1>3 DEF Deals
  <2>. QED BY <2>1, <1>1, <1>4 DEF IInv, DealtOnce, None, control, shared
<1>17. ChunksAnnealed'
  <2>1. Deals(b) /\ ~None(b)
    BY <1>1, <1>2, <1>3 DEF Deals, None, Share, Chunk
  <2>2. sChunk[b] < workQueue /\ \A c \in Block : c # b /\ Deals(c) => sChunk[c] # sChunk[b]
    BY <2>1 DEF IInv, DealtOnce
  <2>3. ~Holds(b, t)' /\ \A u \in Thread : u # t => Holds(b, u)' <=> Holds(b, u)
    BY <1>1, <1>2, <1>3 DEF Holds
  <2>4. \A c \in Block, u \in Thread : c # b => (Holds(c, u)' <=> Holds(c, u)) /\ (Holds(c, u) => Deals(c))
    BY <1>1, <1>2 DEF Holds, Deals
  <2>5. ASSUME NEW c \in Share, NEW u \in Thread, Sound(u)
        PROVE  done'[activeSlot][c][u] =
                  IF c < workQueue /\ \A a \in Block : Holds(a, u)' => sChunk[a] # c THEN 1 ELSE 0
    <3>1. CASE c = sChunk[b] /\ u = t
      BY <1>3, <1>5, <2>2, <2>3, <2>4, <2>5, <3>1
    <3>2. CASE ~(c = sChunk[b] /\ u = t)
      <4>1. done'[activeSlot][c][u] = done[activeSlot][c][u]
        BY <1>3, <1>5, <2>5, <3>2
      <4>2. \A a \in Block : (Holds(a, u)' => sChunk[a] # c) <=> (Holds(a, u) => sChunk[a] # c)
        BY <2>3, <2>4, <3>2
      <4>. QED BY <1>3, <2>5, <4>1, <4>2 DEF IInv, ChunksAnnealed
    <3>. QED BY <3>1, <3>2
  <2>. QED BY <1>4, <2>5 DEF ChunksAnnealed, Sound, control, shared
<1>18. OneActive'
  <2>1. Active' = Active
    BY <1>4 DEF Active, control
  <2>. QED BY <2>1, <1>1, <1>2, <1>3, <1>4, <1>8, <1>9 DEF IInv, OneActive, control, Published, PastPc
<1>19. Registers'
  BY <1>1, <1>2, <1>3, <1>4, <1>7 DEF IInv, Registers, Misled, ReadSide, control
<1>20. Handed' /\ CompleteIsWhole'
  <2>1. ctrl[activeSlot] = "ACTIVE"
    BY <1>3 DEF Active
  <2>2. UNCHANGED ctrl /\ UNCHANGED held
    BY <1>4 DEF control
  <2>3. ASSUME NEW s \in Slot, ctrl[s] # "ACTIVE", NEW c \in Share, NEW u \in Thread, Sound(u)
        PROVE  done'[s][c][u] = done[s][c][u]
    BY <1>5, <2>1, <2>3
  <2>4. Handed'
    BY <1>4, <2>2, <2>3 DEF IInv, Handed, Taken, Wiped, Sound
  <2>5. CompleteIsWhole'
    BY <1>4, <2>2, <2>3 DEF IInv, CompleteIsWhole, Sound
  <2>. QED BY <2>4, <2>5
<1>21. Claims'
  BY <1>1, <1>2, <1>3, <1>4 DEF IInv, Claims, Waits, Ready, control
<1>. QED BY <1>6, <1>10, <1>11, <1>12, <1>13, <1>14, <1>15, <1>16, <1>17, <1>18, <1>19, <1>20, <1>21 DEF IInv

-----------------------------------------------------------------------------
(***************************************************************************)
(* The barrier between blocks                                              *)
(***************************************************************************)
LEMMA ArriveStep ==
    ASSUME IInv, NEW b \in Block, Arrive(b)
    PROVE  IInv'
<1>1. /\ TypeOK /\ Pair(b) /\ 0 \in Thread /\ 1 \in Thread /\ 0 \in Block /\ Blocks \in Nat
  BY Basics DEF IInv, Paired
<1>2. /\ pc' \in [Block -> [Thread -> Pc]]
      /\ pc[b][0] = "arrive" /\ pc'[b][0] = "counted"
      /\ \A c \in Block, u \in Thread : c # b \/ u # 0 => pc'[c][u] = pc[c][u]
  BY <1>1, Moves DEF Arrive, Pc, Barrier
<1>3. pc'[b][1] = pc[b][1] /\ pc[b][1] \in {"took", "counted"} /\ None(b)
  BY <1>1, <1>2 DEF Pair, ClosePc
<1>4. /\ UNCHANGED <<ctrl, exitNow, activeSlot, workQueue, generation, sChunk, slot, myGen, probe, done, held, uploads, misled>>
      /\ \A c \in Block : c # b => sArrival'[c] = sArrival[c]
      /\ sArrival'[b] = blocksDone /\ blocksDone' = blocksDone + 1
  BY <1>1 DEF Arrive, TypeOK
<1>5. \A c \in Block, u \in Thread : Model(c, u)' = Model(c, u)
  BY <1>2, <1>4 DEF Model
<1>6. ~Published /\ ~Published' /\ \A c \in Block : ~Closer(c) /\ (c # b => ~Closer(c)')
  <2>1. ~Published /\ \A c \in Block : ~Closer(c)
    BY <1>2, Unclosed DEF CountPc, ClosePc
  <2>. QED BY <1>1, <1>2, <1>4, <2>1 DEF Published, PastPc, Closer, IsLast, ClosePc
<1>7. generation >= 1 /\ Model(b, 0) = generation /\ Model(b, 1) = generation
  BY <1>1, <1>2, Staged DEF IInv, Waiting, Working, Waking, Leaving, CountPc
<1>8. pc[0][0] \notin {"claim", "claimEnd", "setup", "open"}
  BY <1>7, Early
<1>9. b \notin Arrived /\ Arrived \subseteq Block /\ blocksDone = Cardinality(Arrived) /\ Arrived' = Arrived \cup {b}
  <2>1. b \notin Arrived /\ Arrived \subseteq Block
    BY <1>1, <1>2 DEF Arrived, CountPc
  <2>2. blocksDone = Cardinality(Arrived)
    BY <1>6, <1>7 DEF IInv, ArrivalsCounted, Published, PastPc
  <2>3. Arrived' = Arrived \cup {b}
    BY <1>1, <1>2, <1>4, <1>5, <1>7 DEF Arrived, CountPc
  <2>. QED BY <2>1, <2>2, <2>3
<1>10. /\ Cardinality(Arrived') = Cardinality(Arrived) + 1
       /\ Cardinality(Arrived) \in Nat /\ Cardinality(Arrived) < Blocks
       /\ Cardinality(Arrived) + 1 = Blocks => Arrived' = Block
  <2>1. Cardinality(Arrived \cup {b}) = Cardinality(Arrived) + 1
    BY <1>1, <1>9, OneMoreBlock
  <2>. QED BY <1>1, <1>9, <2>1, BlocksCounted
<1>11. TypeOK'
  <2>1. blocksDone \in Block /\ blocksDone' \in 0..Blocks
    BY <1>1, <1>4, <1>9, <1>10 DEF Block
  <2>. QED BY <1>1, <1>2, <1>4, <2>1 DEF TypeOK, Arrive
<1>12. Paired'
  <2>1. Pair(b)'
    BY <1>1, <1>2, <1>3, <1>4 DEF Pair, None
  <2>2. ASSUME NEW c \in Block, c # b PROVE Pair(c)'
    BY <1>1, <1>2, <1>4, <2>2, PairKept DEF IInv, Paired
  <2>. QED BY <2>1, <2>2 DEF Paired
<1>13. Stage'
  BY <1>1, <1>2, <1>3, <1>4, <1>5, <1>7 DEF IInv, Stage, Waiting, Working, Waking, Leaving, CountPc
<1>14. Entry'
  BY <1>1, <1>2, <1>3, <1>4 DEF IInv, Entry
<1>15. OneCloser'
  <2>1. ASSUME Closer(b)'
        PROVE  \A c \in Block : Model(c, 0)' = generation' /\ pc'[c][0] \in CountPc \cup ClosePc
    <3>1. blocksDone + 1 = Blocks
      BY <1>2, <1>4, <2>1 DEF Closer, IsLast, ClosePc
    <3>2. \A c \in Block : c # b => c \in Arrived
      BY <1>9, <1>10, <3>1
    <3>3. \A c \in Block : c # b => pc[c][0] \in CountPc \cup ClosePc /\ Model(c, 0) = generation
      BY <3>2 DEF Arrived, ClosePc
    <3>. QED BY <1>1, <1>2, <1>4, <1>5, <1>7, <3>3 DEF CountPc
  <2>. QED BY <2>1, <1>4, <1>6, <1>7 DEF OneCloser
<1>16. ArrivalsCounted'
  <2>1. \A c \in Block : pc'[c][0] \notin PastPc
    BY <1>6 DEF Published
  <2>. QED BY <1>4, <1>9, <1>10, <2>1 DEF ArrivalsCounted, PastPc
<1>17. QueueCounted'
  <2>1. Drained' = Drained
    BY <1>1, <1>2, <1>4, <1>5 DEF Drained, None, CountPc, ClosePc
  <2>. QED BY <2>1, <1>1, <1>2, <1>4 DEF IInv, QueueCounted
<1>18. DealtOnce'
  <2>1. \A c \in Block : Deals(c)' => Deals(c)
    BY <1>1, <1>2 DEF Deals
  <2>. QED BY <2>1, <1>4 DEF IInv, DealtOnce, None
<1>19. ChunksAnnealed'
  <2>1. \A c \in Block, u \in Thread : Holds(c, u)' <=> Holds(c, u)
    BY <1>1, <1>2 DEF Holds
  <2>. QED BY <2>1, <1>4, <1>6 DEF IInv, ChunksAnnealed, Sound
<1>20. OneActive'
  <2>1. /\ Active' = Active
        /\ Wiped(activeSlot)' <=> Wiped(activeSlot)
        /\ Wiped(probe)' <=> Wiped(probe)
    BY <1>4 DEF Active, Wiped, Sound
  <2>. QED BY <2>1, <1>1, <1>2, <1>4, <1>6, <1>8 DEF IInv, OneActive
<1>21. Registers'
  BY <1>1, <1>2, <1>4, <1>5, <1>6, <1>7 DEF IInv, Registers, Misled, ReadSide
<1>22. Handed' /\ CompleteIsWhole'
  BY <1>1, <1>4, WordsKept DEF IInv
<1>23. Claims'
  BY <1>1, <1>2, <1>4 DEF IInv, Claims, Waits, Ready
<1>. QED BY <1>11, <1>12, <1>13, <1>14, <1>15, <1>16, <1>17, <1>18, <1>19, <1>20, <1>21, <1>22, <1>23 DEF IInv

-----------------------------------------------------------------------------
(***************************************************************************)
(* The last block to arrive                                                *)
(***************************************************************************)
LEMMA Last ==
    ASSUME IInv, NEW b \in Block, pc[b][0] \in ClosePc
    PROVE  /\ generation >= 1 /\ Model(b, 0) = generation /\ Working(b) /\ Closer(b)
           /\ pc[b][1] \in {"judge", "spin"} /\ None(b)
           /\ \A c \in Block : c # b =>
                  /\ pc[c][0] \in CountPc /\ ~Closer(c) /\ None(c)
                  /\ Model(c, 0) = generation /\ Working(c)
           /\ pc[0][0] \notin {"claim", "claimEnd", "setup", "open"}
           /\ Drained = Block
<1>1. Closer(b) /\ Pair(b) /\ TypeOK
  BY DEF Closer, IInv, Paired
<1>2. /\ generation >= 1 /\ Model(b, 0) = generation /\ Working(b)
      /\ \A c \in Block : c # b =>
             /\ pc[c][0] \in CountPc /\ ~Closer(c) /\ None(c)
             /\ Model(c, 0) = generation /\ Working(c)
  BY <1>1, Closing
<1>3. pc[b][1] \in {"judge", "spin"} /\ None(b)
  BY <1>1 DEF Pair, ClosePc
<1>4. pc[0][0] \notin {"claim", "claimEnd", "setup", "open"}
  BY <1>2, Early
<1>5. Drained = Block
  BY <1>2, <1>3 DEF Drained
<1>. QED BY <1>1, <1>2, <1>3, <1>4, <1>5

\* Once it has published the model, until it opens the next or retires.
LEMMA LastMoves ==
    ASSUME IInv, NEW b \in Block, pc[b][0] \in ClosePc, pc'[b][0] \in PastPc,
           \A c \in Block, u \in Thread : c # b \/ u # 0 => pc'[c][u] = pc[c][u],
           UNCHANGED <<generation, shared, slot, myGen>>
    PROVE  /\ Paired' /\ Stage' /\ Entry' /\ OneCloser' /\ DealtOnce' /\ ChunksAnnealed' /\ Registers'
           /\ \A c \in Block : c # b => pc'[c][0] \in CountPc
           /\ pc'[0][0] \notin {"claim", "claimEnd", "setup", "open"} /\ Published'
           /\ generation' >= 1 /\ Drained' = Block
           /\ pc'[b][0] = "reset" => Arrived' = Block
<1>1. TypeOK /\ 0 \in Block /\ 0 \in Thread /\ 1 \in Thread /\ generation \in Int
  BY Basics DEF IInv
<1>2. /\ generation >= 1 /\ Model(b, 0) = generation /\ Working(b) /\ Closer(b)
      /\ pc[b][1] \in {"judge", "spin"} /\ None(b)
      /\ \A c \in Block : c # b =>
             /\ pc[c][0] \in CountPc /\ ~Closer(c) /\ None(c)
             /\ Model(c, 0) = generation /\ Working(c)
      /\ pc[0][0] \notin {"claim", "claimEnd", "setup", "open"}
  BY Last
<1>3. \A c \in Block : c # b => pc'[c][0] = pc[c][0] /\ pc'[c][1] = pc[c][1]
  BY <1>1
<1>4. \A c \in Block : c # b => pc'[c][0] \in CountPc
  BY <1>2, <1>3
<1>5. pc'[0][0] \notin {"claim", "claimEnd", "setup", "open"} /\ Published'
  BY <1>1, <1>4 DEF Published, PastPc, CountPc
<1>6. sChunk' = sChunk /\ sArrival' = sArrival
  BY DEF shared
<1>7. \A c \in Block : None(c)' <=> None(c)
  BY <1>6 DEF None
<1>8. Paired'
  <2>1. Pair(b)'
    BY <1>1, <1>2, <1>7 DEF Pair, PastPc, ClosePc
  <2>. QED BY <2>1, <1>3, <1>6, PairKept DEF IInv, Paired
<1>9. \A c \in Block, u \in Thread : Model(c, u)' = Model(c, u)
  <2>1. \A u \in Thread : Model(b, u)' = Model(b, u)
    BY <1>1, <1>2, Basics DEF Model, PastPc, ClosePc
  <2>. QED BY <2>1 DEF Model
<1>10. Stage'
  <2>1. ASSUME NEW c \in Block PROVE Working(c)'
    BY <1>1, <1>2, <1>3, <1>4, <1>9 DEF Working, PastPc, CountPc
  <2>. QED BY <1>1, <1>2, <2>1 DEF Stage
<1>11. Entry'
  <2>1. \A c \in Block : pc'[c][0] \notin {"announced", "enter"} /\ pc'[c][1] \notin {"announced", "enter"}
    BY <1>8, <1>4 DEF Paired, Pair, CountPc, PastPc, ClosePc
  <2>. QED BY <2>1 DEF Entry
<1>12. /\ generation' = generation /\ generation' >= 1
       /\ \A c \in Block : /\ Model(c, 0)' = generation' /\ None(c)'
                           /\ pc'[c][0] \in CountPc \cup ClosePc
  <2>1. \A c \in Block : Model(c, 0)' = Model(c, 0)
    BY <1>1, <1>9
  <2>2. \A c \in Block : Model(c, 0) = generation /\ None(c)
    BY <1>2
  <2>3. \A c \in Block : pc'[c][0] \in CountPc \cup ClosePc
    BY <1>4 DEF PastPc, ClosePc
  <2>. QED BY <1>2, <1>7, <2>1, <2>2, <2>3
<1>13. OneCloser'
  <2>1. \A c \in Block : c # b => ~Closer(c)'
    BY <1>2, <1>3, <1>6 DEF Closer, IsLast
  <2>. QED BY <1>12, <2>1 DEF OneCloser
<1>14. DealtOnce'
  BY <1>2, <1>7, <1>4 DEF DealtOnce
<1>15. ChunksAnnealed' /\ Registers'
  BY <1>5 DEF ChunksAnnealed, Registers
<1>16. Drained' = Block
  BY <1>12 DEF Drained
<1>17. pc'[b][0] = "reset" => Arrived' = Block
  BY <1>4, <1>12 DEF Arrived
<1>. QED BY <1>2, <1>4, <1>5, <1>8, <1>10, <1>11, <1>12, <1>13, <1>14, <1>15, <1>16, <1>17

LEMMA FinishStep ==
    ASSUME IInv, NEW b \in Block, Finish(b)
    PROVE  IInv'
<1>1. TypeOK /\ 0 \in Thread /\ 1 \in Thread /\ 0 \in Block /\ Blocks \in Nat /\ Blocks >= 1 /\ activeSlot \in Slot
  BY Basics DEF IInv
<1>2. /\ pc' \in [Block -> [Thread -> Pc]]
      /\ pc[b][0] = "finish" /\ pc'[b][0] = "reset"
      /\ \A c \in Block, u \in Thread : c # b \/ u # 0 => pc'[c][u] = pc[c][u]
  BY <1>1, Moves DEF Finish, Pc, Barrier
<1>3. /\ UNCHANGED <<exitNow, activeSlot, workQueue, blocksDone, generation, shared, slot, myGen, probe, done, held, uploads, misled>>
      /\ ctrl' = [ctrl EXCEPT ![slot[b][0]] = "COMPLETE"]
  BY DEF Finish
<1>4. /\ generation >= 1 /\ Model(b, 0) = generation
      /\ \A c \in Block : None(c) /\ Model(c, 0) = generation
      /\ \A c \in Block : c # b => pc[c][0] \in CountPc
      /\ Drained = Block
  BY <1>2, Last DEF ClosePc
<1>5. /\ Paired' /\ Stage' /\ Entry' /\ OneCloser' /\ DealtOnce' /\ ChunksAnnealed' /\ Registers'
      /\ \A c \in Block : c # b => pc'[c][0] \in CountPc
      /\ pc'[0][0] \notin {"claim", "claimEnd", "setup", "open"} /\ Published'
      /\ generation' >= 1 /\ Drained' = Block /\ Arrived' = Block
  BY <1>2, <1>3, LastMoves DEF ClosePc, PastPc
<1>6. ~Published
  BY <1>2, <1>4 DEF Published, PastPc, CountPc
<1>7. slot[b][0] = activeSlot /\ Active = {activeSlot}
  BY <1>1, <1>2, <1>4, <1>6 DEF IInv, Registers, OneActive, ReadSide, Misled
<1>8. \A s \in Slot : ctrl'[s] = IF s = activeSlot THEN "COMPLETE" ELSE ctrl[s]
  BY <1>1, <1>3, <1>7 DEF TypeOK
<1>9. TypeOK'
  BY <1>1, <1>2, <1>3 DEF TypeOK, shared
<1>10. workQueue >= Blocks
  <2>1. Drained # {}
    BY <1>1, <1>4
  <2>2. workQueue = Blocks + Cardinality(Drained)
    BY <1>2, <1>4, <2>1 DEF IInv, QueueCounted, CountPc
  <2>. QED BY <1>1, <1>4, <2>2, BlocksCounted
<1>11. CompleteIsWhole'
  <2>1. ASSUME NEW c \in Share, NEW t \in Thread PROVE Sound(t) => done[activeSlot][c][t] = 1
    <3>1. c \in Int /\ c < Blocks /\ c < workQueue
      BY <1>1, <1>10, Basics DEF Share, Chunk
    <3>2. \A a \in Block : sChunk[a] # c
      BY <1>1, <1>4, <3>1, Basics DEF None
    <3>. QED BY <1>4, <1>6, <3>1, <3>2 DEF IInv, ChunksAnnealed
  <2>. QED BY <1>3, <1>8, <2>1 DEF IInv, CompleteIsWhole, Sound
<1>12. ArrivalsCounted'
  <2>1. Arrived = Block
    BY <1>2, <1>4 DEF Arrived
  <2>2. blocksDone = Cardinality(Block)
    BY <1>2, <1>4, <2>1 DEF IInv, ArrivalsCounted, CountPc
  <2>. QED BY <1>1, <1>2, <1>3, <1>5, <2>2 DEF ArrivalsCounted, CountPc
<1>13. QueueCounted'
  BY <1>1, <1>2, <1>3, <1>4, <1>5 DEF IInv, QueueCounted, CountPc
<1>14. OneActive'
  <2>1. Active' = {}
    BY <1>7, <1>8 DEF Active
  <2>. QED BY <2>1, <1>1, <1>2, <1>3, <1>4, <1>5 DEF OneActive, CountPc
<1>15. Handed'
  BY <1>1, <1>3, <1>8 DEF IInv, Handed, Taken, Wiped, Sound
<1>16. Claims'
  <2>1. ctrl[activeSlot] = "ACTIVE"
    BY <1>7 DEF Active
  <2>2. Waits' = Waits
    BY <1>1, <1>8, <2>1 DEF Waits, Ready, Slot
  <2>. QED BY <2>2, <1>1, <1>2, <1>3, <1>4, <1>5 DEF IInv, Claims, CountPc, Waits, Ready
<1>. QED BY <1>5, <1>9, <1>11, <1>12, <1>13, <1>14, <1>15, <1>16 DEF IInv

LEMMA ResetStep ==
    ASSUME IInv, NEW b \in Block, Reset(b)
    PROVE  IInv'
<1>1. TypeOK /\ 0 \in Thread /\ 1 \in Thread /\ 0 \in Block /\ Blocks \in Nat
  BY Basics DEF IInv
<1>2. /\ pc' \in [Block -> [Thread -> Pc]]
      /\ pc[b][0] = "reset" /\ pc'[b][0] = "exitCheck"
      /\ \A c \in Block, u \in Thread : c # b \/ u # 0 => pc'[c][u] = pc[c][u]
  BY <1>1, Moves DEF Reset, Pc, Barrier
<1>3. /\ UNCHANGED <<ctrl, exitNow, activeSlot, workQueue, generation, shared, slot, myGen, probe, done, held, uploads, misled>>
      /\ blocksDone' = 0
  BY DEF Reset
<1>4. generation >= 1 /\ Drained = Block /\ \A c \in Block : c # b => pc[c][0] \in CountPc
  BY <1>2, Last DEF ClosePc
<1>5. /\ Paired' /\ Stage' /\ Entry' /\ OneCloser' /\ DealtOnce' /\ ChunksAnnealed' /\ Registers'
      /\ \A c \in Block : c # b => pc'[c][0] \in CountPc
      /\ pc'[0][0] \notin {"claim", "claimEnd", "setup", "open"} /\ Published'
      /\ generation' >= 1 /\ Drained' = Block
  BY <1>2, <1>3, LastMoves DEF ClosePc, PastPc
<1>6. TypeOK'
  BY <1>1, <1>2, <1>3 DEF TypeOK, shared
<1>7. ArrivalsCounted'
  BY <1>1, <1>2, <1>3 DEF ArrivalsCounted
<1>8. QueueCounted'
  BY <1>1, <1>2, <1>3, <1>4, <1>5 DEF IInv, QueueCounted, CountPc
<1>9. OneActive'
  <2>1. Active' = Active /\ Active = {}
    BY <1>2, <1>3 DEF IInv, OneActive, Active
  <2>. QED BY <2>1, <1>1, <1>2, <1>3, <1>4, <1>5 DEF OneActive, CountPc
<1>10. Handed' /\ CompleteIsWhole'
  BY <1>1, <1>3, WordsKept DEF IInv
<1>11. Claims'
  BY <1>1, <1>2, <1>3, <1>5 DEF IInv, Claims, CountPc, Waits, Ready
<1>. QED BY <1>5, <1>6, <1>7, <1>8, <1>9, <1>10, <1>11 DEF IInv

\* The last block has published and goes on: it will scan, or hand over.
LEMMA ExitCheckStep ==
    ASSUME IInv, NEW b \in Block, ExitCheck(b), ~exitNow
    PROVE  IInv'
<1>1. TypeOK /\ 0 \in Thread /\ 1 \in Thread /\ 0 \in Block /\ Blocks \in Nat /\ 0 \in Slot
  BY Basics DEF IInv, Slot
<1>2. /\ pc' \in [Block -> [Thread -> Pc]]
      /\ pc[b][0] = "exitCheck" /\ pc'[b][0] = "rescan"
      /\ \A c \in Block, u \in Thread : c # b \/ u # 0 => pc'[c][u] = pc[c][u]
  BY <1>1, Moves DEF ExitCheck, Pc, Barrier
<1>3. /\ UNCHANGED <<ctrl, exitNow, activeSlot, workQueue, blocksDone, generation, shared, slot, myGen, done, held, uploads, misled>>
      /\ probe' = 0
  BY DEF ExitCheck
<1>4. generation >= 1 /\ Drained = Block /\ \A c \in Block : c # b => pc[c][0] \in CountPc
  BY <1>2, Last DEF ClosePc
<1>5. /\ Paired' /\ Stage' /\ Entry' /\ OneCloser' /\ DealtOnce' /\ ChunksAnnealed' /\ Registers'
      /\ \A c \in Block : c # b => pc'[c][0] \in CountPc
      /\ pc'[0][0] \notin {"claim", "claimEnd", "setup", "open"} /\ Published'
      /\ generation' >= 1 /\ Drained' = Block
  BY <1>2, <1>3, LastMoves DEF ClosePc, PastPc
<1>6. TypeOK'
  BY <1>1, <1>2, <1>3 DEF TypeOK, shared
<1>7. ArrivalsCounted'
  BY <1>1, <1>2, <1>3 DEF IInv, ArrivalsCounted
<1>8. QueueCounted'
  BY <1>1, <1>2, <1>3, <1>4, <1>5 DEF IInv, QueueCounted, CountPc
<1>9. OneActive'
  <2>1. Active' = Active /\ Active = {}
    BY <1>2, <1>3 DEF IInv, OneActive, Active
  <2>. QED BY <2>1, <1>1, <1>2, <1>3, <1>4, <1>5 DEF OneActive, CountPc
<1>10. Handed' /\ CompleteIsWhole'
  BY <1>1, <1>3, WordsKept DEF IInv
<1>11. Claims'
  BY <1>1, <1>2, <1>3, <1>5 DEF IInv, Claims, CountPc, Waits, Ready
<1>. QED BY <1>5, <1>6, <1>7, <1>8, <1>9, <1>10, <1>11 DEF IInv

LEMMA RescanHitStep ==
    ASSUME IInv, NEW b \in Block, ScanHit(b), Go(b, 0, "rescan", "hand")
    PROVE  IInv'
<1>1. TypeOK /\ 0 \in Thread /\ 1 \in Thread /\ 0 \in Block /\ Blocks \in Nat
  BY Basics DEF IInv
<1>2. /\ pc' \in [Block -> [Thread -> Pc]]
      /\ pc[b][0] = "rescan" /\ pc'[b][0] = "hand"
      /\ \A c \in Block, u \in Thread : c # b \/ u # 0 => pc'[c][u] = pc[c][u]
  BY <1>1, Moves DEF Pc, Barrier
<1>3. UNCHANGED <<exitNow, activeSlot, workQueue, blocksDone, generation, shared, slot, myGen, probe, done, held, uploads, misled>>
  BY DEF ScanHit
<1>4. /\ generation >= 1 /\ generation >= 0 /\ Active = {}
      /\ Drained = Block /\ \A c \in Block : c # b => pc[c][0] \in CountPc
  BY <1>1, <1>2, Last, Basics DEF ClosePc, IInv, OneActive
<1>5. /\ Paired' /\ Stage' /\ Entry' /\ OneCloser' /\ DealtOnce' /\ ChunksAnnealed' /\ Registers'
      /\ \A c \in Block : c # b => pc'[c][0] \in CountPc
      /\ pc'[0][0] \notin {"claim", "claimEnd", "setup", "open"} /\ Published'
      /\ generation' >= 1 /\ Drained' = Block
  BY <1>2, <1>3, LastMoves DEF ClosePc, PastPc
<1>6. TypeOK'
  BY <1>1, <1>2, <1>3 DEF TypeOK, shared, ScanHit
<1>7. /\ Active' = {probe'} /\ Wiped(probe)' /\ Handed' /\ CompleteIsWhole'
      /\ generation' + Waits' <= uploads' /\ generation' + 1 + Waits' <= uploads'
  BY <1>3, <1>4, Claiming
<1>8. ArrivalsCounted'
  BY <1>1, <1>2, <1>3 DEF IInv, ArrivalsCounted
<1>9. QueueCounted'
  BY <1>1, <1>2, <1>3, <1>4, <1>5 DEF IInv, QueueCounted, CountPc
<1>10. OneActive'
  BY <1>7, <1>1, <1>2, <1>3, <1>4, <1>5 DEF OneActive, CountPc
<1>11. Claims'
  BY <1>7 DEF Claims
<1>. QED BY <1>5, <1>6, <1>7, <1>8, <1>9, <1>10, <1>11 DEF IInv

LEMMA HandStep ==
    ASSUME IInv, NEW b \in Block, Hand(b)
    PROVE  IInv'
<1>1. TypeOK /\ 0 \in Thread /\ 1 \in Thread /\ 0 \in Block /\ Blocks \in Nat
  BY Basics DEF IInv
<1>2. /\ pc' \in [Block -> [Thread -> Pc]]
      /\ pc[b][0] = "hand" /\ pc'[b][0] = "advance"
      /\ \A c \in Block, u \in Thread : c # b \/ u # 0 => pc'[c][u] = pc[c][u]
  BY <1>1, Moves DEF Hand, Pc, Barrier
<1>3. /\ UNCHANGED <<ctrl, exitNow, blocksDone, generation, shared, slot, myGen, probe, done, held, uploads, misled>>
      /\ activeSlot' = probe /\ workQueue' = 0
  BY DEF Hand
<1>4. generation >= 1 /\ Active = {probe} /\ Wiped(probe)
  BY <1>1, <1>2, Last DEF ClosePc, IInv, OneActive
<1>5. /\ Paired' /\ Stage' /\ Entry' /\ OneCloser' /\ DealtOnce' /\ ChunksAnnealed' /\ Registers'
      /\ \A c \in Block : c # b => pc'[c][0] \in CountPc
      /\ pc'[0][0] \notin {"claim", "claimEnd", "setup", "open"} /\ Published'
      /\ generation' >= 1 /\ Drained' = Block
  BY <1>2, <1>3, LastMoves DEF ClosePc, PastPc
<1>6. TypeOK'
  <2>1. 0 \in 0..(2 * Blocks)
    BY <1>1
  <2>. QED BY <1>1, <1>2, <1>3, <2>1 DEF TypeOK, shared
<1>7. ArrivalsCounted'
  BY <1>1, <1>2, <1>3 DEF IInv, ArrivalsCounted
<1>8. QueueCounted'
  BY <1>2, <1>3 DEF QueueCounted
<1>9. OneActive'
  <2>1. Active' = Active /\ (Wiped(activeSlot)' <=> Wiped(probe))
    BY <1>3 DEF Active, Wiped, Sound
  <2>. QED BY <2>1, <1>1, <1>2, <1>3, <1>4, <1>5 DEF OneActive, CountPc
<1>10. Handed' /\ CompleteIsWhole'
  BY <1>1, <1>3, WordsKept DEF IInv
<1>11. Claims'
  BY <1>1, <1>2, <1>3, <1>5 DEF IInv, Claims, CountPc, Waits, Ready
<1>. QED BY <1>5, <1>6, <1>7, <1>8, <1>9, <1>10, <1>11 DEF IInv

\* The threads of a closed model, whether its last block retires or goes on.
LEMMA AllCounted ==
    ASSUME IInv, NEW b \in Block, pc[b][0] \in ClosePc, pc'[b][0] = "spin",
           \A c \in Block, u \in Thread : c # b \/ u # 0 => pc'[c][u] = pc[c][u],
           UNCHANGED <<shared, myGen>>
    PROVE  /\ Paired' /\ \A c \in Block : None(c)' /\ ~Closer(c)'
           /\ \A c \in Block : pc'[c][0] \in CountPc /\ pc'[c][1] \in CountPc \cup {"took"}
           /\ \A c \in Block, u \in Thread : Model(c, u)' = generation
           /\ generation >= 1 /\ ~Published'
<1>1. TypeOK /\ 0 \in Thread /\ 1 \in Thread /\ \A u \in Thread : u = 0 \/ u = 1
  BY Basics DEF IInv
<1>2. /\ generation >= 1 /\ Working(b) /\ pc[b][1] \in {"judge", "spin"} /\ None(b)
      /\ \A c \in Block : c # b => pc[c][0] \in CountPc /\ None(c) /\ ~Closer(c) /\ Working(c)
  BY Last
<1>3. /\ pc'[b][1] = pc[b][1]
      /\ \A c \in Block : c # b => pc'[c][0] = pc[c][0] /\ pc'[c][1] = pc[c][1]
      /\ sChunk' = sChunk /\ sArrival' = sArrival
  BY <1>1 DEF shared
<1>4. Paired'
  <2>1. Pair(b)'
    BY <1>1, <1>2, <1>3 DEF Pair, None
  <2>. QED BY <2>1, <1>3, PairKept DEF IInv, Paired
<1>5. \A c \in Block : None(c)' /\ ~Closer(c)'
  BY <1>2, <1>3 DEF None, Closer, IsLast, ClosePc
<1>6. ASSUME NEW c \in Block
      PROVE  /\ pc'[c][0] \in CountPc /\ pc'[c][1] \in CountPc \cup {"took"}
             /\ Model(c, 0)' = generation /\ Model(c, 1)' = generation
  <2>1. CASE c = b
    BY <2>1, <1>2, <1>3 DEF Working, Model, CountPc, ClosePc
  <2>2. CASE c # b
    <3>1. Pair(c) /\ Working(c) /\ pc[c][0] \in CountPc
      BY <2>2, <1>2 DEF IInv, Paired
    <3>2. pc[c][1] \in CountPc \cup {"took"}
      BY <3>1 DEF Pair, Working, CountPc, ClosePc
    <3>. QED BY <2>2, <3>1, <3>2, <1>3 DEF Working, Model
  <2>. QED BY <2>1, <2>2
<1>7. ~Published'
  BY <1>6 DEF Published, PastPc, CountPc
<1>. QED BY <1>1, <1>2, <1>4, <1>5, <1>6, <1>7

\* Every block leaves: on EXIT_NOW, or when the scan came up empty.
LEMMA LeavesStep ==
    ASSUME IInv, TypeOK', NEW b \in Block, pc[b][0] \in {"exitCheck", "rescan"}, pc'[b][0] = "spin",
           \A c \in Block, u \in Thread : c # b \/ u # 0 => pc'[c][u] = pc[c][u],
           generation' = -1,
           UNCHANGED <<ctrl, activeSlot, workQueue, blocksDone, shared, slot, myGen, done, held, uploads, misled>>
    PROVE  IInv'
<1>1. TypeOK /\ 0 \in Thread /\ 1 \in Thread /\ 0 \in Block
  BY Basics DEF IInv
<1>2. /\ Paired' /\ \A c \in Block : None(c)' /\ ~Closer(c)'
      /\ \A c \in Block : pc'[c][0] \in CountPc /\ pc'[c][1] \in CountPc \cup {"took"}
  BY AllCounted DEF ClosePc
<1>3. Stage' /\ Entry' /\ OneCloser'
  BY <1>2 DEF Stage, Leaving, Entry, OneCloser, CountPc
<1>4. ArrivalsCounted' /\ QueueCounted' /\ DealtOnce' /\ ChunksAnnealed' /\ Registers' /\ Claims'
  BY <1>2 DEF ArrivalsCounted, QueueCounted, DealtOnce, ChunksAnnealed, Registers, Claims, CountPc
<1>5. OneActive'
  <2>1. Active' = Active /\ Active = {}
    BY DEF IInv, OneActive, Active
  <2>. QED BY <2>1, <1>1, <1>2 DEF OneActive, CountPc
<1>6. Handed' /\ CompleteIsWhole'
  BY <1>1, WordsKept DEF IInv
<1>. QED BY <1>2, <1>3, <1>4, <1>5, <1>6 DEF IInv

LEMMA ExitCheckLeaves ==
    ASSUME IInv, NEW b \in Block, ExitCheck(b), exitNow
    PROVE  IInv'
<1>1. TypeOK /\ 0 \in Thread /\ MaxUploads \in Nat /\ 0 \in Slot
  BY Basics DEF IInv, Slot
<1>2. /\ pc' \in [Block -> [Thread -> Pc]]
      /\ pc[b][0] = "exitCheck" /\ pc'[b][0] = "spin"
      /\ \A c \in Block, u \in Thread : c # b \/ u # 0 => pc'[c][u] = pc[c][u]
  BY <1>1, Moves DEF ExitCheck, Pc, Barrier
<1>3. /\ UNCHANGED <<ctrl, exitNow, activeSlot, workQueue, blocksDone, shared, slot, myGen, done, held, uploads, misled>>
      /\ generation' = -1 /\ probe' = 0 /\ -1 \in -1..MaxUploads
  BY <1>1 DEF ExitCheck
<1>4. TypeOK'
  BY <1>1, <1>2, <1>3 DEF TypeOK, shared
<1>. QED BY <1>2, <1>3, <1>4, LeavesStep

LEMMA RetireStep ==
    ASSUME IInv, NEW b \in Block, Retire(b)
    PROVE  IInv'
<1>1. TypeOK /\ 0 \in Thread /\ MaxUploads \in Nat
  BY Basics DEF IInv
<1>2. /\ pc' \in [Block -> [Thread -> Pc]]
      /\ pc[b][0] = "rescan" /\ pc'[b][0] = "spin"
      /\ \A c \in Block, u \in Thread : c # b \/ u # 0 => pc'[c][u] = pc[c][u]
  BY <1>1, Moves DEF Retire, Pc, Barrier
<1>3. /\ UNCHANGED <<ctrl, exitNow, activeSlot, workQueue, blocksDone, shared, slot, myGen, probe, done, held, uploads, misled>>
      /\ generation' = -1 /\ -1 \in -1..MaxUploads
  BY <1>1 DEF Retire
<1>4. TypeOK'
  BY <1>1, <1>2, <1>3 DEF TypeOK, shared
<1>. QED BY <1>2, <1>3, <1>4, LeavesStep

LEMMA AdvanceStep ==
    ASSUME IInv, NEW b \in Block, Advance(b)
    PROVE  IInv'
<1>1. /\ TypeOK /\ 0 \in Thread /\ 1 \in Thread /\ 0 \in Block /\ Blocks \in Nat
      /\ MaxUploads \in Nat /\ generation \in Int
      /\ \A u \in Thread : u = 0 \/ u = 1
  BY Basics DEF IInv
<1>2. /\ pc' \in [Block -> [Thread -> Pc]]
      /\ pc[b][0] = "advance" /\ pc'[b][0] = "spin"
      /\ \A c \in Block, u \in Thread : c # b \/ u # 0 => pc'[c][u] = pc[c][u]
  BY <1>1, Moves DEF Advance, Pc, Barrier
<1>3. /\ UNCHANGED <<ctrl, exitNow, activeSlot, workQueue, blocksDone, shared, slot, myGen, probe, done, held, uploads, misled>>
      /\ generation' = generation + 1
  BY DEF Advance
<1>4. /\ Paired' /\ \A c \in Block : None(c)' /\ ~Closer(c)'
      /\ \A c \in Block : pc'[c][0] \in CountPc /\ pc'[c][1] \in CountPc \cup {"took"}
      /\ \A c \in Block, u \in Thread : Model(c, u)' = generation
      /\ generation >= 1 /\ ~Published'
  BY <1>2, <1>3, AllCounted DEF ClosePc
<1>5. /\ workQueue = 0 /\ blocksDone = 0
      /\ Active = {activeSlot} /\ Wiped(activeSlot)
  BY <1>2 DEF IInv, ArrivalsCounted, QueueCounted, OneActive
<1>6. Waits' = Waits /\ Waits \in Nat /\ uploads \in Int /\ generation + 1 + Waits <= uploads
  <2>1. Waits' = Waits
    BY <1>3 DEF Waits, Ready
  <2>2. Waits \in Nat /\ uploads \in Int
    <3>1. Waits \in Nat
      BY DEF Waits, Ready
    <3>2. uploads \in Int
      BY <1>1 DEF TypeOK
    <3>. QED BY <3>1, <3>2
  <2>3. generation + 1 + Waits <= uploads
    BY <1>1, <1>2, <1>4 DEF IInv, Claims
  <2>. QED BY <2>1, <2>2, <2>3
<1>7. TypeOK'
  <2>1. generation' \in -1..MaxUploads
    BY <1>1, <1>3, <1>4, <1>6 DEF TypeOK
  <2>. QED BY <1>1, <1>2, <1>3, <2>1 DEF TypeOK, shared
<1>8. Stage'
  BY <1>1, <1>3, <1>4 DEF Stage, Waking
<1>9. Entry' /\ OneCloser' /\ DealtOnce'
  BY <1>4 DEF Entry, OneCloser, DealtOnce, CountPc
<1>10. \A c \in Block : Model(c, 0)' # generation' /\ Model(c, 1)' # generation'
  BY <1>1, <1>3, <1>4
<1>11. ArrivalsCounted'
  <2>1. Arrived' = {}
    BY <1>10 DEF Arrived
  <2>2. Cardinality({}) = 0
    BY FS_EmptySet
  <2>. QED BY <1>3, <1>4, <1>5, <2>1, <2>2 DEF ArrivalsCounted, CountPc
<1>12. QueueCounted'
  <2>1. Drained' = {}
    BY <1>10 DEF Drained
  <2>. QED BY <1>1, <1>3, <1>4, <1>5, <2>1 DEF QueueCounted, CountPc
<1>13. ChunksAnnealed'
  <2>1. \A c \in Share, t \in Thread : Sound(t)' => done'[activeSlot'][c][t] = 0
    BY <1>3, <1>5 DEF Wiped, Sound
  <2>. QED BY <1>1, <1>3, <1>5, <2>1 DEF ChunksAnnealed, Share, Chunk
<1>14. OneActive'
  <2>1. Active' = Active
    BY <1>3 DEF Active
  <2>. QED BY <2>1, <1>1, <1>3, <1>4, <1>5 DEF OneActive, CountPc
<1>15. Registers'
  BY <1>1, <1>10 DEF Registers
<1>16. Handed' /\ CompleteIsWhole'
  BY <1>1, <1>3, WordsKept DEF IInv
<1>17. Claims'
  <2>1. generation' + Waits' <= uploads'
    BY <1>1, <1>3, <1>6
  <2>. QED BY <1>4, <2>1 DEF Claims, CountPc
<1>. QED BY <1>4, <1>7, <1>8, <1>9, <1>11, <1>12, <1>13, <1>14, <1>15, <1>16, <1>17 DEF IInv

-----------------------------------------------------------------------------
(***************************************************************************)
(* Steps that leave the blocks where they are: a miss of the scan, and     *)
(* the host                                                                *)
(***************************************************************************)
LEMMA StillBlocks ==
    ASSUME IInv, UNCHANGED <<activeSlot, workQueue, blocksDone, generation, shared, pc, slot, myGen, misled>>
    PROVE  /\ Paired' /\ Stage' /\ Entry' /\ OneCloser' /\ ArrivalsCounted' /\ QueueCounted' /\ DealtOnce'
           /\ Registers' /\ (Published' <=> Published) /\ \A b \in Block, t \in Thread : Holds(b, t)' <=> Holds(b, t)
<1>1. /\ UNCHANGED <<activeSlot, workQueue, blocksDone, generation, pc, slot, myGen, misled>>
      /\ sChunk' = sChunk /\ sArrival' = sArrival
  BY DEF shared
<1>2. Paired'
  BY <1>1 DEF IInv, Paired, Pair, None, Whole
<1>3. \A b \in Block, t \in Thread : Model(b, t)' = Model(b, t)
  BY <1>1 DEF Model
<1>4. /\ \A b \in Block : Model(b, 0)' = Model(b, 0) /\ Model(b, 1)' = Model(b, 1)
      /\ \A b \in Block : Closer(b)' <=> Closer(b)
      /\ \A b \in Block : (None(b)' <=> None(b)) /\ (Deals(b)' <=> Deals(b))
      /\ Published' <=> Published
      /\ \A b \in Block, t \in Thread : Holds(b, t)' <=> Holds(b, t)
  BY <1>1 DEF Model, Closer, IsLast, None, Deals, Published, Holds
<1>5. Stage'
  BY <1>1, <1>4 DEF IInv, Stage, Waiting, Working, Waking, Leaving
<1>6. Entry' /\ OneCloser'
  BY <1>1, <1>4 DEF IInv, Entry, OneCloser
<1>7. ArrivalsCounted'
  <2>1. Arrived' = Arrived
    BY <1>1, <1>4 DEF Arrived
  <2>. QED BY <1>1, <2>1 DEF IInv, ArrivalsCounted
<1>8. QueueCounted'
  <2>1. Drained' = Drained
    BY <1>1, <1>4 DEF Drained
  <2>. QED BY <1>1, <2>1 DEF IInv, QueueCounted
<1>9. DealtOnce' /\ Registers'
  BY <1>1, <1>3, <1>4 DEF IInv, DealtOnce, Registers, Misled
<1>. QED BY <1>2, <1>4, <1>5, <1>6, <1>7, <1>8, <1>9

LEMMA ScanMissStep ==
    ASSUME IInv, NEW b \in Block, ScanMiss(b)
    PROVE  IInv'
<1>1. TypeOK /\ Pair(b) /\ 0 \in Block /\ probe \in Slot
  BY Basics DEF IInv, Paired
<1>2. /\ UNCHANGED <<ctrl, exitNow, activeSlot, workQueue, blocksDone, generation, shared, pc, slot, myGen, done, held, uploads, misled>>
      /\ pc[b][0] \in {"claim", "rescan"} /\ probe < 2 /\ probe' = probe + 1
  BY DEF ScanMiss, control
<1>3. TypeOK'
  <2>1. probe' \in Slot
    BY <1>1, <1>2 DEF Slot
  <2>. QED BY <1>1, <1>2, <2>1 DEF TypeOK, shared
<1>4. /\ Paired' /\ Stage' /\ Entry' /\ OneCloser' /\ ArrivalsCounted' /\ QueueCounted' /\ DealtOnce'
      /\ Registers' /\ (Published' <=> Published) /\ \A c \in Block, t \in Thread : Holds(c, t)' <=> Holds(c, t)
  BY <1>2, StillBlocks
<1>5. ChunksAnnealed'
  BY <1>2, <1>4 DEF IInv, ChunksAnnealed, Sound, shared
<1>6. pc[0][0] \notin {"setup", "open"} /\ \A c \in Block : pc[c][0] # "hand"
  <2>1. CASE pc[b][0] = "claim"
    <3>1. b = 0
      BY <1>1, <2>1 DEF Pair, ClosePc
    <3>. QED BY <2>1, <3>1, Early
  <2>2. CASE pc[b][0] = "rescan"
    BY <2>2, Last DEF ClosePc, CountPc
  <2>. QED BY <1>2, <2>1, <2>2
<1>7. OneActive'
  <2>1. /\ Active' = Active
        /\ activeSlot' = activeSlot => (Wiped(activeSlot)' <=> Wiped(activeSlot))
        /\ probe' = probe => (Wiped(probe)' <=> Wiped(probe))
    BY <1>2 DEF Active, Wiped, Sound
  <2>. QED BY <2>1, <1>2, <1>4, <1>6 DEF IInv, OneActive
<1>8. Handed' /\ CompleteIsWhole'
  BY <1>1, <1>2, WordsKept DEF IInv
<1>9. Claims'
  BY <1>2 DEF IInv, Claims, Waits, Ready
<1>. QED BY <1>3, <1>4, <1>5, <1>7, <1>8, <1>9 DEF IInv

LEMMA UploadStep ==
    ASSUME IInv, NEW s \in Slot, Upload(s)
    PROVE  IInv'
<1>1. TypeOK /\ 0 \in Block /\ probe \in Slot /\ activeSlot \in Slot
  BY Basics DEF IInv
<1>2. /\ UNCHANGED <<exitNow, activeSlot, workQueue, blocksDone, generation, shared, pc, slot, myGen, probe, misled>>
      /\ uploads < MaxUploads /\ uploads' = uploads + 1
      /\ Len(held) < 2 /\ ~Taken(s) /\ held' = Append(held, s)
      /\ ctrl' = [ctrl EXCEPT ![s] = "READY"]
      /\ done' = [done EXCEPT ![s] = NoWork]
  BY DEF Upload
<1>3. /\ \A r \in Slot : ctrl'[r] = IF r = s THEN "READY" ELSE ctrl[r]
      /\ \A r \in Slot : done'[r] = IF r = s THEN NoWork ELSE done[r]
  BY <1>1, <1>2 DEF TypeOK
<1>4. ctrl[s] \notin {"READY", "ACTIVE"}
  BY <1>2 DEF IInv, Handed
<1>5. Active' = Active /\ s \notin Active
  BY <1>3, <1>4 DEF Active
<1>6. NoWork \in [Share -> [Thread -> Nat]] /\ \A r \in Slot : Wiped(r)' <=> Wiped(r) \/ r = s
  BY <1>2, <1>3 DEF NoWork, Wiped, Sound
<1>7. TypeOK'
  <2>1. held' \in Seq(Slot) /\ Len(held') <= 2
    BY <1>1, <1>2 DEF TypeOK
  <2>2. uploads' \in 0..MaxUploads
    BY <1>1, <1>2, Assumption DEF TypeOK
  <2>3. ctrl' \in [Slot -> {"EMPTY", "READY", "ACTIVE", "COMPLETE"}] /\ done' \in [Slot -> [Share -> [Thread -> Nat]]]
    BY <1>1, <1>2, <1>6 DEF TypeOK
  <2>. QED BY <1>1, <1>2, <2>1, <2>2, <2>3 DEF TypeOK, shared
<1>8. /\ Paired' /\ Stage' /\ Entry' /\ OneCloser' /\ ArrivalsCounted' /\ QueueCounted' /\ DealtOnce'
      /\ Registers' /\ (Published' <=> Published) /\ \A c \in Block, t \in Thread : Holds(c, t)' <=> Holds(c, t)
  BY <1>2, StillBlocks
<1>9. ChunksAnnealed'
  <2>1. ASSUME generation >= 1, ~Published PROVE done'[activeSlot] = done[activeSlot]
    <3>1. activeSlot \in Active
      BY <2>1 DEF IInv, OneActive
    <3>. QED BY <1>1, <1>3, <1>5, <3>1
  <2>. QED BY <2>1, <1>2, <1>8 DEF IInv, ChunksAnnealed, Sound, shared
<1>10. OneActive'
  <2>1. \A r \in Slot : r \in Active => done'[r] = done[r]
    BY <1>3, <1>5
  <2>. QED BY <2>1, <1>1, <1>2, <1>5, <1>6, <1>8 DEF IInv, OneActive
<1>11. \A r \in Slot : Taken(r)' <=> Taken(r) \/ r = s
  <2>1. held \in Seq(Slot)
    BY <1>1 DEF TypeOK
  <2>. QED BY <2>1, <1>2 DEF Taken
<1>12. Handed'
  BY <1>3, <1>6, <1>11 DEF IInv, Handed
<1>13. CompleteIsWhole'
  BY <1>2, <1>3 DEF IInv, CompleteIsWhole, Sound
<1>14. Claims'
  <2>1. 0 \in Slot /\ 1 \in Slot /\ 2 \in Slot /\ (s = 0 \/ s = 1 \/ s = 2)
    BY DEF Slot
  <2>2. Waits' = Waits + 1
    BY <1>3, <1>4, <2>1 DEF Waits, Ready
  <2>3. Waits \in Nat /\ Waits' \in Nat /\ uploads \in Int /\ generation \in Int
    <3>1. Waits \in Nat
      BY DEF Waits, Ready
    <3>. QED BY <1>1, <2>2, <3>1, Basics DEF TypeOK
  <2>4. ASSUME NEW n \in Int, n + Waits <= uploads PROVE n + Waits' <= uploads'
    BY <1>2, <2>2, <2>3, <2>4
  <2>5. generation + 1 \in Int
    BY <2>3
  <2>6. /\ generation >= 0 => generation + Waits <= uploads
        /\ \A b \in Block : generation >= 0 /\ pc[b][0] \in {"setup", "open", "hand", "advance"}
                => generation + 1 + Waits <= uploads
    BY DEF IInv, Claims
  <2>. QED BY <1>2, <2>3, <2>4, <2>5, <2>6 DEF Claims
<1>. QED BY <1>7, <1>8, <1>9, <1>10, <1>12, <1>13, <1>14 DEF IInv

LEMMA DeliverStep ==
    ASSUME IInv, Deliver
    PROVE  IInv'
<1>1. TypeOK /\ 0 \in Block
  BY Basics DEF IInv
<1>2. /\ UNCHANGED <<ctrl, exitNow, activeSlot, workQueue, blocksDone, generation, shared, pc, slot, myGen, probe, done, uploads, misled>>
      /\ held # <<>> /\ ctrl[Head(held)] = "COMPLETE" /\ held' = Tail(held)
  BY DEF Deliver, control
<1>3. held \in Seq(Slot) /\ Len(held) <= 2
  BY <1>1 DEF TypeOK
<1>4. TypeOK'
  <2>1. held' \in Seq(Slot) /\ Len(held') <= 2
    BY <1>2, <1>3
  <2>. QED BY <1>1, <1>2, <2>1 DEF TypeOK, shared
<1>5. /\ Paired' /\ Stage' /\ Entry' /\ OneCloser' /\ ArrivalsCounted' /\ QueueCounted' /\ DealtOnce'
      /\ Registers' /\ (Published' <=> Published) /\ \A c \in Block, t \in Thread : Holds(c, t)' <=> Holds(c, t)
  BY <1>2, StillBlocks
<1>6. ChunksAnnealed'
  BY <1>2, <1>5 DEF IInv, ChunksAnnealed, Sound, shared
<1>7. OneActive'
  <2>1. /\ Active' = Active
        /\ activeSlot' = activeSlot => (Wiped(activeSlot)' <=> Wiped(activeSlot))
        /\ probe' = probe => (Wiped(probe)' <=> Wiped(probe))
    BY <1>2 DEF Active, Wiped, Sound
  <2>. QED BY <2>1, <1>2, <1>5 DEF IInv, OneActive
<1>8. ASSUME NEW r \in Slot, Taken(r), r # Head(held) PROVE Taken(r)'
  <2>1. PICK i \in 1..Len(held) : held[i] = r
    BY <1>8 DEF Taken
  <2>2. i # 1 /\ i - 1 \in 1..Len(Tail(held)) /\ Tail(held)[i - 1] = held[i]
    BY <1>2, <1>3, <1>8, <2>1
  <2>. QED BY <1>2, <2>1, <2>2 DEF Taken
<1>9. Handed' /\ CompleteIsWhole'
  BY <1>2, <1>8 DEF IInv, Handed, CompleteIsWhole, Wiped, Sound
<1>10. Claims'
  BY <1>2 DEF IInv, Claims, Waits, Ready
<1>. QED BY <1>4, <1>5, <1>6, <1>7, <1>9, <1>10 DEF IInv

\* EXIT_NOW, the end, and steps that change nothing.
LEMMA StillStep ==
    ASSUME IInv, exitNow' \in BOOLEAN,
           UNCHANGED <<ctrl, activeSlot, workQueue, blocksDone, generation, shared, pc, slot, myGen, probe, done, held, uploads, misled>>
    PROVE  IInv'
<1>1. TypeOK
  BY DEF IInv
<1>2. TypeOK'
  BY <1>1 DEF TypeOK, shared
<1>3. /\ Paired' /\ Stage' /\ Entry' /\ OneCloser' /\ ArrivalsCounted' /\ QueueCounted' /\ DealtOnce'
      /\ Registers' /\ (Published' <=> Published) /\ \A c \in Block, t \in Thread : Holds(c, t)' <=> Holds(c, t)
  BY StillBlocks
<1>4. ChunksAnnealed'
  BY <1>3 DEF IInv, ChunksAnnealed, Sound, shared
<1>5. OneActive'
  <2>1. /\ Active' = Active
        /\ activeSlot' = activeSlot => (Wiped(activeSlot)' <=> Wiped(activeSlot))
        /\ probe' = probe => (Wiped(probe)' <=> Wiped(probe))
    BY DEF Active, Wiped, Sound
  <2>. QED BY <2>1, <1>3 DEF IInv, OneActive
<1>6. Handed' /\ CompleteIsWhole'
  BY <1>1, WordsKept DEF IInv
<1>7. Claims'
  BY DEF IInv, Claims, Waits, Ready
<1>. QED BY <1>2, <1>3, <1>4, <1>5, <1>6, <1>7 DEF IInv

-----------------------------------------------------------------------------
(***************************************************************************)
(* The invariant                                                           *)
(***************************************************************************)
LEMMA InitHolds == Init => IInv
<1>. SUFFICES ASSUME Init PROVE IInv
  OBVIOUS
<1>1. /\ Blocks \in Nat /\ Blocks >= 1 /\ MaxUploads \in Nat /\ 0 \in Block /\ 0 \in Slot
      /\ 0 \in Thread /\ 1 \in Thread /\ \A t \in Thread : t = 0 \/ t = 1
  BY Assumption DEF Block, Slot, Thread
<1>2. /\ generation = 0 /\ activeSlot = 0 /\ workQueue = 0 /\ blocksDone = 0 /\ uploads = 0 /\ held = <<>>
      /\ \A b \in Block : pc[b][1] = "announced" /\ pc[b][0] = IF b = 0 THEN "claim" ELSE "await"
      /\ \A b \in Block, t \in Thread : myGen[b][t] = 1
      /\ \A s \in Slot : ctrl[s] = "EMPTY"
  BY <1>1 DEF Init
<1>3. TypeOK
  <2>1. /\ 0 \in 0..(2 * Blocks) /\ 0 \in 0..Blocks /\ 0 \in -1..MaxUploads /\ 1 \in 1..(MaxUploads + 1)
        /\ 0 \in -1..(2 * Blocks) /\ 0 \in 0..MaxUploads
    BY <1>1
  <2>2. NoWork \in [Share -> [Thread -> Nat]]
    BY DEF NoWork
  <2>3. pc \in [Block -> [Thread -> Pc]]
    BY DEF Init, Pc, Barrier
  <2>4. held \in Seq(Slot) /\ Len(held) <= 2
    BY <1>2
  <2>. QED BY <1>1, <2>1, <2>2, <2>3, <2>4 DEF Init, TypeOK
<1>4. Paired /\ Stage /\ Entry /\ OneCloser
  BY <1>1, <1>2 DEF Paired, Pair, Stage, Waiting, Entry, OneCloser, Closer, ClosePc
<1>5. ArrivalsCounted /\ QueueCounted /\ DealtOnce /\ ChunksAnnealed /\ Registers
  BY <1>1, <1>2 DEF ArrivalsCounted, QueueCounted, DealtOnce, Deals, ChunksAnnealed, Registers
<1>6. OneActive
  BY <1>1, <1>2 DEF OneActive, Active
<1>7. Handed /\ CompleteIsWhole
  BY <1>2 DEF Handed, CompleteIsWhole
<1>8. Claims
  <2>1. Waits = 0
    BY <1>2 DEF Waits, Ready, Slot
  <2>. QED BY <1>1, <1>2, <2>1 DEF Claims
<1>. QED BY <1>3, <1>4, <1>5, <1>6, <1>7, <1>8 DEF IInv

\* A scan that hits claims for the lead block, or for the last to arrive.
LEMMA ScanHitStep ==
    ASSUME IInv, NEW b \in Block, ScanHit(b)
    PROVE  IInv'
BY ClaimHitStep, RescanHitStep DEF ScanHit

LEMMA NextHolds ==
    ASSUME IInv, [Next]_vars, InStep'
    PROVE  IInv'
<1>1. ASSUME Host PROVE IInv'
  <2>1. SetExitNow => IInv'
    BY StillStep DEF SetExitNow
  <2>. QED BY <1>1, <2>1, DeliverStep, UploadStep DEF Host
<1>2. ASSUME NEW b \in Block, LeadThread(b) PROVE IInv'
  BY <1>2, ScanHitStep, ScanMissStep, ClaimEndsStep, ClaimAgainStep, ClaimExitStep, SetupStep, OpenStep, AwaitStep,
     StealStep, ArriveStep, FinishStep, ResetStep, ExitCheckStep, ExitCheckLeaves, RetireStep, HandStep, AdvanceStep
     DEF LeadThread
<1>3. ASSUME NEW b \in Block, Syncthreads(b) PROVE IInv'
  BY <1>3, SyncthreadsStep
<1>4. ASSUME NEW b \in Block, NEW t \in Thread, EveryThread(b, t) PROVE IInv'
  BY <1>4, EnterStep, TookNoneStep, TookEmptyStep, TookReadsStep, JudgeStep, SpinStep, ReloadStep DEF EveryThread
<1>5. ASSUME UNCHANGED vars PROVE IInv'
  <2>1. exitNow' \in BOOLEAN
    BY <1>5 DEF vars, control, IInv, TypeOK
  <2>. QED BY <1>5, <2>1, StillStep DEF vars, control
<1>. QED BY <1>1, <1>2, <1>3, <1>4, <1>5 DEF Next, Over

\* What a thread reads and writes is the slot the nonce has claimed.
LEMMA OneSlot ==
    ASSUME IInv, NEW b \in Block, NEW t \in Thread, UsesSlot(b, t), ~Misled(b, t)
    PROVE  OnSlot(b, t)
<1>1. /\ TypeOK /\ Pair(b) /\ 0 \in Thread /\ 1 \in Thread /\ (t = 0 \/ t = 1) /\ Blocks \in Nat
      /\ sChunk[b] \in Int /\ generation \in Int
  BY Basics DEF IInv, Paired
<1>2. generation >= 1 /\ ~Published /\ Model(b, t) = generation /\ pc[b][t] \in ReadSide
  <2>1. CASE pc[b][t] = "finish"
    <3>1. t = 0
      BY <1>1, <2>1 DEF Pair, ClosePc
    <3>. QED BY <2>1, <3>1, Last DEF ReadSide, Published, ClosePc, PastPc, CountPc
  <2>2. CASE pc[b][t] # "finish"
    <3>1. pc[b][0] \in {"took", "packed", "dealt", "steal"} /\ pc[b][t] \in {"took", "packed"}
      BY <1>1, <2>2 DEF Pair, UsesSlot, None, ClosePc
    <3>2. ~Published
      BY <3>1, Unclosed DEF CountPc, ClosePc
    <3>3. generation >= 1 /\ Model(b, t) = generation
      BY <1>1, <3>1, Staged DEF IInv, Waiting, Working, Waking, Leaving, CountPc
    <3>. QED BY <3>1, <3>2, <3>3 DEF ReadSide
  <2>. QED BY <2>1, <2>2
<1>3. slot[b][t] = activeSlot /\ Active = {activeSlot}
  BY <1>2 DEF IInv, Registers, OneActive
<1>. QED BY <1>3 DEF OnSlot, Active

LEMMA SameBarrier == (InStep => IInv) => BarriersMatch
<1>. SUFFICES ASSUME IInv, NEW b \in Block, \A t \in Thread : pc[b][t] \in Barrier
              PROVE  pc[b][0] = pc[b][1]
  BY DEF BarriersMatch
<1>1. Pair(b) /\ pc[b][0] \in Barrier /\ pc[b][1] \in Barrier
  BY Basics DEF IInv, Paired
<1>. QED BY <1>1 DEF Pair, Barrier, ClosePc, None, Whole

\* What misleads a thread is what thread 0 deals, and is never forgotten.
LEMMA OnlySteals ==
    ASSUME [Next]_vars
    PROVE  misled' = misled \/ \E b \in Block : Steal(b)
<1>1. Host \/ UNCHANGED vars => misled' = misled
  BY DEF Host, SetExitNow, Deliver, Upload, vars
<1>2. ASSUME NEW b \in Block, LeadThread(b), ~Steal(b) PROVE misled' = misled
  BY <1>2 DEF LeadThread, ScanHit, ScanMiss, ClaimEnds, ClaimAgain, ClaimExit, Setup, Open, Await,
              Arrive, Finish, Reset, ExitCheck, Retire, Hand, Advance
<1>3. ASSUME NEW b \in Block, NEW t \in Thread, EveryThread(b, t) PROVE misled' = misled
  BY <1>3 DEF EveryThread, Enter, TookNone, TookEmpty, TookReads, Judge, Spin, Reload
<1>4. ASSUME NEW b \in Block, Syncthreads(b) PROVE misled' = misled
  BY <1>4 DEF Syncthreads
<1>. QED BY <1>1, <1>2, <1>3, <1>4 DEF Next, Over

LEMMA StaysOutOfStep ==
    ASSUME [Next]_vars, InStep'
    PROVE  InStep
<1>1. ASSUME NEW b \in Block, Steal(b) PROVE misled \subseteq misled'
  BY <1>1 DEF Steal
<1>. QED BY <1>1, OnlySteals DEF InStep

\* Only over an empty chunk is a thread overtaken before it reads its chunk.
LEMMA FullChunksDealt ==
    ASSUME IInv, Chunk \cap EmptyChunk = {}, InStep, [Next]_vars
    PROVE  InStep'
<1>1. ASSUME NEW b \in Block, Steal(b) PROVE InStep'
  <2>1. Pair(b) /\ pc[b][0] = "steal"
    BY <1>1 DEF IInv, Paired, Steal, Go
  <2>2. ~MissesChunk(b)
    BY <2>1 DEF Pair, ClosePc, MissesChunk
  <2>. QED BY <1>1, <2>2 DEF Steal, InStep
<1>. QED BY <1>1, OnlySteals DEF InStep

-----------------------------------------------------------------------------
(***************************************************************************)
(* Theorems: for any number of blocks and of models, any chunks without    *)
(* reads, and any timing of the threads.                                   *)
(***************************************************************************)
\* The inductive invariant holds of every run for as long as no thread has
\* read a later chunk than the one thread 0 dealt it.
THEOREM NonceHolds == Spec => [](InStep => IInv)
<1>1. Init => (InStep => IInv)
  BY InitHolds
<1>2. (InStep => IInv) /\ [Next]_vars => (InStep => IInv)'
  <2>. SUFFICES ASSUME InStep => IInv, [Next]_vars, InStep' PROVE IInv'
    OBVIOUS
  <2>1. InStep
    BY StaysOutOfStep
  <2>. QED BY <2>1, NextHolds
<1>. QED BY <1>1, <1>2, PTL DEF Spec

\* Every thread anneals, and the last block publishes, the one slot that was
\* claimed, and a COMPLETE slot was annealed in full, each share once, but for
\* what the late threads of the lead block do to its first model.
THEOREM ModelsStayWhole == Spec => []ModelsWhole
<1>1. (InStep => IInv) => ModelsWhole
  BY OneSlot DEF ModelsWhole, IInv
<1>. QED BY <1>1, NonceHolds, PTL

\* The threads of a block never wait at two different __syncthreads calls,
\* unless one of them was overtaken behind an empty chunk.
THEOREM ThreadsMeet == Spec => []BarriersMatch
BY SameBarrier, NonceHolds, PTL

\* With reads in every chunk they never do, however late a thread is.
THEOREM FullChunksMeet == Chunk \cap EmptyChunk = {} => (Spec => [](InStep /\ BarriersMatch))
<1>. SUFFICES ASSUME Chunk \cap EmptyChunk = {} PROVE Spec => [](InStep /\ BarriersMatch)
  OBVIOUS
<1>1. Init => InStep
  BY DEF Init, InStep
<1>2. InStep /\ (InStep => IInv) /\ [Next]_vars => InStep'
  BY FullChunksDealt
<1>. QED BY <1>1, <1>2, NonceHolds, ThreadsMeet, PTL DEF Spec

-----------------------------------------------------------------------------
(***************************************************************************)
(* The blocks together are one worker                                      *)
(***************************************************************************)
LEMMA ClaimedIsActive == Worker!Claimed = Active /\ (Worker!Claimed)' = Active'
BY DEF Worker!Claimed, Active

LEMMA WorkerStutters ==
    ASSUME UNCHANGED <<ctrl, done>>, generation' = -1 <=> generation = -1
    PROVE  UNCHANGED Worker!vars
BY DEF Worker!vars, Annealed

\* Nothing is annealed of a model before it is claimed, nor after.
LEMMA NothingAnnealed ==
    ASSUME \A s \in Active : Wiped(s)
    PROVE  Annealed = {}
BY DEF Annealed, Active, Wiped, Sound, Thread

LEMMA InitWorks == Init => Worker!Init
<1>. SUFFICES ASSUME Init PROVE Worker!Init
  OBVIOUS
<1>1. Annealed = {}
  BY DEF Init, Annealed
<1>. QED BY <1>1 DEF Init, Worker!Init

LEMMA UploadWorks ==
    ASSUME IInv, NEW s \in Slot, Upload(s)
    PROVE  Worker!Next
<1>1. TypeOK /\ ctrl' = [ctrl EXCEPT ![s] = "READY"] /\ done' = [done EXCEPT ![s] = NoWork] /\ generation' = generation
  BY DEF IInv, Upload
<1>2. ctrl[s] \in {"EMPTY", "COMPLETE"}
  BY <1>1 DEF IInv, Handed, Upload, TypeOK
<1>3. Annealed' = Annealed
  <2>1. /\ \A r \in Slot : ctrl'[r] = "ACTIVE" <=> ctrl[r] = "ACTIVE"
        /\ \A r \in Slot : ctrl[r] = "ACTIVE" => done'[r] = done[r]
    BY <1>1, <1>2 DEF TypeOK
  <2>. QED BY <2>1 DEF Annealed
<1>4. Worker!Upload(s)
  BY <1>1, <1>2, <1>3 DEF Worker!Upload
<1>. QED BY <1>4 DEF Worker!Next

LEMMA ScanHitWorks ==
    ASSUME IInv, NEW b \in Block, ScanHit(b)
    PROVE  Worker!Next
<1>1. /\ TypeOK /\ probe \in Slot /\ ctrl[probe] = "READY" /\ ctrl' = [ctrl EXCEPT ![probe] = "ACTIVE"]
      /\ done' = done /\ generation' = generation
  BY DEF IInv, TypeOK, ScanHit
<1>2. Active = {} /\ generation >= 0
  <2>1. CASE pc[b][0] = "claim"
    <3>1. b = 0
      BY <2>1 DEF IInv, Paired, Pair, ClosePc
    <3>. QED BY <2>1, <3>1, Early DEF IInv, OneActive
  <2>2. CASE pc[b][0] = "rescan"
    <3>1. Active = {} /\ generation >= 1 /\ generation \in Int
      BY <1>1, <2>2, Last, Basics DEF ClosePc, IInv, OneActive
    <3>. QED BY <3>1
  <2>. QED BY <2>1, <2>2 DEF ScanHit, Go
<1>3. Active' = {probe} /\ Wiped(probe)
  BY <1>2, Claiming
<1>4. Annealed = {} /\ Annealed' = {}
  <2>1. Annealed = {}
    BY <1>2, NothingAnnealed
  <2>2. ASSUME NEW c \in Share PROVE ~\E s \in Slot : ctrl'[s] = "ACTIVE" /\ done'[s][c][0] = 1
    BY <1>1, <1>3, Basics DEF Wiped, Sound, Active
  <2>. QED BY <2>1, <2>2 DEF Annealed
<1>5. Worker!Claim(probe)
  BY <1>1, <1>2, <1>4, ClaimedIsActive DEF Worker!Claim
<1>. QED BY <1>1, <1>5 DEF Worker!Next

\* Thread 0 of a block anneals the chunk it dealt.
LEMMA TookReadsWorks ==
    ASSUME IInv, NEW b \in Block, NEW t \in Thread, TookReads(b, t)
    PROVE  [Worker!Next]_(Worker!vars)
<1>1. /\ TypeOK /\ Blocks \in Nat /\ activeSlot \in Slot /\ 0 \in Thread /\ 1 \in Thread /\ (t = 0 \/ t = 1)
      /\ done \in [Slot -> [Share -> [Thread -> Nat]]]
  BY Basics DEF IInv, TypeOK
<1>2. /\ UNCHANGED <<ctrl, generation>>
      /\ pc[b][t] = "took" /\ sChunk[b] < Blocks /\ sChunk[b] \notin EmptyChunk
      /\ done' = [s \in Slot |-> IF s = slot[b][t] THEN [done[s] EXCEPT ![sChunk[b]][t] = @ + 1] ELSE done[s]]
  BY DEF TookReads, Go, control
<1> DEFINE k == sChunk[b]
<1>3. k \in Share /\ Active = {activeSlot}
      /\ (t = 0 => slot[b][t] = activeSlot /\ done[activeSlot][k][t] = 0)
  BY <1>2, HasChunk DEF Misled, Sound
<1>4. \A c \in Share : done'[activeSlot][c][0] = IF c = k /\ t = 0 THEN 1 ELSE done[activeSlot][c][0]
  BY <1>1, <1>2, <1>3
<1>5. /\ Annealed  = {c \in Share : done[activeSlot][c][0] = 1}
      /\ Annealed' = {c \in Share : done'[activeSlot][c][0] = 1}
  BY <1>1, <1>2, <1>3 DEF Annealed, Active
<1>6. CASE t = 1
  <2>1. Annealed' = Annealed
    BY <1>4, <1>5, <1>6
  <2>. QED BY <1>2, <2>1 DEF Worker!vars
<1>7. CASE t = 0
  <2>1. k \notin Annealed /\ Annealed' = Annealed \cup {k}
    BY <1>3, <1>4, <1>5, <1>7
  <2>2. Worker!Anneal(k)
    BY <1>2, <1>3, <2>1, ClaimedIsActive DEF Worker!Anneal
  <2>. QED BY <1>3, <2>2 DEF Worker!Next
<1>. QED BY <1>1, <1>6, <1>7

LEMMA FinishWorks ==
    ASSUME IInv, IInv', NEW b \in Block, Finish(b)
    PROVE  Worker!Next
<1>1. /\ TypeOK /\ 0 \in Thread /\ activeSlot \in Slot
      /\ pc[b][0] = "finish" /\ pc'[b][0] = "reset" /\ ctrl' = [ctrl EXCEPT ![slot[b][0]] = "COMPLETE"]
      /\ UNCHANGED <<done, generation>>
  BY Basics, Moves DEF Finish, Pc, Barrier, IInv
<1>2. slot[b][0] = activeSlot /\ ctrl[activeSlot] = "ACTIVE"
  BY <1>1, OneSlot DEF OnSlot, UsesSlot, Misled
<1>3. Active' = {}
  BY <1>1 DEF IInv, OneActive
<1>4. Annealed' = {}
  BY <1>3 DEF Annealed, Active
<1>5. Annealed = Share
  <2>1. ctrl'[activeSlot] = "COMPLETE"
    BY <1>1, <1>2 DEF TypeOK
  <2>2. \A c \in Share : done[activeSlot][c][0] = 1
    BY <1>1, <2>1 DEF IInv, CompleteIsWhole, Sound, Finish
  <2>. QED BY <1>1, <1>2, <2>2 DEF Annealed
<1>6. Worker!Complete(activeSlot)
  BY <1>1, <1>2, <1>4, <1>5 DEF Worker!Complete, Worker!Claimed
<1>. QED BY <1>1, <1>6 DEF Worker!Next

LEMMA LeaveWorks ==
    ASSUME Active = {}, generation' = -1, UNCHANGED <<ctrl, done>>
    PROVE  Worker!Next
<1>1. Annealed' = Annealed
  BY DEF Annealed
<1>2. Worker!Leave
  BY <1>1, ClaimedIsActive DEF Worker!Leave
<1>. QED BY <1>2 DEF Worker!Next

LEMMA NextWorks ==
    ASSUME IInv, InStep, [Next]_vars
    PROVE  [Worker!Next]_(Worker!vars)
<1>1. TypeOK /\ 0 \in Block /\ generation \in Int /\ generation >= -1
  BY Basics DEF IInv
<1>2. ASSUME Host PROVE [Worker!Next]_(Worker!vars)
  <2>1. SetExitNow \/ Deliver => UNCHANGED <<ctrl, done, generation>>
    BY DEF SetExitNow, Deliver, control
  <2>. QED BY <1>2, <2>1, UploadWorks, WorkerStutters DEF Host
<1>3. ASSUME NEW b \in Block, LeadThread(b) PROVE [Worker!Next]_(Worker!vars)
  <2>1. ASSUME ScanMiss(b) \/ ClaimEnds(b) \/ ClaimAgain(b) \/ Setup(b) \/ Await(b)
               \/ Steal(b) \/ Arrive(b) \/ Reset(b) \/ Hand(b)
        PROVE  UNCHANGED Worker!vars
    <3>1. UNCHANGED <<ctrl, done, generation>>
      BY <2>1 DEF ScanMiss, ClaimEnds, ClaimAgain, Setup, Await, Steal, Arrive, Reset, Hand, control
    <3>. QED BY <3>1, WorkerStutters
  <2>2. ASSUME Open(b) PROVE UNCHANGED Worker!vars
    <3>1. UNCHANGED <<ctrl, done>> /\ generation' = 1 /\ pc[b][0] = "open"
      BY <2>2 DEF Open, Go
    <3>2. b = 0
      BY <3>1 DEF IInv, Paired, Pair, ClosePc
    <3>3. generation = 0
      BY <3>1, <3>2, Early
    <3>. QED BY <3>1, <3>3, WorkerStutters
  <2>3. ASSUME Advance(b) PROVE UNCHANGED Worker!vars
    <3>1. UNCHANGED <<ctrl, done>> /\ generation' = generation + 1 /\ pc[b][0] = "advance"
      BY <2>3 DEF Advance, Go
    <3>2. generation >= 1
      BY <3>1, Last DEF ClosePc
    <3>. QED BY <1>1, <3>1, <3>2, WorkerStutters
  <2>4. ASSUME ClaimExit(b) PROVE Worker!Next
    <3>1. UNCHANGED <<ctrl, done>> /\ generation' = -1 /\ pc[b][0] = "claimEnd"
      BY <2>4 DEF ClaimExit, Go
    <3>2. b = 0
      BY <3>1 DEF IInv, Paired, Pair, ClosePc
    <3>3. Active = {}
      BY <3>1, <3>2 DEF IInv, OneActive
    <3>. QED BY <3>1, <3>3, LeaveWorks
  <2>5. ASSUME ExitCheck(b) PROVE [Worker!Next]_(Worker!vars)
    <3>1. UNCHANGED <<ctrl, done>> /\ (generation' = -1 \/ generation' = generation) /\ pc[b][0] = "exitCheck"
      BY <2>5 DEF ExitCheck, Go
    <3>2. Active = {}
      BY <3>1 DEF IInv, OneActive
    <3>. QED BY <3>1, <3>2, LeaveWorks, WorkerStutters
  <2>6. ASSUME Retire(b) PROVE Worker!Next
    <3>1. UNCHANGED <<ctrl, done>> /\ generation' = -1 /\ pc[b][0] = "rescan"
      BY <2>6 DEF Retire, Go
    <3>2. Active = {}
      BY <3>1 DEF IInv, OneActive
    <3>. QED BY <3>1, <3>2, LeaveWorks
  <2>7. ASSUME Finish(b) PROVE Worker!Next
    <3>1. IInv'
      BY <2>7, NextHolds DEF Finish, InStep
    <3>. QED BY <2>7, <3>1, FinishWorks
  <2>. QED BY <1>3, <2>1, <2>2, <2>3, <2>4, <2>5, <2>6, <2>7, ScanHitWorks DEF LeadThread
<1>4. ASSUME NEW b \in Block, NEW t \in Thread, EveryThread(b, t) PROVE [Worker!Next]_(Worker!vars)
  <2>1. ASSUME Enter(b, t) \/ TookNone(b, t) \/ TookEmpty(b, t) \/ Judge(b, t) \/ Spin(b, t) \/ Reload(b, t)
        PROVE  UNCHANGED Worker!vars
    <3>1. UNCHANGED <<ctrl, done, generation>>
      BY <2>1 DEF Enter, TookNone, TookEmpty, Judge, Spin, Reload, control
    <3>. QED BY <3>1, WorkerStutters
  <2>. QED BY <1>4, <2>1, TookReadsWorks DEF EveryThread
<1>5. ASSUME NEW b \in Block, Syncthreads(b) PROVE UNCHANGED Worker!vars
  <2>1. UNCHANGED <<ctrl, done, generation>>
    BY <1>5 DEF Syncthreads, control
  <2>. QED BY <2>1, WorkerStutters
<1>6. ASSUME UNCHANGED vars PROVE UNCHANGED Worker!vars
  <2>1. UNCHANGED <<ctrl, done, generation>>
    BY <1>6 DEF vars, control
  <2>. QED BY <2>1, WorkerStutters
<1>. QED BY <1>2, <1>3, <1>4, <1>5, <1>6 DEF Next, Over

\* What the host sees of a nonce is one worker, which claims a READY slot,
\* anneals every chunk once, marks it COMPLETE, and leaves once, as long as no
\* thread has been overtaken behind an empty chunk.
THEOREM BlocksAreOneWorker == Spec => ImplementsWorker
<1>1. (InStep => IInv) /\ [Next]_vars => [InStep => Worker!Next]_(Worker!vars)
  BY NextWorks
<1>. QED BY <1>1, NonceHolds, InitWorks, PTL DEF Spec, ImplementsWorker

\* With reads in every chunk the blocks implement NonceWorker, whatever the
\* timing of their threads.
THEOREM FullChunksImplementWorker == Chunk \cap EmptyChunk = {} => (Spec => Worker!Spec)
<1>. SUFFICES ASSUME Chunk \cap EmptyChunk = {} PROVE Spec => Worker!Spec
  OBVIOUS
<1>1. Spec => []InStep
  BY FullChunksMeet, PTL
<1>2. InStep /\ [InStep => Worker!Next]_(Worker!vars) => [Worker!Next]_(Worker!vars)
  OBVIOUS
<1>. QED BY <1>1, <1>2, BlocksAreOneWorker, PTL DEF ImplementsWorker, Worker!Spec

=============================================================================
