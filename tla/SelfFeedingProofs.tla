-------------------------- MODULE SelfFeedingProofs --------------------------
(***************************************************************************)
(* Proofs about SelfFeeding, for every width, every set of jobs, every     *)
(* kernel and any number of failing CUDA calls.                            *)
(***************************************************************************)
EXTENDS SelfFeeding, SequenceTheorems, TLAPS

-----------------------------------------------------------------------------
(***************************************************************************)
(* Type correctness                                                        *)
(***************************************************************************)
\* The copies the host enqueues are operations of the transfer stream.
LEMMA OpTypes ==
    ASSUME NEW n \in Nonce, NEW s \in Slot, NEW j \in Job
    PROVE  PayloadOp(n, s, j) \in Op /\ ReadyOp(n, s) \in Op /\ ExitOp(n) \in Op
BY DEF PayloadOp, ReadyOp, ExitOp, Op, Slot

\* ... and name a nonce and a slot.
LEMMA HeadOp ==
    ASSUME xfer \in Seq(Op), xfer # <<>>
    PROVE  /\ Head(xfer) \in Op
           /\ Head(xfer).nonce \in Nonce /\ Head(xfer).slot \in Slot
           /\ Head(xfer).op = "payload" => Head(xfer).job \in Job \cup {None}
           /\ Tail(xfer) \in Seq(Op)
<1>1. Head(xfer) \in Op /\ Tail(xfer) \in Seq(Op)
  BY HeadTailProperties
<1>2. QED
  BY <1>1 DEF Op

\* A loop over the nonces counts no further than one past the last.
LEMMA AtBounds ==
    ASSUME TypeOK, at \in Nonce
    PROVE  at + 1 \in 1..(Width + 1)
BY Assumption DEF Nonce

LEMMA OneInBounds == 1 \in 1..(Width + 1) /\ Width + 1 \in 1..(Width + 1)
BY Assumption

LEMMA FaultType == ASSUME TypeOK, Fault PROVE faults' \in 0..MaxFaults
BY Assumption DEF TypeOK, Fault

\* Answering what is held keeps the host's tables in their types.
LEMMA ReleaseTypes ==
    ASSUME TypeOK, ReleaseHeld
    PROVE  /\ (out \in [Job -> Answer])'
           /\ (active \in [Nonce -> Held \cup {None}])'
           /\ (next \in [Nonce -> Held \cup {None}])'
BY DEF TypeOK, ReleaseHeld, Answer, Rejected

LEMMA RotateTypes ==
    ASSUME TypeOK, NEW n \in Nonce, RotateOnCompletion(n)
    PROVE  /\ (active \in [Nonce -> Held \cup {None}])'
           /\ (next \in [Nonce -> Held \cup {None}])'
BY DEF TypeOK, RotateOnCompletion

LEMMA AdmitTypes ==
    ASSUME TypeOK, NEW n \in Nonce, NEW s \in Slot, NEW j \in Job, Admit(n, s, j)
    PROVE  /\ (active \in [Nonce -> Held \cup {None}])'
           /\ (next \in [Nonce -> Held \cup {None}])'
<1>1. [slot |-> s, job |-> j] \in Held
  BY DEF Held
<1>2. CASE active[n] = None
  BY <1>1, <1>2 DEF TypeOK, Admit
<1>3. CASE active[n] # None
  BY <1>1, <1>3 DEF TypeOK, Admit
<1>4. QED
  BY <1>2, <1>3

LEMMA UploadTypes ==
    ASSUME TypeOK, NEW n \in Nonce, NEW s \in Slot, NEW j \in Job,
           UploadSlot(n, s, j) \/ UploadSlotFails(n, s, j)
    PROVE  (xfer \in Seq(Op))'
<1>1. xfer \in Seq(Op)
  BY DEF TypeOK
<1>2. PayloadOp(n, s, j) \in Op /\ ReadyOp(n, s) \in Op
  BY OpTypes
<1>3. Append(xfer, PayloadOp(n, s, j)) \in Seq(Op)
  BY <1>1, <1>2
<1>4. Append(Append(xfer, PayloadOp(n, s, j)), ReadyOp(n, s)) \in Seq(Op)
  BY <1>2, <1>3
<1>5. QED
  BY <1>1, <1>3, <1>4 DEF UploadSlot, UploadSlotFails

LEMMA AnswerTypes ==
    ASSUME TypeOK, NEW j \in Job, NEW a \in Answer
    PROVE  [out EXCEPT ![j] = a] \in [Job -> Answer]
BY DEF TypeOK

LEMMA RejectedType == Rejected \in Answer /\ Unanswered \in Answer
BY DEF Answer, Rejected, Unanswered

LEMMA ScanTypes ==
    ASSUME TypeOK, at \in Nonce, ScanNext
    PROVE  (phase \in Phase)' /\ (at \in 1..(Width + 1))'
BY AtBounds DEF ScanNext, Phase

LEMMA HeldTypes ==
    ASSUME TypeOK, NEW n \in Nonce
    PROVE  /\ active[n] # None => active[n].slot \in Slot /\ active[n].job \in Job
           /\ next[n] # None => next[n].slot \in Slot /\ next[n].job \in Job
BY DEF TypeOK, Held

\* What the state variables range over does not depend on the schedule.
THEOREM TypeCorrect == Spec => []TypeOK
<1>1. Init => TypeOK
  <2> SUFFICES ASSUME Init PROVE TypeOK
    OBVIOUS
  <2>1. xfer \in Seq(Op)
    BY DEF Init
  <2>2. exitNow \in [Nonce -> BOOLEAN] /\ feeding \in BOOLEAN /\ launched \in BOOLEAN
    BY DEF Init
  <2>3. phase \in Phase /\ at \in 1..(Width + 1)
    BY OneInBounds DEF Init, Phase
  <2>4. active \in [Nonce -> Held \cup {None}] /\ next \in [Nonce -> Held \cup {None}]
    BY DEF Init
  <2>5. snap \in [Nonce -> [Slot -> Status]] /\ ctrl \in [Nonce -> [Slot -> Status]]
    BY DEF Init, Status
  <2>6. unseen \subseteq Job /\ out \in [Job -> Answer]
    BY RejectedType DEF Init
  <2>7. faults \in 0..MaxFaults
    BY Assumption DEF Init
  <2>8. coef \in [Nonce -> [Slot -> Job \cup {None}]] /\ samp \in [Nonce -> [Slot -> Job \cup {Zeroed, Torn}]]
    BY DEF Init
  <2>9. bpc \in [Nonce -> BlockPc] /\ bslot \in [Nonce -> Slot] /\ bsrc \in [Nonce -> Job \cup {None}]
    BY DEF Init, BlockPc, Slot
  <2>10. QED
    BY <2>1, <2>2, <2>3, <2>4, <2>5, <2>6, <2>7, <2>8, <2>9 DEF TypeOK
<1>2. TypeOK /\ [Next]_vars => TypeOK'
  <2> SUFFICES ASSUME TypeOK, [Next]_vars PROVE TypeOK'
    OBVIOUS
  <2> USE OneInBounds DEF TypeOK, hostVars, deviceVars, blockVars
  <2>1. ASSUME NEW j \in Job, ColdUpload(j) PROVE TypeOK'
    <3>0. at \in Nonce /\ 0 \in Slot /\ UploadSlot(at, 0, j)
      BY <2>1 DEF ColdUpload, Slot
    <3>1. (xfer \in Seq(Op))'
      BY <3>0, UploadTypes
    <3>2. [slot |-> 0, job |-> j] \in Held
      BY DEF Held, Slot
    <3>3. (active \in [Nonce -> Held \cup {None}])'
      BY <2>1, <3>2 DEF ColdUpload
    <3>4. at' \in 1..(Width + 1)
      BY <2>1, AtBounds DEF ColdUpload
    <3>5. unseen' \subseteq Job
      BY <2>1 DEF ColdUpload
    <3>6. QED
      BY <2>1, <3>1, <3>3, <3>4, <3>5 DEF ColdUpload
  <2>2. ASSUME NEW j \in Job, ColdUploadFails(j) PROVE TypeOK'
    <3>0. at \in Nonce /\ 0 \in Slot /\ UploadSlotFails(at, 0, j)
      BY <2>2 DEF ColdUploadFails, Slot
    <3>1. (xfer \in Seq(Op))'
      BY <3>0, UploadTypes
    <3>2. (out \in [Job -> Answer])'
      BY <2>2, AnswerTypes, RejectedType DEF ColdUploadFails
    <3>3. (faults \in 0..MaxFaults)'
      BY <2>2, FaultType DEF ColdUploadFails, UploadSlotFails
    <3>4. QED
      BY <2>2, <3>1, <3>2, <3>3, AtBounds DEF ColdUploadFails
  <2>3. ASSUME NEW j \in Job, RefillUpload(j) PROVE TypeOK'
    <3>1. PICK s \in Slot : UploadSlot(at, s, j) /\ Admit(at, s, j)
      BY <2>3 DEF RefillUpload
    <3>2. (xfer \in Seq(Op))'
      BY <2>3, <3>1, UploadTypes DEF RefillUpload
    <3>3. (active \in [Nonce -> Held \cup {None}])' /\ (next \in [Nonce -> Held \cup {None}])'
      BY <2>3, <3>1, AdmitTypes DEF RefillUpload
    <3>4. QED
      BY <2>3, <3>2, <3>3 DEF RefillUpload
  <2>4. ASSUME NEW j \in Job, RefillUploadFails(j) PROVE TypeOK'
    <3>1. PICK s \in Slot : UploadSlotFails(at, s, j)
      BY <2>4 DEF RefillUploadFails
    <3>2. (xfer \in Seq(Op))'
      BY <2>4, <3>1, UploadTypes DEF RefillUploadFails
    <3>3. (out \in [Job -> Answer])'
      BY <2>4, AnswerTypes, RejectedType DEF RefillUploadFails
    <3>4. (faults \in 0..MaxFaults)'
      BY <3>1, FaultType DEF UploadSlotFails
    <3>5. QED
      BY <2>4, <3>2, <3>3, <3>4 DEF RefillUploadFails
  <2>5. CASE Launch
    BY <2>5 DEF Launch, Phase, BlockPc
  <2>6. CASE LaunchFails
    BY <2>6, FaultType, ReleaseTypes DEF LaunchFails, Phase
  <2>7. CASE BeginPass
    BY <2>7 DEF BeginPass, MayStopFeeding, Phase
  <2>8. CASE BeginAbort
    BY <2>8 DEF BeginAbort, MayStopFeeding, Phase
  <2>9. CASE RefillNext
    BY <2>9, AtBounds DEF RefillNext, Phase
  <2>10. CASE RefillEnds
    BY <2>10 DEF RefillEnds, Phase
  <2>11. CASE EndSession
    BY <2>11 DEF EndSession, Phase
  <2>12. CASE Stall
    BY <2>12, ReleaseTypes DEF Stall, Phase
  <2>13. CASE PollCtrl
    BY <2>13 DEF PollCtrl, Phase
  <2>14. CASE PollCtrlFails
    BY <2>14, FaultType, ReleaseTypes DEF PollCtrlFails, Phase
  <2>15. CASE ScanIdle
    BY <2>15, ScanTypes DEF ScanIdle
  <2>16. CASE ScanDeliver
    <3>1. active[at].slot \in Slot /\ active[at].job \in Job
      BY <2>16, HeldTypes DEF ScanDeliver, SeenComplete
    <3>2. samp[at][active[at].slot] \in Answer
      BY <2>16, <3>1 DEF ScanDeliver, Answer
    <3>3. (out \in [Job -> Answer])'
      BY <2>16, <3>1, <3>2, AnswerTypes DEF ScanDeliver
    <3>4. QED
      BY <2>16, <3>3, ScanTypes, RotateTypes DEF ScanDeliver, MayStopFeeding
  <2>17. CASE ScanDownloadFails
    <3>1. active[at].job \in Job
      BY <2>17, HeldTypes DEF ScanDownloadFails, SeenComplete
    <3>2. (out \in [Job -> Answer])'
      BY <2>17, <3>1, AnswerTypes, RejectedType DEF ScanDownloadFails
    <3>3. QED
      BY <2>17, <3>2, ScanTypes, RotateTypes, FaultType DEF ScanDownloadFails
  <2>18. CASE SignalExit
    <3>1. (xfer \in Seq(Op))'
      BY <2>18 DEF SignalExit, ExitOp, Op, Slot
    <3>2. QED
      BY <2>18, <3>1, AtBounds DEF SignalExit
  <2>19. CASE AbortSignalled
    BY <2>19 DEF AbortSignalled, Phase
  <2>20. CASE DropSignalled
    BY <2>20 DEF DropSignalled, Phase
  <2>30. CASE DropSignalFails
    BY <2>30, FaultType DEF DropSignalFails, Phase
  <2>21. CASE DrainTransfer
    BY <2>21 DEF DrainTransfer, Phase
  <2>22. CASE AbortDone
    BY <2>22, ReleaseTypes DEF AbortDone, Phase
  <2>23. CASE AbortFails
    BY <2>23, ReleaseTypes, FaultType DEF AbortFails, Phase
  <2>27. CASE Free
    BY <2>27 DEF Free, Phase
  <2>28. CASE Escalate
    BY <2>28, FaultType DEF Escalate, Phase
  <2>24. CASE Xfer
    <3>1. /\ Head(xfer).nonce \in Nonce /\ Head(xfer).slot \in Slot
          /\ Head(xfer).op = "payload" => Head(xfer).job \in Job \cup {None}
          /\ (xfer \in Seq(Op))'
      BY <2>24, HeadOp DEF Xfer
    <3>2. CASE XferPayload(Head(xfer))
      <4>1. (coef \in [Nonce -> [Slot -> Job \cup {None}]])'
        BY <3>1, <3>2 DEF XferPayload
      <4>2. (samp \in [Nonce -> [Slot -> Job \cup {Zeroed, Torn}]])'
        BY <3>1, <3>2 DEF XferPayload
      <4>3. QED
        BY <2>24, <3>1, <3>2, <4>1, <4>2 DEF Xfer, XferPayload
    <3>3. CASE XferReady(Head(xfer))
      <4>1. (ctrl \in [Nonce -> [Slot -> Status]])'
        BY <3>1, <3>3 DEF XferReady, Status
      <4>2. QED
        BY <2>24, <3>1, <3>3, <4>1 DEF Xfer, XferReady
    <3>4. CASE XferExit(Head(xfer))
      <4>1. (exitNow \in [Nonce -> BOOLEAN])'
        BY <3>1, <3>4 DEF XferExit
      <4>2. QED
        BY <2>24, <3>1, <3>4, <4>1 DEF Xfer, XferExit
    <3>5. QED
      BY <2>24, <3>2, <3>3, <3>4 DEF Xfer
  <2>25. ASSUME NEW n \in Nonce, Block(n) PROVE TypeOK'
    <3>1. CASE Claim(n)
      <4>1. (ctrl \in [Nonce -> [Slot -> Status]])'
        BY <3>1 DEF Claim, Status
      <4>2. (bsrc \in [Nonce -> Job \cup {None}])' /\ (bpc \in [Nonce -> BlockPc])'
        BY <3>1 DEF Claim, BlockPc
      <4>3. QED
        BY <3>1, <4>1, <4>2 DEF Claim
    <3>2. CASE ProbeMiss(n)
      <4>1. bslot[n] < 2 => bslot[n] + 1 \in Slot
        <5>1. bslot[n] \in Slot
          OBVIOUS
        <5>2. QED
          BY <5>1 DEF Slot
      <4>2. (bslot \in [Nonce -> Slot])'
        BY <3>2, <4>1 DEF ProbeMiss
      <4>3. (bpc \in [Nonce -> BlockPc])'
        BY <3>2 DEF ProbeMiss, BlockPc
      <4>4. QED
        BY <3>2, <4>2, <4>3 DEF ProbeMiss
    <3>3. CASE PassEnd(n)
      <4>0. 0 \in Slot
        BY DEF Slot
      <4>1. (bslot \in [Nonce -> Slot])'
        <5>1. CASE exitNow[n] \/ (bpc[n] = "probeEnd" /\ Kernel = "gibbs")
          BY <3>3, <5>1 DEF PassEnd
        <5>2. CASE ~(exitNow[n] \/ (bpc[n] = "probeEnd" /\ Kernel = "gibbs"))
          BY <3>3, <4>0, <5>2 DEF PassEnd
        <5>3. QED
          BY <5>1, <5>2
      <4>2. (bpc \in [Nonce -> BlockPc])'
        BY <3>3 DEF PassEnd, BlockPc
      <4>3. QED
        BY <3>3, <4>1, <4>2 DEF PassEnd
    <3>4. CASE Finish(n)
      <4>1. (samp \in [Nonce -> [Slot -> Job \cup {Zeroed, Torn}]])'
        BY <3>4 DEF Finish
      <4>2. QED
        BY <3>4, <4>1 DEF Finish, BlockPc
    <3>5. CASE AbortModel(n)
      <4>1. (samp \in [Nonce -> [Slot -> Job \cup {Zeroed, Torn}]])'
        <5>1. CASE UNCHANGED samp
          BY <5>1
        <5>2. CASE samp' = [samp EXCEPT ![n][bslot[n]] = Torn]
          BY <5>2
        <5>3. QED
          BY <3>5, <5>1, <5>2 DEF AbortModel
      <4>2. QED
        BY <3>5, <4>1 DEF AbortModel, BlockPc
    <3>6. CASE Publish(n)
      BY <3>6 DEF Publish, BlockPc, Status
    <3>7. CASE AfterPublish(n)
      <4>1. (bslot \in [Nonce -> Slot])'
        <5>1. 0 \in Slot /\ bslot \in [Nonce -> Slot]
          BY DEF Slot
        <5>2. bslot' = bslot \/ bslot' = [bslot EXCEPT ![n] = 0]
          BY <3>7 DEF AfterPublish
        <5>3. QED
          BY <5>1, <5>2
      <4>2. (bpc \in [Nonce -> BlockPc])'
        BY <3>7 DEF AfterPublish, BlockPc
      <4>3. QED
        BY <3>7, <4>1, <4>2 DEF AfterPublish
    <3>8. QED
      BY <2>25, <3>1, <3>2, <3>3, <3>4, <3>5, <3>6, <3>7 DEF Block
  <2>26. CASE UNCHANGED vars
    BY <2>26 DEF vars
  <2>29. QED
    BY <2>1, <2>2, <2>3, <2>4, <2>5, <2>6, <2>7, <2>8, <2>9, <2>10, <2>11, <2>12, <2>13,
       <2>14, <2>15, <2>16, <2>17, <2>18, <2>19, <2>20, <2>21, <2>22, <2>23, <2>24, <2>25, <2>26,
       <2>27, <2>28, <2>30
       DEF Next, Step, Failure, Over
<1>3. QED
  BY <1>1, <1>2, PTL DEF Spec

-----------------------------------------------------------------------------
(***************************************************************************)
(* Teardown                                                                *)
(***************************************************************************)
\* wait_exit drained the transfer stream, and nobody appends to it any more.
QuietInv == /\ phase \in {"join", "freed"} => xfer = <<>>
            /\ phase = "freed" => BlocksOut

\* A block that is not running takes no step.
LEMMA OutStaysOut ==
    ASSUME NEW n \in Nonce, BlocksOut
    PROVE  ~Block(n)
<1>1. bpc[n] \in {"off", "gone"}
  BY DEF BlocksOut
<1>2. QED
  BY <1>1 DEF Block, Claim, ProbeMiss, PassEnd, Finish, AbortModel, Publish, AfterPublish

\* A copy executed leaves the queue no longer than it was, and no block moves.
LEMMA QuietStep == QuietInv /\ [Next]_vars => QuietInv'
<1> SUFFICES ASSUME QuietInv, [Next]_vars PROVE QuietInv'
  OBVIOUS
<1> USE DEF QuietInv, BlocksOut, hostVars, deviceVars, blockVars
<1>1. CASE \E j \in Job : ColdUpload(j) \/ ColdUploadFails(j)
  BY <1>1 DEF ColdUpload, ColdUploadFails
<1>2. CASE \E j \in Job : RefillUpload(j) \/ RefillUploadFails(j)
  BY <1>2 DEF RefillUpload, RefillUploadFails
<1>3. CASE Launch \/ LaunchFails
  BY <1>3 DEF Launch, LaunchFails
<1>4. CASE BeginPass \/ BeginAbort \/ RefillNext \/ RefillEnds
  BY <1>4 DEF BeginPass, BeginAbort, RefillNext, RefillEnds
<1>5. CASE EndSession \/ Stall \/ PollCtrl \/ PollCtrlFails
  BY <1>5 DEF EndSession, Stall, PollCtrl, PollCtrlFails
<1>6. CASE ScanIdle \/ ScanDeliver \/ ScanDownloadFails
  BY <1>6 DEF ScanIdle, ScanDeliver, ScanDownloadFails, ScanNext
<1>7. CASE SignalExit \/ AbortSignalled \/ DropSignalled \/ DropSignalFails
  BY <1>7 DEF SignalExit, AbortSignalled, DropSignalled, DropSignalFails
<1>8. CASE DrainTransfer
  BY <1>8 DEF DrainTransfer
<1>9. CASE AbortDone \/ AbortFails
  BY <1>9 DEF AbortDone, AbortFails
<1>10. CASE Free
  BY <1>10 DEF Free
<1>11. CASE Escalate
  BY <1>11 DEF Escalate
<1>12. CASE Xfer
  BY <1>12 DEF Xfer
<1>13. ASSUME NEW n \in Nonce, Block(n) PROVE QuietInv'
  <2>1. phase # "freed"
    BY <1>13, OutStaysOut
  <2>2. UNCHANGED <<phase, xfer>>
    BY <1>13 DEF Block, Claim, ProbeMiss, PassEnd, Finish, AbortModel, Publish, AfterPublish
  <2>3. QED
    BY <2>1, <2>2
<1>14. CASE UNCHANGED vars
  BY <1>14 DEF vars
<1>15. QED
  BY <1>1, <1>2, <1>3, <1>4, <1>5, <1>6, <1>7, <1>8, <1>9, <1>10, <1>11, <1>12, <1>13, <1>14
     DEF Next, Step, Failure, Over

\* Once the session's buffers are freed no copy is queued and no block runs,
\* however many CUDA calls failed on the way (wait_exit, Drop).
THEOREM FreedQuietly == Spec => []FreedIsQuiet
<1>1. Init => QuietInv
  BY DEF Init, QuietInv
<1>2. QuietInv => FreedIsQuiet
  BY DEF QuietInv, FreedIsQuiet
<1>3. QED
  BY <1>1, <1>2, QuietStep, PTL DEF Spec

\* EXIT_NOW is never lowered, and a block goes only where it finds it raised.
LEMMA ExitStep ==
    ASSUME Kernel # "gibbs", TypeOK, LeavesOnlyOnExit, [Next]_vars
    PROVE  LeavesOnlyOnExit'
<1> USE DEF TypeOK, LeavesOnlyOnExit, hostVars, deviceVars, blockVars
<1>1. CASE Launch
  BY <1>1 DEF Launch
<1>2. CASE Xfer
  <2>1. bpc' = bpc
    BY <1>2 DEF Xfer
  <2>2. \A n \in Nonce : exitNow[n] => exitNow'[n]
    BY <1>2, HeadOp DEF Xfer, XferPayload, XferReady, XferExit
  <2>3. QED
    BY <2>1, <2>2
<1>3. ASSUME NEW n \in Nonce, Block(n) PROVE LeavesOnlyOnExit'
  <2>1. exitNow' = exitNow
    BY <1>3 DEF Block, Claim, ProbeMiss, PassEnd, Finish, AbortModel, Publish, AfterPublish
  <2>2. \A m \in Nonce : m # n => bpc'[m] = bpc[m]
    BY <1>3 DEF Block, Claim, ProbeMiss, PassEnd, Finish, AbortModel, Publish, AfterPublish
  <2>3. bpc'[n] = "gone" => exitNow[n]
    BY <1>3 DEF Block, Claim, ProbeMiss, PassEnd, Finish, AbortModel, Publish, AfterPublish
  <2>4. QED
    BY <2>1, <2>2, <2>3
<1>4. CASE (Step /\ ~Launch) \/ Failure
  <2>1. UNCHANGED <<bpc, exitNow>>
    BY <1>4 DEF Step, Failure, ColdUpload, ColdUploadFails, RefillUpload, RefillUploadFails,
       LaunchFails, BeginPass, BeginAbort, RefillNext, RefillEnds, EndSession, Stall,
       PollCtrl, PollCtrlFails, ScanIdle, ScanDeliver, ScanDownloadFails, SignalExit,
       AbortSignalled, DropSignalled, DropSignalFails, DrainTransfer, AbortDone, AbortFails,
       Free, Escalate
  <2>2. QED
    BY <2>1
<1>5. CASE UNCHANGED vars
  BY <1>5 DEF vars
<1>6. QED
  BY <1>1, <1>2, <1>3, <1>4, <1>5 DEF Next, Over

\* Under the SA and MSA kernels a block that left was told to: an idle nonce
\* stays and serves the next job.  (The Gibbs kernel's blocks do retire.)
THEOREM StaysUntilTold == ASSUME Kernel # "gibbs" PROVE Spec => []LeavesOnlyOnExit
<1>1. Init => LeavesOnlyOnExit
  BY DEF Init, LeavesOnlyOnExit
<1>2. TypeOK /\ LeavesOnlyOnExit /\ [Next]_vars => LeavesOnlyOnExit'
  BY ExitStep
<1>3. QED
  BY <1>1, <1>2, TypeCorrect, PTL DEF Spec

-----------------------------------------------------------------------------
(***************************************************************************)
(* The transfer stream                                                     *)
(***************************************************************************)
\* One more copy at the back.
LEMMA AppendAt ==
    ASSUME NEW q \in Seq(Op), NEW o \in Op
    PROVE  /\ Append(q, o) \in Seq(Op)
           /\ Len(Append(q, o)) = Len(q) + 1
           /\ \A i \in 1..Len(q) : Append(q, o)[i] = q[i]
           /\ Append(q, o)[Len(q) + 1] = o
BY AppendProperties

LEMMA AppendPending ==
    ASSUME NEW q \in Seq(Op), NEW o \in Op, NEW n, NEW s
    PROVE  /\ PayloadPending(Append(q, o), n, s) <=> PayloadPending(q, n, s) \/ IsPayload(o, n, s)
           /\ ReadyPending(Append(q, o), n, s) <=> ReadyPending(q, n, s) \/ IsReady(o, n, s)
<1> DEFINE r == Append(q, o)
<1>1. /\ Len(r) = Len(q) + 1
      /\ \A i \in 1..Len(q) : r[i] = q[i]
      /\ r[Len(q) + 1] = o
      /\ Len(q) \in Nat
  BY AppendAt
<1> HIDE DEF r
<1>2. 1..Len(r) = 1..Len(q) \cup {Len(q) + 1}
  BY <1>1
<1>3. PayloadPending(r, n, s) <=> PayloadPending(q, n, s) \/ IsPayload(o, n, s)
  BY <1>1, <1>2 DEF PayloadPending
<1>4. ReadyPending(r, n, s) <=> ReadyPending(q, n, s) \/ IsReady(o, n, s)
  BY <1>1, <1>2 DEF ReadyPending
<1>5. QED
  BY <1>3, <1>4 DEF r

\* The oldest copy leaves.
LEMMA TailAt ==
    ASSUME NEW q \in Seq(Op), q # <<>>
    PROVE  /\ Len(q) \in Nat \ {0} /\ Len(Tail(q)) = Len(q) - 1
           /\ Tail(q) \in Seq(Op)
           /\ Head(q) = q[1]
           /\ \A i \in 1..Len(Tail(q)) : Tail(q)[i] = q[i + 1]
BY HeadTailProperties, EmptySeq, LenProperties

LEMMA TailPending ==
    ASSUME NEW q \in Seq(Op), q # <<>>, NEW n, NEW s
    PROVE  /\ PayloadPending(q, n, s) <=> IsPayload(Head(q), n, s) \/ PayloadPending(Tail(q), n, s)
           /\ ReadyPending(q, n, s) <=> IsReady(Head(q), n, s) \/ ReadyPending(Tail(q), n, s)
<1> DEFINE r == Tail(q)
<1>1. /\ Len(q) \in Nat \ {0} /\ Len(r) = Len(q) - 1
      /\ Head(q) = q[1]
      /\ \A i \in 1..Len(r) : r[i] = q[i + 1]
  BY TailAt
<1> HIDE DEF r
<1>2. \A i \in 1..Len(q) : i = 1 \/ (i - 1 \in 1..Len(r) /\ q[i] = r[i - 1])
  BY <1>1
<1>3. 1 \in 1..Len(q) /\ \A i \in 1..Len(r) : i + 1 \in 1..Len(q)
  BY <1>1
<1>4. PayloadPending(q, n, s) <=> IsPayload(Head(q), n, s) \/ PayloadPending(r, n, s)
  <2>1. ASSUME PayloadPending(q, n, s) PROVE IsPayload(Head(q), n, s) \/ PayloadPending(r, n, s)
    BY <1>1, <1>2, <2>1 DEF PayloadPending
  <2>2. ASSUME IsPayload(Head(q), n, s) PROVE PayloadPending(q, n, s)
    BY <1>1, <1>3, <2>2 DEF PayloadPending
  <2>3. ASSUME PayloadPending(r, n, s) PROVE PayloadPending(q, n, s)
    BY <1>1, <1>3, <2>3 DEF PayloadPending
  <2>4. QED
    BY <2>1, <2>2, <2>3
<1>5. ReadyPending(q, n, s) <=> IsReady(Head(q), n, s) \/ ReadyPending(r, n, s)
  <2>1. ASSUME ReadyPending(q, n, s) PROVE IsReady(Head(q), n, s) \/ ReadyPending(r, n, s)
    BY <1>1, <1>2, <2>1 DEF ReadyPending
  <2>2. ASSUME IsReady(Head(q), n, s) PROVE ReadyPending(q, n, s)
    BY <1>1, <1>3, <2>2 DEF ReadyPending
  <2>3. ASSUME ReadyPending(r, n, s) PROVE ReadyPending(q, n, s)
    BY <1>1, <1>3, <2>3 DEF ReadyPending
  <2>4. QED
    BY <2>1, <2>2, <2>3
<1>6. QED
  BY <1>4, <1>5 DEF r

\* A copy for another slot does not change what a slot settles to ...
LEMMA AppendSettles ==
    ASSUME NEW q \in Seq(Op), NEW o \in Op, NEW c, NEW n, NEW s, NEW j,
           Settles(q, c, n, s, j), ~IsPayload(o, n, s)
    PROVE  Settles(Append(q, o), c, n, s, j)
<1> DEFINE r == Append(q, o)
<1>1. /\ Len(r) = Len(q) + 1
      /\ \A i \in 1..Len(q) : r[i] = q[i]
      /\ r[Len(q) + 1] = o
      /\ Len(q) \in Nat
  BY AppendAt
<1>2. PayloadPending(r, n, s) <=> PayloadPending(q, n, s)
  BY AppendPending
<1> HIDE DEF r
<1>3. CASE c = j /\ ~PayloadPending(q, n, s)
  BY <1>2, <1>3 DEF Settles, r
<1>4. ASSUME NEW i \in 1..Len(q), IsPayload(q[i], n, s), q[i].job = j,
             \A k \in 1..Len(q) : k > i => ~IsPayload(q[k], n, s)
      PROVE  Settles(r, c, n, s, j)
  <2>1. i \in 1..Len(r) /\ r[i] = q[i]
    BY <1>1
  <2>2. \A k \in 1..Len(r) : k > i => ~IsPayload(r[k], n, s)
    BY <1>1, <1>4
  <2>3. QED
    BY <1>4, <2>1, <2>2 DEF Settles
<1>5. QED
  BY <1>3, <1>4 DEF Settles, r

\* ... and a payload at the back settles it.
LEMMA PayloadSettles ==
    ASSUME NEW q \in Seq(Op), NEW o \in Op, NEW c, NEW n, NEW s, IsPayload(o, n, s)
    PROVE  Settles(Append(q, o), c, n, s, o.job)
<1> DEFINE r == Append(q, o)
<1>1. Len(r) = Len(q) + 1 /\ r[Len(q) + 1] = o /\ Len(q) \in Nat
  BY AppendAt
<1> HIDE DEF r
<1>2. Len(r) \in 1..Len(r) /\ r[Len(r)] = o /\ \A k \in 1..Len(r) : ~(k > Len(r))
  BY <1>1
<1>3. QED
  BY <1>2 DEF Settles, r

\* Executing the oldest copy does not change what a slot settles to.
LEMMA TailSettles ==
    ASSUME NEW q \in Seq(Op), q # <<>>, NEW c, NEW n, NEW s, NEW j, Settles(q, c, n, s, j)
    PROVE  Settles(Tail(q), IF IsPayload(Head(q), n, s) THEN Head(q).job ELSE c, n, s, j)
<1> DEFINE r == Tail(q)
           d == IF IsPayload(Head(q), n, s) THEN Head(q).job ELSE c
<1>1. /\ Len(q) \in Nat \ {0} /\ Len(r) = Len(q) - 1
      /\ Head(q) = q[1]
      /\ \A i \in 1..Len(r) : r[i] = q[i + 1]
  BY TailAt
<1>2. PayloadPending(q, n, s) <=> IsPayload(Head(q), n, s) \/ PayloadPending(r, n, s)
  BY TailPending
<1> HIDE DEF r
<1>3. ASSUME c = j, ~PayloadPending(q, n, s) PROVE Settles(r, d, n, s, j)
  BY <1>2, <1>3 DEF Settles
<1>4. ASSUME NEW i \in 1..Len(q), IsPayload(q[i], n, s), q[i].job = j,
             \A k \in 1..Len(q) : k > i => ~IsPayload(q[k], n, s)
      PROVE  Settles(r, d, n, s, j)
  <2>1. CASE i = 1
    <3>1. d = j
      BY <1>1, <1>4, <2>1
    <3>2. \A k \in 1..Len(r) : k + 1 \in 1..Len(q) /\ k + 1 > 1 /\ r[k] = q[k + 1]
      BY <1>1
    <3>3. ~PayloadPending(r, n, s)
      BY <1>4, <2>1, <3>2 DEF PayloadPending
    <3>4. QED
      BY <3>1, <3>3 DEF Settles
  <2>2. CASE i # 1
    <3>1. i - 1 \in 1..Len(r) /\ r[i - 1] = q[i]
      BY <1>1, <2>2
    <3>2. \A k \in 1..Len(r) : k > i - 1 => k + 1 \in 1..Len(q) /\ k + 1 > i /\ r[k] = q[k + 1]
      BY <1>1
    <3>3. \A k \in 1..Len(r) : k > i - 1 => ~IsPayload(r[k], n, s)
      BY <1>4, <3>2
    <3>4. QED
      BY <1>4, <3>1, <3>3 DEF Settles
  <2>3. QED
    BY <2>1, <2>2
<1>5. Settles(r, d, n, s, j)
  <2>1. CASE \E i \in 1..Len(q) :
                /\ IsPayload(q[i], n, s) /\ q[i].job = j
                /\ \A k \in 1..Len(q) : k > i => ~IsPayload(q[k], n, s)
    BY <1>4, <2>1
  <2>2. QED
    BY <1>3, <2>1 DEF Settles
<1>6. QED
  BY <1>5 DEF r

\* A copy may follow when no READY of its slot is waiting.
LEMMA AppendOrdered ==
    ASSUME NEW q \in Seq(Op), NEW o \in Op, Ordered(q),
           \A n \in Nonce, s \in Slot :
               IsPayload(o, n, s) \/ IsReady(o, n, s) => ~ReadyPending(q, n, s)
    PROVE  Ordered(Append(q, o))
<1> DEFINE r == Append(q, o)
<1>1. /\ Len(r) = Len(q) + 1
      /\ \A i \in 1..Len(q) : r[i] = q[i]
      /\ r[Len(q) + 1] = o
      /\ Len(q) \in Nat
  BY AppendAt
<1> HIDE DEF r
<1>2. ASSUME NEW i \in 1..Len(r), NEW k \in 1..Len(r), NEW n \in Nonce, NEW s \in Slot,
             i < k, IsReady(r[i], n, s)
      PROVE  ~IsPayload(r[k], n, s) /\ ~IsReady(r[k], n, s)
  <2>1. i \in 1..Len(q) /\ r[i] = q[i]
    BY <1>1, <1>2
  <2>2. CASE k \in 1..Len(q)
    BY <1>1, <1>2, <2>1, <2>2 DEF Ordered
  <2>3. CASE k = Len(q) + 1
    <3>1. ReadyPending(q, n, s)
      BY <1>2, <2>1 DEF ReadyPending
    <3>2. QED
      BY <1>1, <2>3, <3>1
  <2>4. QED
    BY <1>1, <2>2, <2>3
<1>3. Ordered(r)
  BY <1>2 DEF Ordered
<1>4. QED
  BY <1>3 DEF r

LEMMA TailOrdered ==
    ASSUME NEW q \in Seq(Op), q # <<>>, Ordered(q)
    PROVE  /\ Ordered(Tail(q))
           /\ \A n \in Nonce, s \in Slot : IsReady(Head(q), n, s) =>
                ~ReadyPending(Tail(q), n, s) /\ ~PayloadPending(Tail(q), n, s)
<1> DEFINE r == Tail(q)
<1>1. /\ Len(q) \in Nat \ {0} /\ Len(r) = Len(q) - 1
      /\ Head(q) = q[1]
      /\ \A i \in 1..Len(r) : r[i] = q[i + 1]
  BY TailAt
<1> HIDE DEF r
<1>2. \A i \in 1..Len(r) : i + 1 \in 1..Len(q) /\ i + 1 > 1 /\ r[i] = q[i + 1]
  BY <1>1
<1>3. \A i, k \in 1..Len(r) : i < k => i + 1 < k + 1
  BY <1>1
<1>4. Ordered(r)
  BY <1>2, <1>3 DEF Ordered
<1>5. 1 \in 1..Len(q)
  BY <1>1
<1>6. ASSUME NEW n \in Nonce, NEW s \in Slot, IsReady(Head(q), n, s)
      PROVE  ~ReadyPending(r, n, s) /\ ~PayloadPending(r, n, s)
  <2>1. \A k \in 1..Len(q) : 1 < k => ~IsPayload(q[k], n, s) /\ ~IsReady(q[k], n, s)
    BY <1>1, <1>5, <1>6 DEF Ordered
  <2>2. \A i \in 1..Len(r) : ~IsPayload(r[i], n, s) /\ ~IsReady(r[i], n, s)
    BY <1>2, <2>1
  <2>3. QED
    BY <2>2 DEF ReadyPending, PayloadPending
<1>7. QED
  BY <1>4, <1>6 DEF r

-----------------------------------------------------------------------------
(***************************************************************************)
(* Uploads                                                                 *)
(***************************************************************************)
\* A slot is in use exactly when some job is held in it.
LEMMA HeldInUse ==
    ASSUME TypeOK, NEW n \in Nonce, NEW s \in Slot
    PROVE  InUse(n, s) <=> \E j \in Job : IsHeld(n, s, j)
BY HeldTypes DEF InUse, IsHeld

\* What the copies of an upload are about.
LEMMA OpKinds ==
    ASSUME NEW n, NEW s, NEW j, NEW m, NEW t
    PROVE  /\ IsPayload(PayloadOp(n, s, j), m, t) <=> m = n /\ t = s
           /\ ~IsReady(PayloadOp(n, s, j), m, t)
           /\ PayloadOp(n, s, j).job = j
           /\ IsReady(ReadyOp(n, s), m, t) <=> m = n /\ t = s
           /\ ~IsPayload(ReadyOp(n, s), m, t)
           /\ ~IsReady(ExitOp(n), m, t) /\ ~IsPayload(ExitOp(n), m, t)
BY DEF IsPayload, IsReady, PayloadOp, ReadyOp, ExitOp

\* What payload copies for a slot that waits for no READY do to the stream.
LEMMA PayloadQueue ==
    ASSUME NEW q \in Seq(Op), NEW n \in Nonce, NEW s \in Slot, NEW j \in Job,
           Ordered(q), ~ReadyPending(q, n, s)
    PROVE  LET r == Append(q, PayloadOp(n, s, j))
           IN  /\ r \in Seq(Op) /\ Ordered(r)
               /\ \A m \in Nonce, t \in Slot :
                    /\ ReadyPending(r, m, t) <=> ReadyPending(q, m, t)
                    /\ PayloadPending(r, m, t) <=> PayloadPending(q, m, t) \/ (m = n /\ t = s)
               /\ \A c : Settles(r, c, n, s, j)
               /\ \A m \in Nonce, t \in Slot : \A c, k :
                    (m # n \/ t # s) /\ Settles(q, c, m, t, k) => Settles(r, c, m, t, k)
<1> DEFINE o == PayloadOp(n, s, j)
<1>1. o \in Op
  BY OpTypes
<1>2. /\ \A m, t : (IsPayload(o, m, t) <=> m = n /\ t = s) /\ ~IsReady(o, m, t)
      /\ o.job = j
  BY OpKinds
<1> HIDE DEF o
<1>3. Append(q, o) \in Seq(Op)
  BY <1>1, AppendAt
<1>4. Ordered(Append(q, o))
  BY <1>1, <1>2, AppendOrdered
<1>5. \A m \in Nonce, t \in Slot :
        /\ ReadyPending(Append(q, o), m, t) <=> ReadyPending(q, m, t)
        /\ PayloadPending(Append(q, o), m, t) <=> PayloadPending(q, m, t) \/ (m = n /\ t = s)
  BY <1>1, <1>2, AppendPending
<1>6. \A c : Settles(Append(q, o), c, n, s, j)
  BY <1>1, <1>2, PayloadSettles
<1>7. \A m \in Nonce, t \in Slot : \A c, k :
        (m # n \/ t # s) /\ Settles(q, c, m, t, k) => Settles(Append(q, o), c, m, t, k)
  BY <1>1, <1>2, AppendSettles
<1>8. QED
  BY <1>3, <1>4, <1>5, <1>6, <1>7 DEF o

\* The whole upload of job j into such a slot.
LEMMA UploadQueue ==
    ASSUME TypeOK, NEW n \in Nonce, NEW s \in Slot, NEW j \in Job,
           Ordered(xfer), ~ReadyPending(xfer, n, s), UploadSlot(n, s, j)
    PROVE  /\ Ordered(xfer')
           /\ \A m \in Nonce, t \in Slot :
                /\ ReadyPending(xfer', m, t) <=> ReadyPending(xfer, m, t) \/ (m = n /\ t = s)
                /\ PayloadPending(xfer', m, t) <=> PayloadPending(xfer, m, t) \/ (m = n /\ t = s)
           /\ \A c : Settles(xfer', c, n, s, j)
           /\ \A m \in Nonce, t \in Slot : \A c, k :
                (m # n \/ t # s) /\ Settles(xfer, c, m, t, k) => Settles(xfer', c, m, t, k)
<1> DEFINE r == Append(xfer, PayloadOp(n, s, j))
           o == ReadyOp(n, s)
<1>1. xfer \in Seq(Op)
  BY DEF TypeOK
<1>2. /\ r \in Seq(Op) /\ Ordered(r)
      /\ \A m \in Nonce, t \in Slot :
            /\ ReadyPending(r, m, t) <=> ReadyPending(xfer, m, t)
            /\ PayloadPending(r, m, t) <=> PayloadPending(xfer, m, t) \/ (m = n /\ t = s)
      /\ \A c : Settles(r, c, n, s, j)
      /\ \A m \in Nonce, t \in Slot : \A c, k :
            (m # n \/ t # s) /\ Settles(xfer, c, m, t, k) => Settles(r, c, m, t, k)
  BY <1>1, PayloadQueue
<1>3. o \in Op /\ \A m, t : (IsReady(o, m, t) <=> m = n /\ t = s) /\ ~IsPayload(o, m, t)
  BY OpTypes, OpKinds
<1>4. xfer' = Append(r, o)
  BY DEF UploadSlot
<1> HIDE DEF r, o
<1>5. \A m \in Nonce, t \in Slot :
        /\ ReadyPending(xfer', m, t) <=> ReadyPending(r, m, t) \/ (m = n /\ t = s)
        /\ PayloadPending(xfer', m, t) <=> PayloadPending(r, m, t)
  BY <1>2, <1>3, <1>4, AppendPending
<1>6. \A m \in Nonce, t \in Slot : \A c, k : Settles(r, c, m, t, k) => Settles(xfer', c, m, t, k)
  BY <1>2, <1>3, <1>4, AppendSettles
<1>7. Ordered(xfer')
  BY <1>2, <1>3, <1>4, AppendOrdered
<1>8. QED
  BY <1>2, <1>5, <1>6, <1>7

\* A failed upload leaves the stream alone, or leaves payload without READY.
LEMMA FailedUploadQueue ==
    ASSUME TypeOK, NEW n \in Nonce, NEW s \in Slot, NEW j \in Job,
           Ordered(xfer), ~ReadyPending(xfer, n, s), UploadSlotFails(n, s, j)
    PROVE  /\ Ordered(xfer')
           /\ \A m \in Nonce, t \in Slot :
                /\ ReadyPending(xfer', m, t) <=> ReadyPending(xfer, m, t)
                /\ m # n \/ t # s => (PayloadPending(xfer', m, t) <=> PayloadPending(xfer, m, t))
           /\ \A m \in Nonce, t \in Slot : \A c, k :
                (m # n \/ t # s) /\ Settles(xfer, c, m, t, k) => Settles(xfer', c, m, t, k)
<1>1. xfer \in Seq(Op)
  BY DEF TypeOK
<1>2. CASE xfer' = xfer
  BY <1>2
<1>3. CASE xfer' = Append(xfer, PayloadOp(n, s, j))
  BY <1>1, <1>3, PayloadQueue
<1>4. QED
  BY <1>2, <1>3 DEF UploadSlotFails

\* An upload into a free slot keeps the slot protocol.
LEMMA UploadKeeps ==
    ASSUME TypeOK, SlotInv, Live,
           NEW n \in Nonce, NEW s \in Slot, NEW j \in Job,
           ~InUse(n, s), UploadSlot(n, s, j),
           \A m \in Nonce, t \in Slot, k \in Job :
               IsHeld(m, t, k)' <=> IsHeld(m, t, k) \/ (m = n /\ t = s /\ k = j),
           \A m \in Nonce, t \in Slot : InUse(m, t)' <=> InUse(m, t) \/ (m = n /\ t = s),
           UNCHANGED <<deviceVars, blockVars>>
    PROVE  (QueueOrder /\ NoCopyOverModel /\ HeldSlots /\ FreeSlots /\ RunningBlocks)'
<1>1. Ordered(xfer) /\ NoCopyOverModel /\ HeldSlots /\ FreeSlots /\ RunningBlocks
  BY DEF SlotInv, LiveInv, QueueOrder
<1>2. ~ReadyPending(xfer, n, s) /\ ctrl[n][s] \in {EMPTY, COMPLETE}
  BY <1>1 DEF FreeSlots
<1>3. UNCHANGED <<ctrl, coef, samp, bpc, bslot, bsrc>>
  BY DEF deviceVars, blockVars
<1>4. /\ Ordered(xfer')
      /\ \A m \in Nonce, t \in Slot :
           /\ ReadyPending(xfer', m, t) <=> ReadyPending(xfer, m, t) \/ (m = n /\ t = s)
           /\ PayloadPending(xfer', m, t) <=> PayloadPending(xfer, m, t) \/ (m = n /\ t = s)
      /\ \A c : Settles(xfer', c, n, s, j)
      /\ \A m \in Nonce, t \in Slot : \A c, k :
           (m # n \/ t # s) /\ Settles(xfer, c, m, t, k) => Settles(xfer', c, m, t, k)
  BY <1>1, <1>2, UploadQueue
<1>5. QueueOrder'
  BY <1>4 DEF QueueOrder
<1>6. NoCopyOverModel'
  BY <1>1, <1>2, <1>3, <1>4 DEF NoCopyOverModel
<1>7. FreeSlots'
  BY <1>1, <1>3, <1>4 DEF FreeSlots
<1>8. RunningBlocks'
  BY <1>1, <1>3 DEF RunningBlocks
<1>9. ASSUME NEW m \in Nonce, NEW t \in Slot, NEW k \in Job, IsHeld(m, t, k)'
      PROVE  /\ Settles(xfer', coef'[m][t], m, t, k)
             /\ Uploading(m, t, k)' \/ Uploaded(m, t, k)'
  <2>1. CASE m = n /\ t = s
    <3>1. k = j
      BY <1>9, <2>1, HeldInUse
    <3>2. QED
      BY <1>2, <1>3, <1>4, <2>1, <3>1 DEF Uploading
  <2>2. CASE m # n \/ t # s
    <3>1. IsHeld(m, t, k)
      BY <1>9, <2>2
    <3>2. Settles(xfer, coef[m][t], m, t, k) /\ (Uploading(m, t, k) \/ Uploaded(m, t, k))
      BY <1>1, <3>1 DEF HeldSlots
    <3>3. QED
      BY <1>3, <1>4, <2>2, <3>2 DEF Uploading, Uploaded
  <2>3. QED
    BY <2>1, <2>2
<1>10. HeldSlots'
  BY <1>9 DEF HeldSlots
<1>11. QED
  BY <1>5, <1>6, <1>7, <1>8, <1>10

\* So does an upload that fails: the host does not count on the slot.
LEMMA FailedUploadKeeps ==
    ASSUME TypeOK, SlotInv, Live,
           NEW n \in Nonce, NEW s \in Slot, NEW j \in Job,
           ~InUse(n, s), UploadSlotFails(n, s, j),
           UNCHANGED <<active, next, deviceVars, blockVars>>
    PROVE  (QueueOrder /\ NoCopyOverModel /\ HeldSlots /\ FreeSlots /\ RunningBlocks)'
<1>1. Ordered(xfer) /\ NoCopyOverModel /\ HeldSlots /\ FreeSlots /\ RunningBlocks
  BY DEF SlotInv, LiveInv, QueueOrder
<1>2. ~ReadyPending(xfer, n, s) /\ ctrl[n][s] \in {EMPTY, COMPLETE}
  BY <1>1 DEF FreeSlots
<1>3. UNCHANGED <<active, next, ctrl, coef, samp, bpc, bslot, bsrc>>
  BY DEF deviceVars, blockVars
<1>4. /\ Ordered(xfer')
      /\ \A m \in Nonce, t \in Slot :
           /\ ReadyPending(xfer', m, t) <=> ReadyPending(xfer, m, t)
           /\ m # n \/ t # s => (PayloadPending(xfer', m, t) <=> PayloadPending(xfer, m, t))
      /\ \A m \in Nonce, t \in Slot : \A c, k :
           (m # n \/ t # s) /\ Settles(xfer, c, m, t, k) => Settles(xfer', c, m, t, k)
  BY <1>1, <1>2, FailedUploadQueue
<1>5. QueueOrder'
  BY <1>4 DEF QueueOrder
<1>6. NoCopyOverModel'
  BY <1>1, <1>2, <1>3, <1>4 DEF NoCopyOverModel
<1>7. \A m \in Nonce, t \in Slot : InUse(m, t)' <=> InUse(m, t)
  BY <1>3 DEF InUse
<1>8. FreeSlots'
  BY <1>1, <1>3, <1>4, <1>7 DEF FreeSlots
<1>9. RunningBlocks'
  BY <1>1, <1>3 DEF RunningBlocks
<1>10. ASSUME NEW m \in Nonce, NEW t \in Slot, NEW k \in Job, IsHeld(m, t, k)'
       PROVE  /\ Settles(xfer', coef'[m][t], m, t, k)
              /\ Uploading(m, t, k)' \/ Uploaded(m, t, k)'
  <2>1. IsHeld(m, t, k)
    BY <1>3, <1>10 DEF IsHeld
  <2>2. m # n \/ t # s
    BY <2>1, HeldInUse
  <2>3. Settles(xfer, coef[m][t], m, t, k) /\ (Uploading(m, t, k) \/ Uploaded(m, t, k))
    BY <1>1, <2>1 DEF HeldSlots
  <2>4. QED
    BY <1>3, <1>4, <2>2, <2>3 DEF Uploading, Uploaded
<1>11. HeldSlots'
  BY <1>10 DEF HeldSlots
<1>12. QED
  BY <1>5, <1>6, <1>8, <1>9, <1>11

-----------------------------------------------------------------------------
(***************************************************************************)
(* The device executes a copy                                              *)
(***************************************************************************)
LEMMA XferKeeps == ASSUME TypeOK, SlotInv, Xfer PROVE SlotInv'
<1> DEFINE o == Head(xfer)
<1>1. /\ xfer \in Seq(Op) /\ xfer # <<>> /\ xfer' = Tail(xfer)
      /\ UNCHANGED <<phase, at, active, next, snap, bpc, bslot, bsrc>>
      /\ XferPayload(o) \/ XferReady(o) \/ XferExit(o)
  BY DEF TypeOK, Xfer, hostVars, blockVars
<1>2. o.nonce \in Nonce /\ o.slot \in Slot
  BY <1>1, HeadOp
<1>3. Ordered(xfer) /\ NoCopyOverModel
  BY DEF SlotInv, QueueOrder
<1>4. /\ Ordered(xfer')
      /\ \A n \in Nonce, s \in Slot : IsReady(o, n, s) =>
            ~ReadyPending(xfer', n, s) /\ ~PayloadPending(xfer', n, s)
  BY <1>1, <1>3, TailOrdered
<1>5. \A n \in Nonce, s \in Slot :
        /\ PayloadPending(xfer, n, s) <=> IsPayload(o, n, s) \/ PayloadPending(xfer', n, s)
        /\ ReadyPending(xfer, n, s) <=> IsReady(o, n, s) \/ ReadyPending(xfer', n, s)
  BY <1>1, TailPending
<1>6. \A n \in Nonce, s \in Slot : \A c, j : Settles(xfer, c, n, s, j) =>
        Settles(xfer', IF IsPayload(o, n, s) THEN o.job ELSE c, n, s, j)
  BY <1>1, TailSettles
<1>7. \A n \in Nonce, s \in Slot :
        /\ IsPayload(o, n, s) <=> o.op = "payload" /\ n = o.nonce /\ s = o.slot
        /\ IsReady(o, n, s) <=> o.op = "ready" /\ n = o.nonce /\ s = o.slot
  BY DEF IsPayload, IsReady
<1>8. \A n \in Nonce, s \in Slot, j \in Job : IsHeld(n, s, j)' <=> IsHeld(n, s, j)
  BY <1>1 DEF IsHeld
<1>9. \A n \in Nonce, s \in Slot : InUse(n, s)' <=> InUse(n, s)
  BY <1>1 DEF InUse
<1>10. Live' <=> Live
  BY <1>1 DEF Live
<1>11. SnapshotHolds /\ ColdVacant => (SnapshotHolds /\ ColdVacant)'
  BY <1>1 DEF SnapshotHolds, ColdVacant, IsVacant
<1>12. ctrl \in [Nonce -> [Slot -> Status]]
  BY DEF TypeOK
<1>13. coef \in [Nonce -> [Slot -> Job \cup {None}]] /\ samp \in [Nonce -> [Slot -> Job \cup {Zeroed, Torn}]]
  BY DEF TypeOK
<1> HIDE DEF o
<1>14. CASE XferPayload(o)
  <2>1. /\ o.op = "payload" /\ ctrl' = ctrl
        /\ \A n \in Nonce, s \in Slot :
             /\ n = o.nonce /\ s = o.slot => coef'[n][s] = o.job
             /\ n # o.nonce \/ s # o.slot => coef'[n][s] = coef[n][s] /\ samp'[n][s] = samp[n][s]
    BY <1>2, <1>13, <1>14 DEF XferPayload
  <2>2. ctrl[o.nonce][o.slot] \in {EMPTY, COMPLETE}
    BY <1>2, <1>3, <1>5, <1>7, <2>1 DEF NoCopyOverModel
  <2>3. NoCopyOverModel'
    BY <1>3, <1>5, <2>1 DEF NoCopyOverModel
  <2>4. ASSUME LiveInv PROVE (HeldSlots /\ FreeSlots /\ RunningBlocks)'
    <3>1. FreeSlots'
      BY <1>5, <1>9, <2>1, <2>4 DEF LiveInv, FreeSlots
    <3>2. \A n \in Nonce : bslot[n] \in Slot
      BY DEF TypeOK
    <3>3. RunningBlocks'
      BY <1>1, <1>2, <2>1, <2>2, <2>4, <3>2 DEF LiveInv, RunningBlocks, ACTIVE, EMPTY, COMPLETE
    <3>4. ASSUME NEW n \in Nonce, NEW s \in Slot, NEW j \in Job, IsHeld(n, s, j)'
          PROVE  /\ Settles(xfer', coef'[n][s], n, s, j)
                 /\ Uploading(n, s, j)' \/ Uploaded(n, s, j)'
      <4>1. Settles(xfer, coef[n][s], n, s, j) /\ (Uploading(n, s, j) \/ Uploaded(n, s, j))
        BY <1>8, <2>4, <3>4 DEF LiveInv, HeldSlots
      <4>2. Settles(xfer', coef'[n][s], n, s, j)
        BY <1>6, <1>7, <2>1, <4>1
      <4>3. Uploading(n, s, j)' \/ Uploaded(n, s, j)'
        BY <1>5, <1>7, <2>1, <4>1 DEF Uploading, Uploaded
      <4>4. QED
        BY <4>2, <4>3
    <3>5. HeldSlots'
      BY <3>4 DEF HeldSlots
    <3>6. QED
      BY <3>1, <3>3, <3>5
  <2>5. QED
    BY <1>4, <1>10, <1>11, <2>3, <2>4 DEF SlotInv, LiveInv, QueueOrder
<1>15. CASE XferReady(o)
  <2>1. /\ o.op = "ready" /\ UNCHANGED <<coef, samp>>
        /\ \A n \in Nonce, s \in Slot :
             /\ n = o.nonce /\ s = o.slot => ctrl'[n][s] = READY
             /\ n # o.nonce \/ s # o.slot => ctrl'[n][s] = ctrl[n][s]
    BY <1>2, <1>12, <1>15 DEF XferReady
  <2>2. ReadyPending(xfer, o.nonce, o.slot) /\ ~ReadyPending(xfer', o.nonce, o.slot)
        /\ ~PayloadPending(xfer', o.nonce, o.slot)
    BY <1>2, <1>4, <1>5, <1>7, <2>1
  <2>3. NoCopyOverModel'
    BY <1>3, <1>5, <2>1, <2>2 DEF NoCopyOverModel
  <2>4. ASSUME LiveInv PROVE (HeldSlots /\ FreeSlots /\ RunningBlocks)'
    <3>1. InUse(o.nonce, o.slot)
      BY <1>2, <2>2, <2>4 DEF LiveInv, FreeSlots
    <3>2. PICK j \in Job : IsHeld(o.nonce, o.slot, j)
      BY <1>2, <3>1, HeldInUse
    <3>3. ctrl[o.nonce][o.slot] \in {EMPTY, COMPLETE}
      BY <1>2, <2>2, <2>4, <3>2 DEF LiveInv, HeldSlots, Uploading, Uploaded
    <3>4. FreeSlots'
      BY <1>5, <1>9, <2>1, <2>4, <3>1 DEF LiveInv, FreeSlots
    <3>5. \A n \in Nonce : bslot[n] \in Slot
      BY DEF TypeOK
    <3>6. RunningBlocks'
      BY <1>1, <1>2, <2>1, <2>4, <3>3, <3>5 DEF LiveInv, RunningBlocks, ACTIVE, EMPTY, COMPLETE
    <3>7. ASSUME NEW n \in Nonce, NEW s \in Slot, NEW k \in Job, IsHeld(n, s, k)'
          PROVE  /\ Settles(xfer', coef'[n][s], n, s, k)
                 /\ Uploading(n, s, k)' \/ Uploaded(n, s, k)'
      <4>1. Settles(xfer, coef[n][s], n, s, k) /\ (Uploading(n, s, k) \/ Uploaded(n, s, k))
        BY <1>8, <2>4, <3>7 DEF LiveInv, HeldSlots
      <4>2. Settles(xfer', coef'[n][s], n, s, k)
        BY <1>6, <1>7, <2>1, <4>1
      <4>3. CASE n = o.nonce /\ s = o.slot
        <5>1. ctrl'[n][s] = READY
          BY <2>1, <4>3
        <5>2. Uploaded(n, s, k)'
          BY <2>2, <4>3, <5>1 DEF Uploaded, READY, COMPLETE
        <5>3. QED
          BY <4>2, <5>2
      <4>4. CASE n # o.nonce \/ s # o.slot
        <5>1. Uploading(n, s, k)' \/ Uploaded(n, s, k)'
          BY <1>5, <1>7, <2>1, <4>1, <4>4 DEF Uploading, Uploaded
        <5>2. QED
          BY <4>2, <5>1
      <4>5. QED
        BY <4>3, <4>4
    <3>8. HeldSlots'
      BY <3>7 DEF HeldSlots
    <3>9. QED
      BY <3>4, <3>6, <3>8
  <2>5. QED
    BY <1>4, <1>10, <1>11, <2>3, <2>4 DEF SlotInv, LiveInv, QueueOrder
<1>16. CASE XferExit(o)
  <2>1. o.op = "exit" /\ UNCHANGED <<ctrl, coef, samp>>
    BY <1>16 DEF XferExit
  <2>2. NoCopyOverModel'
    BY <1>3, <1>5, <2>1 DEF NoCopyOverModel
  <2>3. ASSUME LiveInv PROVE (HeldSlots /\ FreeSlots /\ RunningBlocks)'
    <3>1. FreeSlots'
      BY <1>5, <1>9, <2>1, <2>3 DEF LiveInv, FreeSlots
    <3>2. RunningBlocks'
      BY <1>1, <2>1, <2>3 DEF LiveInv, RunningBlocks
    <3>3. ASSUME NEW n \in Nonce, NEW s \in Slot, NEW k \in Job, IsHeld(n, s, k)'
          PROVE  /\ Settles(xfer', coef'[n][s], n, s, k)
                 /\ Uploading(n, s, k)' \/ Uploaded(n, s, k)'
      <4>1. Settles(xfer, coef[n][s], n, s, k) /\ (Uploading(n, s, k) \/ Uploaded(n, s, k))
        BY <1>8, <2>3, <3>3 DEF LiveInv, HeldSlots
      <4>2. Settles(xfer', coef'[n][s], n, s, k)
        BY <1>6, <1>7, <2>1, <4>1
      <4>3. Uploading(n, s, k)' \/ Uploaded(n, s, k)'
        BY <1>5, <1>7, <2>1, <4>1 DEF Uploading, Uploaded
      <4>4. QED
        BY <4>2, <4>3
    <3>4. HeldSlots'
      BY <3>3 DEF HeldSlots
    <3>5. QED
      BY <3>1, <3>2, <3>4
  <2>4. QED
    BY <1>4, <1>10, <1>11, <2>2, <2>3 DEF SlotInv, LiveInv, QueueOrder
<1>17. QED
  BY <1>1, <1>14, <1>15, <1>16

-----------------------------------------------------------------------------
(***************************************************************************)
(* The blocks                                                              *)
(***************************************************************************)
\* What no step of a block touches.
LEMMA BlockFrame ==
    ASSUME NEW n \in Nonce, Block(n)
    PROVE  UNCHANGED <<phase, at, active, next, snap, xfer, coef>>
BY DEF Block, Claim, ProbeMiss, PassEnd, Finish, AbortModel, Publish, AfterPublish,
       hostVars, deviceVars

\* A READY slot is held by the host and its upload has been executed.
LEMMA ReadyIsHeld ==
    ASSUME TypeOK, SlotInv, Live, NEW n \in Nonce, NEW s \in Slot, ctrl[n][s] \in {READY, ACTIVE}
    PROVE  \E j \in Job : /\ IsHeld(n, s, j)
                          /\ coef[n][s] = j
                          /\ ~PayloadPending(xfer, n, s) /\ ~ReadyPending(xfer, n, s)
<1>1. HeldSlots /\ FreeSlots
  BY DEF SlotInv, LiveInv
<1>2. InUse(n, s)
  BY <1>1 DEF FreeSlots, READY, ACTIVE, EMPTY, COMPLETE
<1>3. PICK j \in Job : IsHeld(n, s, j)
  BY <1>2, HeldInUse
<1>4. Settles(xfer, coef[n][s], n, s, j) /\ (Uploading(n, s, j) \/ Uploaded(n, s, j))
  BY <1>1, <1>3 DEF HeldSlots
<1>5. ~PayloadPending(xfer, n, s) /\ ~ReadyPending(xfer, n, s)
  BY <1>4 DEF Uploading, Uploaded, READY, ACTIVE, EMPTY, COMPLETE
<1>6. coef[n][s] = j
  BY <1>4, <1>5 DEF Settles, PayloadPending
<1>7. QED
  BY <1>3, <1>5, <1>6

\* A block that moves one slot's status from READY to ACTIVE or from ACTIVE to
\* COMPLETE, or none, leaves the rest of the protocol alone.
LEMMA StatusKeeps ==
    ASSUME TypeOK, SlotInv, NEW n \in Nonce, NEW s \in Slot, NEW v \in {ACTIVE, COMPLETE},
           Live \/ v = ACTIVE => ctrl[n][s] \in {READY, ACTIVE},
           Live /\ v = COMPLETE => samp[n][s] = coef[n][s],
           ctrl' = [ctrl EXCEPT ![n][s] = v],
           UNCHANGED <<phase, at, active, next, snap, xfer, coef, samp>>
    PROVE  /\ QueueOrder' /\ NoCopyOverModel'
           /\ Live => (HeldSlots /\ FreeSlots /\ SnapshotHolds /\ ColdVacant)'
<1>1. ctrl \in [Nonce -> [Slot -> Status]]
  BY DEF TypeOK
<1>2. \A m \in Nonce, t \in Slot :
        /\ m = n /\ t = s => ctrl'[m][t] = v
        /\ m # n \/ t # s => ctrl'[m][t] = ctrl[m][t]
  BY <1>1
<1>3. QueueOrder'
  BY DEF SlotInv, QueueOrder
<1>4. NoCopyOverModel'
  BY <1>2 DEF SlotInv, NoCopyOverModel, READY, ACTIVE, EMPTY, COMPLETE
<1>5. ASSUME Live PROVE (HeldSlots /\ FreeSlots /\ SnapshotHolds /\ ColdVacant)'
  <2>1. HeldSlots /\ FreeSlots /\ SnapshotHolds /\ ColdVacant
    BY <1>5 DEF SlotInv, LiveInv
  <2>2. PICK j \in Job : /\ IsHeld(n, s, j) /\ coef[n][s] = j
                         /\ ~PayloadPending(xfer, n, s) /\ ~ReadyPending(xfer, n, s)
    BY <1>5, ReadyIsHeld
  <2>3. InUse(n, s)
    BY <2>2, HeldInUse
  <2>4. \A m \in Nonce, t \in Slot : InUse(m, t)' <=> InUse(m, t)
    BY DEF InUse
  <2>5. FreeSlots'
    BY <1>2, <2>1, <2>3, <2>4 DEF FreeSlots
  <2>6. SnapshotHolds'
    BY <1>2, <2>1 DEF SnapshotHolds, READY, ACTIVE, COMPLETE
  <2>7. ColdVacant'
    BY <2>1 DEF ColdVacant, IsVacant
  <2>8. ASSUME NEW m \in Nonce, NEW t \in Slot, NEW k \in Job, IsHeld(m, t, k)'
        PROVE  /\ Settles(xfer', coef'[m][t], m, t, k)
               /\ Uploading(m, t, k)' \/ Uploaded(m, t, k)'
    <3>1. IsHeld(m, t, k)
      BY <2>8 DEF IsHeld
    <3>2. Settles(xfer, coef[m][t], m, t, k) /\ (Uploading(m, t, k) \/ Uploaded(m, t, k))
      BY <2>1, <3>1 DEF HeldSlots
    <3>3. CASE m = n /\ t = s
      <4>1. coef[n][s] = k
        BY <2>2, <3>2, <3>3 DEF Settles, PayloadPending
      <4>2. Uploaded(n, s, k)'
        BY <1>2, <1>5, <2>2, <4>1 DEF Uploaded
      <4>3. QED
        BY <3>2, <3>3, <4>2
    <3>4. CASE m # n \/ t # s
      BY <1>2, <3>2, <3>4 DEF Uploading, Uploaded
    <3>5. QED
      BY <3>3, <3>4
  <2>9. HeldSlots'
    BY <2>8 DEF HeldSlots
  <2>10. QED
    BY <2>5, <2>6, <2>7, <2>9
<1>6. QED
  BY <1>3, <1>4, <1>5

\* A block that leaves the control words alone, and writes samples only into
\* the slot it has claimed, leaves everything but RunningBlocks alone.
LEMMA SamplesKeep ==
    ASSUME TypeOK, SlotInv, NEW n \in Nonce,
           UNCHANGED <<phase, at, active, next, snap, xfer, coef, ctrl>>,
           Live => \A m \in Nonce, t \in Slot : ctrl[m][t] = COMPLETE => samp'[m][t] = samp[m][t]
    PROVE  /\ QueueOrder' /\ NoCopyOverModel'
           /\ Live => (HeldSlots /\ FreeSlots /\ SnapshotHolds /\ ColdVacant)'
<1>1. QueueOrder' /\ NoCopyOverModel'
  BY DEF SlotInv, QueueOrder, NoCopyOverModel
<1>2. ASSUME Live PROVE (HeldSlots /\ FreeSlots /\ SnapshotHolds /\ ColdVacant)'
  <2>1. HeldSlots /\ FreeSlots /\ SnapshotHolds /\ ColdVacant
    BY <1>2 DEF SlotInv, LiveInv
  <2>2. (FreeSlots /\ SnapshotHolds /\ ColdVacant)'
    BY <2>1 DEF FreeSlots, InUse, SnapshotHolds, ColdVacant, IsVacant
  <2>3. ASSUME NEW m \in Nonce, NEW t \in Slot, NEW k \in Job, IsHeld(m, t, k)'
        PROVE  /\ Settles(xfer', coef'[m][t], m, t, k)
               /\ Uploading(m, t, k)' \/ Uploaded(m, t, k)'
    <3>1. IsHeld(m, t, k)
      BY <2>3 DEF IsHeld
    <3>2. Settles(xfer, coef[m][t], m, t, k) /\ (Uploading(m, t, k) \/ Uploaded(m, t, k))
      BY <2>1, <3>1 DEF HeldSlots
    <3>3. QED
      BY <1>2, <3>2 DEF Uploading, Uploaded
  <2>4. HeldSlots'
    BY <2>3 DEF HeldSlots
  <2>5. QED
    BY <2>2, <2>4
<1>3. QED
  BY <1>1, <1>2

LEMMA BlockKeeps == ASSUME TypeOK, SlotInv, NEW n \in Nonce, Block(n) PROVE SlotInv'
<1>1. UNCHANGED <<phase, at, active, next, snap, xfer, coef>>
  BY BlockFrame
<1>2. Live' <=> Live
  BY <1>1 DEF Live
<1>3. /\ bpc \in [Nonce -> BlockPc] /\ bslot \in [Nonce -> Slot] /\ bsrc \in [Nonce -> Job \cup {None}]
      /\ ctrl \in [Nonce -> [Slot -> Status]] /\ samp \in [Nonce -> [Slot -> Job \cup {Zeroed, Torn}]]
  BY DEF TypeOK
<1>4. Live => RunningBlocks
  BY DEF SlotInv, LiveInv
\* The other nonces' blocks see nothing of it.
<1>5. ASSUME \A m \in Nonce \ {n} : /\ bpc'[m] = bpc[m] /\ bslot'[m] = bslot[m] /\ bsrc'[m] = bsrc[m]
                                     /\ ctrl'[m] = ctrl[m] /\ samp'[m] = samp[m],
             Live => (bpc'[n] \in {"anneal", "publish"} =>
                        /\ ctrl'[n][bslot'[n]] = ACTIVE
                        /\ bsrc'[n] \in Job /\ bsrc'[n] = coef[n][bslot'[n]]
                        /\ bpc'[n] = "publish" => samp'[n][bslot'[n]] = bsrc'[n]),
             QueueOrder' /\ NoCopyOverModel',
             Live => (HeldSlots /\ FreeSlots /\ SnapshotHolds /\ ColdVacant)'
      PROVE  SlotInv'
  <2>1. Live => RunningBlocks'
    BY <1>1, <1>4, <1>5 DEF RunningBlocks
  <2>2. QED
    BY <1>2, <1>5, <2>1 DEF SlotInv, LiveInv
<1>6. CASE Claim(n)
  <2>1. /\ ctrl[n][bslot[n]] = READY
        /\ ctrl' = [ctrl EXCEPT ![n][bslot[n]] = ACTIVE]
        /\ bsrc' = [bsrc EXCEPT ![n] = coef[n][bslot[n]]]
        /\ bpc' = [bpc EXCEPT ![n] = "anneal"]
        /\ UNCHANGED <<samp, bslot>>
    BY <1>6 DEF Claim
  <2>2. Live => coef[n][bslot[n]] \in Job
    BY <1>3, <2>1, ReadyIsHeld
  <2>3. QueueOrder' /\ NoCopyOverModel' /\ (Live => (HeldSlots /\ FreeSlots /\ SnapshotHolds /\ ColdVacant)')
    BY <1>1, <1>3, <2>1, StatusKeeps DEF ACTIVE, COMPLETE
  <2>4. ctrl'[n][bslot'[n]] = ACTIVE /\ bsrc'[n] = coef[n][bslot'[n]] /\ bpc'[n] = "anneal"
    BY <1>3, <2>1
  <2>5. QED
    BY <1>3, <1>5, <2>1, <2>2, <2>3, <2>4
<1>7. CASE ProbeMiss(n) \/ PassEnd(n) \/ AfterPublish(n)
  <2>1. /\ UNCHANGED <<ctrl, samp, bsrc>>
        /\ bpc'[n] \notin {"anneal", "publish"}
        /\ \A m \in Nonce \ {n} : bpc'[m] = bpc[m] /\ bslot'[m] = bslot[m]
    BY <1>3, <1>7 DEF ProbeMiss, PassEnd, AfterPublish, deviceVars
  <2>2. QueueOrder' /\ NoCopyOverModel' /\ (Live => (HeldSlots /\ FreeSlots /\ SnapshotHolds /\ ColdVacant)')
    BY <1>1, <2>1, SamplesKeep
  <2>3. QED
    BY <1>5, <2>1, <2>2
<1>8. CASE Finish(n) \/ AbortModel(n)
  <2>1. /\ UNCHANGED <<ctrl, bslot, bsrc>> /\ bpc[n] = "anneal"
        /\ \A m \in Nonce \ {n} : bpc'[m] = bpc[m] /\ samp'[m] = samp[m]
        /\ \A t \in Slot : t # bslot[n] => samp'[n][t] = samp[n][t]
    BY <1>3, <1>8 DEF Finish, AbortModel
  <2>2. Live => ctrl[n][bslot[n]] = ACTIVE /\ bsrc[n] \in Job /\ bsrc[n] = coef[n][bslot[n]]
    BY <1>4, <2>1 DEF RunningBlocks
  <2>3. Live => (bpc'[n] \in {"anneal", "publish"} => bpc'[n] = "publish" /\ samp'[n][bslot[n]] = bsrc[n])
    BY <1>3, <1>8, <2>2 DEF Finish, AbortModel
  <2>4. Live => \A m \in Nonce, t \in Slot : ctrl[m][t] = COMPLETE => samp'[m][t] = samp[m][t]
    BY <2>1, <2>2 DEF ACTIVE, COMPLETE
  <2>5. QueueOrder' /\ NoCopyOverModel' /\ (Live => (HeldSlots /\ FreeSlots /\ SnapshotHolds /\ ColdVacant)')
    BY <1>1, <2>1, <2>4, SamplesKeep
  <2>6. QED
    BY <1>5, <2>1, <2>2, <2>3, <2>5
<1>9. CASE Publish(n)
  <2>1. /\ bpc[n] = "publish"
        /\ ctrl' = [ctrl EXCEPT ![n][bslot[n]] = COMPLETE]
        /\ bpc' = [bpc EXCEPT ![n] = "complete"]
        /\ UNCHANGED <<samp, bslot, bsrc>>
    BY <1>9 DEF Publish
  <2>2. Live => ctrl[n][bslot[n]] = ACTIVE /\ samp[n][bslot[n]] = coef[n][bslot[n]]
    BY <1>4, <2>1 DEF RunningBlocks
  <2>3. QueueOrder' /\ NoCopyOverModel' /\ (Live => (HeldSlots /\ FreeSlots /\ SnapshotHolds /\ ColdVacant)')
    <3>1. bslot[n] \in Slot /\ COMPLETE \in {ACTIVE, COMPLETE} /\ COMPLETE # ACTIVE
      BY <1>3 DEF ACTIVE, COMPLETE
    <3>2. QED
      BY <1>1, <2>1, <2>2, <3>1, StatusKeeps
  <2>4. /\ bpc'[n] = "complete"
        /\ \A m \in Nonce \ {n} : bpc'[m] = bpc[m] /\ ctrl'[m] = ctrl[m]
    BY <1>3, <2>1
  <2>5. QED
    BY <1>5, <2>1, <2>3, <2>4
<1>10. QED
  BY <1>6, <1>7, <1>8, <1>9 DEF Block

-----------------------------------------------------------------------------
(***************************************************************************)
(* The host                                                                *)
(***************************************************************************)
\* A step that leaves streams, slots and blocks alone keeps what is said of
\* them, and it need not be said again once the host gives up.
LEMMA GivesUp ==
    ASSUME TypeOK, SlotInv, UNCHANGED <<xfer, ctrl>>, ~Live'
    PROVE  SlotInv'
BY DEF SlotInv, QueueOrder, NoCopyOverModel

LEMMA HostFrame ==
    ASSUME TypeOK, SlotInv, Live,
           UNCHANGED <<active, next, xfer, deviceVars, blockVars>>
    PROVE  (QueueOrder /\ NoCopyOverModel /\ HeldSlots /\ FreeSlots /\ RunningBlocks)'
<1>1. QueueOrder /\ NoCopyOverModel /\ HeldSlots /\ FreeSlots /\ RunningBlocks
  BY DEF SlotInv, LiveInv
<1>2. UNCHANGED <<active, next, xfer, ctrl, coef, samp, bpc, bslot, bsrc>>
  BY DEF deviceVars, blockVars
<1>3. HeldSlots'
  BY <1>1, <1>2 DEF HeldSlots, IsHeld, Uploading, Uploaded
<1>4. (FreeSlots /\ RunningBlocks)'
  BY <1>1, <1>2 DEF FreeSlots, InUse, RunningBlocks
<1>5. (QueueOrder /\ NoCopyOverModel)'
  BY <1>1, <1>2 DEF QueueOrder, NoCopyOverModel
<1>6. QED
  BY <1>3, <1>4, <1>5

\* An operation of signal_exit joins the stream.
LEMMA ExitKeeps ==
    ASSUME TypeOK, SlotInv, NEW n \in Nonce, xfer' = Append(xfer, ExitOp(n)),
           UNCHANGED ctrl, ~Live'
    PROVE  SlotInv'
<1>1. xfer \in Seq(Op) /\ Ordered(xfer) /\ NoCopyOverModel /\ 0 \in Slot
  BY DEF TypeOK, SlotInv, QueueOrder, Slot
<1>2. ExitOp(n) \in Op
  BY DEF ExitOp, Op, Slot
<1>3. \A m \in Nonce, t \in Slot : ~IsReady(ExitOp(n), m, t) /\ ~IsPayload(ExitOp(n), m, t)
  BY OpKinds
<1>4. Ordered(xfer')
  BY <1>1, <1>2, <1>3, AppendOrdered
<1>5. \A m \in Nonce, t \in Slot : PayloadPending(xfer', m, t) <=> PayloadPending(xfer, m, t)
  BY <1>1, <1>2, <1>3, AppendPending
<1>6. NoCopyOverModel'
  BY <1>1, <1>5 DEF NoCopyOverModel
<1>7. QED
  BY <1>4, <1>6 DEF SlotInv, QueueOrder

\* scan_completions takes the finished job of nonce `at` off its slot.
LEMMA RotateKeeps ==
    ASSUME TypeOK, SlotInv, phase = "scan", at \in Nonce, SeenComplete(at),
           RotateOnCompletion(at), ScanNext, UNCHANGED <<snap, xfer, deviceVars, blockVars>>
    PROVE  SlotInv'
<1> DEFINE s == active[at].slot
<1>1. /\ Live /\ QueueOrder /\ NoCopyOverModel
      /\ HeldSlots /\ FreeSlots /\ RunningBlocks /\ SnapshotHolds
  BY DEF Live, SlotInv, LiveInv
<1>2. UNCHANGED <<snap, xfer, ctrl, coef, samp, bpc, bslot, bsrc>>
  BY DEF deviceVars, blockVars
<1>3. active[at] # None /\ s \in Slot /\ snap[at][s] = COMPLETE
  BY HeldTypes DEF SeenComplete
<1>4. at \in Nat /\ xfer = <<>> /\ ctrl[at][s] = COMPLETE
  BY <1>1, <1>3 DEF SnapshotHolds, Nonce
<1>5. \A m \in Nonce, t \in Slot : ~ReadyPending(xfer, m, t)
  BY <1>4 DEF ReadyPending
<1>6. /\ active \in [Nonce -> Held \cup {None}] /\ next \in [Nonce -> Held \cup {None}]
      /\ active' = [active EXCEPT ![at] = next[at]] /\ next' = [next EXCEPT ![at] = None]
  BY DEF TypeOK, RotateOnCompletion
<1>7. \A m \in Nonce, t \in Slot, k \in Job : IsHeld(m, t, k)' => IsHeld(m, t, k)
  BY <1>6 DEF IsHeld
<1>8. \A m \in Nonce, t \in Slot : InUse(m, t) => InUse(m, t)' \/ (m = at /\ t = s)
  BY <1>6 DEF InUse
<1>9. FreeSlots'
  BY <1>1, <1>2, <1>4, <1>5, <1>8 DEF FreeSlots
<1>10. HeldSlots'
  <2>1. ASSUME NEW m \in Nonce, NEW t \in Slot, NEW k \in Job, IsHeld(m, t, k)'
        PROVE  /\ Settles(xfer', coef'[m][t], m, t, k)
               /\ Uploading(m, t, k)' \/ Uploaded(m, t, k)'
    <3>1. Settles(xfer, coef[m][t], m, t, k) /\ (Uploading(m, t, k) \/ Uploaded(m, t, k))
      BY <1>1, <1>7, <2>1 DEF HeldSlots
    <3>2. QED
      BY <1>2, <3>1 DEF Uploading, Uploaded
  <2>2. QED
    BY <2>1 DEF HeldSlots
<1>11. (QueueOrder /\ NoCopyOverModel /\ RunningBlocks)'
  BY <1>1, <1>2 DEF QueueOrder, NoCopyOverModel, RunningBlocks
<1>12. SnapshotHolds'
  BY <1>1, <1>2, <1>4 DEF SnapshotHolds, ScanNext, Nonce
<1>13. ColdVacant'
  BY DEF ColdVacant, ScanNext
<1>14. QED
  BY <1>9, <1>10, <1>11, <1>12, <1>13 DEF SlotInv, LiveInv

LEMMA InitSlots == Init => SlotInv
<1> SUFFICES ASSUME Init PROVE SlotInv
  OBVIOUS
<1>1. Len(xfer) = 0 /\ 1..0 = {}
  BY DEF Init
<1>2. QueueOrder /\ NoCopyOverModel
  BY <1>1 DEF QueueOrder, Ordered, NoCopyOverModel, PayloadPending
<1>3. HeldSlots
  BY DEF Init, HeldSlots, IsHeld
<1>4. FreeSlots
  BY <1>1 DEF Init, FreeSlots, ReadyPending
<1>5. RunningBlocks /\ SnapshotHolds /\ ColdVacant
  BY DEF Init, RunningBlocks, SnapshotHolds, ColdVacant, IsVacant
<1>6. QED
  BY <1>2, <1>3, <1>4, <1>5 DEF SlotInv, LiveInv

LEMMA ColdUploadKeeps ==
    ASSUME TypeOK, SlotInv, NEW j \in Job, ColdUpload(j) \/ ColdUploadFails(j)
    PROVE  SlotInv'
<1>1. /\ phase = "cold" /\ at \in Nonce /\ Live
      /\ phase' = phase /\ at' = at + 1
      /\ UNCHANGED <<next, deviceVars, blockVars>>
  BY DEF ColdUpload, ColdUploadFails, Live
<1>2. ColdVacant /\ at \in Nat /\ 0 \in Slot
  BY <1>1 DEF SlotInv, LiveInv, Nonce, Slot
<1>3. IsVacant(at) /\ ~InUse(at, 0)
  BY <1>1, <1>2 DEF ColdVacant, IsVacant, InUse
<1>4. SnapshotHolds'
  BY <1>1 DEF SnapshotHolds
<1>5. CASE ColdUpload(j)
  <2>1. /\ UploadSlot(at, 0, j)
        /\ active \in [Nonce -> Held \cup {None}]
        /\ active' = [active EXCEPT ![at] = [slot |-> 0, job |-> j]]
        /\ [slot |-> 0, job |-> j] # None
    <3>1. [slot |-> 0, job |-> j] # None
      BY <1>2, Assumption DEF Held
    <3>2. QED
      BY <1>5, <3>1 DEF ColdUpload, TypeOK
  <2>2. \A m \in Nonce, t \in Slot, k \in Job :
           IsHeld(m, t, k)' <=> IsHeld(m, t, k) \/ (m = at /\ t = 0 /\ k = j)
    BY <1>1, <1>3, <2>1 DEF IsHeld, IsVacant
  <2>3. \A m \in Nonce, t \in Slot : InUse(m, t)' <=> InUse(m, t) \/ (m = at /\ t = 0)
    BY <1>1, <1>3, <2>1 DEF InUse, IsVacant
  <2>4. (QueueOrder /\ NoCopyOverModel /\ HeldSlots /\ FreeSlots /\ RunningBlocks)'
    BY <1>1, <1>2, <1>3, <2>1, <2>2, <2>3, UploadKeeps
  <2>5. \A m \in Nonce : m >= at + 1 => m >= at /\ m # at
    BY <1>2 DEF Nonce
  <2>6. ColdVacant'
    BY <1>1, <1>2, <2>1, <2>5 DEF ColdVacant, IsVacant
  <2>7. QED
    BY <1>4, <2>4, <2>6 DEF SlotInv, LiveInv
<1>6. CASE ColdUploadFails(j)
  <2>1. UploadSlotFails(at, 0, j) /\ UNCHANGED active
    BY <1>6 DEF ColdUploadFails
  <2>2. (QueueOrder /\ NoCopyOverModel /\ HeldSlots /\ FreeSlots /\ RunningBlocks)'
    BY <1>1, <1>2, <1>3, <2>1, FailedUploadKeeps
  <2>3. \A m \in Nonce : m >= at + 1 => m >= at
    BY <1>2 DEF Nonce
  <2>4. ColdVacant'
    BY <1>1, <1>2, <2>1, <2>3 DEF ColdVacant, IsVacant
  <2>5. QED
    BY <1>4, <2>2, <2>4 DEF SlotInv, LiveInv
<1>7. QED
  BY <1>5, <1>6

LEMMA RefillUploadKeeps ==
    ASSUME TypeOK, SlotInv, NEW j \in Job, RefillUpload(j) \/ RefillUploadFails(j)
    PROVE  SlotInv'
<1>1. /\ phase = "refill" /\ at \in Nonce /\ Live
      /\ phase' = phase /\ at' = at
      /\ UNCHANGED <<deviceVars, blockVars>>
  BY DEF RefillUpload, RefillUploadFails, Live
<1>2. (SnapshotHolds /\ ColdVacant)'
  BY <1>1 DEF SnapshotHolds, ColdVacant
<1>3. CASE RefillUpload(j)
  <2>1. PICK s \in Slot : IsOpenSlot(at, s) /\ UploadSlot(at, s, j) /\ Admit(at, s, j)
    BY <1>3 DEF RefillUpload
  <2>2. ~InUse(at, s) /\ (active[at] = None \/ next[at] = None)
    BY <2>1 DEF IsOpenSlot
  <2>3. [slot |-> s, job |-> j] # None
    BY Assumption DEF Held
  <2>4. active \in [Nonce -> Held \cup {None}] /\ next \in [Nonce -> Held \cup {None}]
    BY DEF TypeOK
  <2>5. \/ /\ active[at] = None /\ next' = next
           /\ active' = [active EXCEPT ![at] = [slot |-> s, job |-> j]]
        \/ /\ next[at] = None /\ active' = active
           /\ next' = [next EXCEPT ![at] = [slot |-> s, job |-> j]]
    BY <2>1, <2>2 DEF Admit
  <2>6. \A m \in Nonce, t \in Slot, k \in Job :
           IsHeld(m, t, k)' <=> IsHeld(m, t, k) \/ (m = at /\ t = s /\ k = j)
    BY <1>1, <2>3, <2>4, <2>5 DEF IsHeld
  <2>7. \A m \in Nonce, t \in Slot : InUse(m, t)' <=> InUse(m, t) \/ (m = at /\ t = s)
    BY <1>1, <2>3, <2>4, <2>5 DEF InUse
  <2>8. (QueueOrder /\ NoCopyOverModel /\ HeldSlots /\ FreeSlots /\ RunningBlocks)'
    BY <1>1, <2>1, <2>2, <2>6, <2>7, UploadKeeps
  <2>9. QED
    BY <1>2, <2>8 DEF SlotInv, LiveInv
<1>4. CASE RefillUploadFails(j)
  <2>1. PICK s \in Slot : IsOpenSlot(at, s) /\ UploadSlotFails(at, s, j)
    BY <1>4 DEF RefillUploadFails
  <2>2. ~InUse(at, s) /\ UNCHANGED <<active, next>>
    BY <1>4, <2>1 DEF IsOpenSlot, RefillUploadFails
  <2>3. (QueueOrder /\ NoCopyOverModel /\ HeldSlots /\ FreeSlots /\ RunningBlocks)'
    BY <1>1, <2>1, <2>2, FailedUploadKeeps
  <2>4. QED
    BY <1>2, <2>3 DEF SlotInv, LiveInv
<1>5. QED
  BY <1>3, <1>4

\* Every step of the session keeps the slot protocol.
LEMMA SlotStep == TypeOK /\ SlotInv /\ [Next]_vars => SlotInv'
<1> SUFFICES ASSUME TypeOK, SlotInv, [Next]_vars PROVE SlotInv'
  OBVIOUS
<1>1. ASSUME NEW j \in Job, ColdUpload(j) \/ ColdUploadFails(j) PROVE SlotInv'
  BY <1>1, ColdUploadKeeps
<1>2. ASSUME NEW j \in Job, RefillUpload(j) \/ RefillUploadFails(j) PROVE SlotInv'
  BY <1>2, RefillUploadKeeps
<1>3. CASE Launch
  <2>1. Live /\ phase' = "top" /\ UNCHANGED <<active, next, xfer, deviceVars, bslot, bsrc>>
        /\ bpc' = [n \in Nonce |-> "entry"]
    BY <1>3 DEF Launch, Live
  <2>2. UNCHANGED <<ctrl, coef, samp>>
    BY <2>1 DEF deviceVars
  <2>3. QueueOrder /\ NoCopyOverModel /\ HeldSlots /\ FreeSlots
    BY <2>1 DEF SlotInv, LiveInv
  <2>4. HeldSlots'
    BY <2>1, <2>2, <2>3 DEF HeldSlots, IsHeld, Uploading, Uploaded
  <2>5. (QueueOrder /\ NoCopyOverModel /\ FreeSlots)'
    BY <2>1, <2>2, <2>3 DEF QueueOrder, NoCopyOverModel, FreeSlots, InUse
  <2>6. (RunningBlocks /\ SnapshotHolds /\ ColdVacant)'
    BY <2>1 DEF RunningBlocks, SnapshotHolds, ColdVacant
  <2>7. QED
    BY <2>4, <2>5, <2>6 DEF SlotInv, LiveInv
<1>4. CASE LaunchFails \/ Stall \/ PollCtrlFails \/ EndSession \/ BeginAbort
  <2>1. UNCHANGED <<xfer, ctrl>> /\ ~Live'
    BY <1>4 DEF LaunchFails, Stall, PollCtrlFails, EndSession, BeginAbort, deviceVars, Live
  <2>2. QED
    BY <2>1, GivesUp
<1>5. CASE BeginPass \/ RefillNext \/ RefillEnds
  <2>1. /\ Live /\ phase' \in {"refill", "watch"}
        /\ UNCHANGED <<active, next, xfer, deviceVars, blockVars>>
    BY <1>5 DEF BeginPass, RefillNext, RefillEnds, Live
  <2>2. (QueueOrder /\ NoCopyOverModel /\ HeldSlots /\ FreeSlots /\ RunningBlocks)'
    BY <2>1, HostFrame
  <2>3. (SnapshotHolds /\ ColdVacant)'
    BY <2>1 DEF SnapshotHolds, ColdVacant
  <2>4. QED
    BY <2>2, <2>3 DEF SlotInv, LiveInv
<1>6. CASE PollCtrl
  <2>1. /\ Live /\ phase' = "scan" /\ snap' = ctrl /\ xfer = <<>>
        /\ UNCHANGED <<active, next, xfer, deviceVars, blockVars>>
    BY <1>6 DEF PollCtrl, Live
  <2>2. (QueueOrder /\ NoCopyOverModel /\ HeldSlots /\ FreeSlots /\ RunningBlocks)'
    BY <2>1, HostFrame
  <2>3. ctrl' = ctrl
    BY <2>1 DEF deviceVars
  <2>4. (SnapshotHolds /\ ColdVacant)'
    BY <2>1, <2>3 DEF SnapshotHolds, ColdVacant
  <2>5. QED
    BY <2>2, <2>4 DEF SlotInv, LiveInv
<1>7. CASE ScanIdle
  <2>1. /\ Live /\ phase = "scan" /\ at \in Nonce /\ ScanNext
        /\ UNCHANGED <<active, next, snap, xfer, deviceVars, blockVars>>
    BY <1>7 DEF ScanIdle, Live
  <2>2. (QueueOrder /\ NoCopyOverModel /\ HeldSlots /\ FreeSlots /\ RunningBlocks)'
    BY <2>1, HostFrame
  <2>3. SnapshotHolds /\ UNCHANGED <<snap, xfer, ctrl>> /\ at' = at + 1 /\ at \in Nat
        /\ phase' \in {"scan", "top"}
    BY <2>1 DEF SlotInv, LiveInv, deviceVars, ScanNext, Nonce
  <2>4. (SnapshotHolds /\ ColdVacant)'
    BY <2>1, <2>3 DEF SnapshotHolds, ColdVacant, Nonce
  <2>5. QED
    BY <2>2, <2>4 DEF SlotInv, LiveInv
<1>8. CASE ScanDeliver \/ ScanDownloadFails
  BY <1>8, RotateKeeps DEF ScanDeliver, ScanDownloadFails
<1>9. CASE SignalExit
  <2>1. at \in Nonce /\ xfer' = Append(xfer, ExitOp(at)) /\ UNCHANGED ctrl /\ ~Live'
    BY <1>9 DEF SignalExit, deviceVars, Live
  <2>2. QED
    BY <2>1, ExitKeeps
<1>10. CASE AbortSignalled \/ DropSignalled \/ DropSignalFails \/ DrainTransfer
            \/ AbortDone \/ AbortFails \/ Free \/ Escalate
  <2>1. UNCHANGED <<xfer, ctrl>> /\ ~Live'
    BY <1>10 DEF AbortSignalled, DropSignalled, DropSignalFails, DrainTransfer,
                 AbortDone, AbortFails, Free, Escalate, deviceVars, Live
  <2>2. QED
    BY <2>1, GivesUp
<1>11. CASE Xfer
  BY <1>11, XferKeeps
<1>12. ASSUME NEW n \in Nonce, Block(n) PROVE SlotInv'
  BY <1>12, BlockKeeps
<1>13. CASE UNCHANGED vars
  <2>1. UNCHANGED <<phase, at, active, next, snap, xfer, ctrl, coef, samp, bpc, bslot, bsrc>>
    BY <1>13 DEF vars, hostVars, deviceVars, blockVars
  <2>2. CASE Live
    <3>1. UNCHANGED <<active, next, xfer, deviceVars, blockVars>>
      BY <1>13 DEF vars, hostVars
    <3>2. (QueueOrder /\ NoCopyOverModel /\ HeldSlots /\ FreeSlots /\ RunningBlocks)'
      BY <2>2, <3>1, HostFrame
    <3>3. (SnapshotHolds /\ ColdVacant)'
      BY <2>1, <2>2 DEF SlotInv, LiveInv, SnapshotHolds, ColdVacant, IsVacant
    <3>4. QED
      BY <3>2, <3>3 DEF SlotInv, LiveInv
  <2>3. CASE ~Live
    BY <2>1, <2>3, GivesUp DEF Live
  <2>4. QED
    BY <2>2, <2>3
<1>14. QED
  BY <1>1, <1>2, <1>3, <1>4, <1>5, <1>6, <1>7, <1>8, <1>9, <1>10, <1>11, <1>12, <1>13
     DEF Next, Step, Failure, Over

\* The slot protocol is an invariant of the session.
THEOREM SlotsSafe == Spec => []SlotInv
<1>1. TypeOK /\ SlotInv /\ [Next]_vars => SlotInv'
  BY SlotStep
<1>2. Init => SlotInv
  BY InitSlots
<1>3. Spec => []TypeOK
  BY TypeCorrect
<1>4. QED
  BY <1>1, <1>2, <1>3, PTL DEF Spec

-----------------------------------------------------------------------------
(***************************************************************************)
(* What the protocol is for                                                *)
(***************************************************************************)
\* No coefficient copy is ever queued for a slot a block may be reading.
THEOREM NoCopyUnderBlockHolds == Spec => []NoCopyUnderBlock
<1>1. TypeOK /\ SlotInv => NoCopyUnderBlock
  <2> SUFFICES ASSUME TypeOK, SlotInv, NEW i \in DOMAIN xfer, xfer[i].op = "payload"
               PROVE  ctrl[xfer[i].nonce][xfer[i].slot] \in {EMPTY, COMPLETE}
    BY DEF NoCopyUnderBlock
  <2>1. xfer \in Seq(Op) /\ NoCopyOverModel
    BY DEF TypeOK, SlotInv
  <2>2. i \in 1..Len(xfer) /\ xfer[i] \in Op
    BY <2>1
  <2>3. xfer[i].nonce \in Nonce /\ xfer[i].slot \in Slot
    BY <2>2 DEF Op
  <2>4. PayloadPending(xfer, xfer[i].nonce, xfer[i].slot)
    BY <2>2 DEF PayloadPending, IsPayload
  <2>5. QED
    BY <2>1, <2>3, <2>4 DEF NoCopyOverModel
<1>2. QED
  BY <1>1, TypeCorrect, SlotsSafe, PTL

\* No block anneals a model the host does not wait for.
THEOREM WorksForHostHolds == Spec => []WorksForHost
<1>1. TypeOK /\ SlotInv => WorksForHost
  <2> SUFFICES ASSUME TypeOK, SlotInv, NEW n \in Nonce, bpc[n] \in {"anneal", "publish"},
                      phase \in {"top", "refill", "watch", "scan"}
               PROVE  InUse(n, bslot[n])
    BY DEF WorksForHost
  <2>1. RunningBlocks /\ FreeSlots /\ bslot[n] \in Slot
    BY DEF TypeOK, SlotInv, LiveInv, Live
  <2>2. ctrl[n][bslot[n]] = ACTIVE
    BY <2>1 DEF RunningBlocks
  <2>3. QED
    BY <2>1, <2>2 DEF FreeSlots, ACTIVE, EMPTY, COMPLETE
<1>2. QED
  BY <1>1, TypeCorrect, SlotsSafe, PTL

\* When the scan finds a job COMPLETE, the slot's sample buffer is its own.
LEMMA CompleteIsOwn ==
    ASSUME TypeOK, SlotInv, phase = "scan", at \in Nonce, SeenComplete(at)
    PROVE  samp[at][active[at].slot] = active[at].job
<1> DEFINE s == active[at].slot
           j == active[at].job
<1>1. active[at] # None /\ s \in Slot /\ j \in Job /\ snap[at][s] = COMPLETE
  BY HeldTypes DEF SeenComplete
<1>2. HeldSlots /\ SnapshotHolds
  BY DEF SlotInv, LiveInv, Live
<1>3. xfer = <<>> /\ ctrl[at][s] = COMPLETE
  BY <1>1, <1>2 DEF SnapshotHolds, Nonce
<1>4. ~ReadyPending(xfer, at, s)
  BY <1>3 DEF ReadyPending
<1>5. IsHeld(at, s, j)
  BY <1>1 DEF IsHeld
<1>6. Uploaded(at, s, j)
  BY <1>1, <1>2, <1>4, <1>5 DEF HeldSlots, Uploading
<1>7. QED
  BY <1>3, <1>6 DEF Uploaded

\* A job is answered with its own samples, or rejected.
THEOREM Faithful == Spec => []ResultFidelity
<1>1. Init => ResultFidelity
  BY DEF Init, ResultFidelity
<1>2. TypeOK /\ SlotInv /\ ResultFidelity /\ [Next]_vars => ResultFidelity'
  <2> SUFFICES ASSUME TypeOK, SlotInv, ResultFidelity, [Next]_vars,
                      NEW j \in Job
               PROVE  out'[j] \in {j, Unanswered, Rejected}
    BY DEF ResultFidelity
  <2>1. out[j] \in {j, Unanswered, Rejected} /\ out \in [Job -> Answer]
    BY DEF ResultFidelity, TypeOK
  <2>2. CASE out' = out
    BY <2>1, <2>2
  <2>3. ASSUME NEW k \in Job, out' = [out EXCEPT ![k] = Rejected] PROVE out'[j] \in {j, Unanswered, Rejected}
    BY <2>1, <2>3
  <2>4. CASE ReleaseHeld
    BY <2>1, <2>4 DEF ReleaseHeld
  <2>5. CASE ScanDeliver
    <3>1. samp[at][active[at].slot] = active[at].job /\ active[at].job \in Job
      BY <2>5, CompleteIsOwn, HeldTypes DEF ScanDeliver, SeenComplete
    <3>2. QED
      BY <2>1, <2>5, <3>1 DEF ScanDeliver
  <2>6. CASE ScanDownloadFails
    <3>1. active[at].job \in Job
      BY <2>6, HeldTypes DEF ScanDownloadFails, SeenComplete
    <3>2. QED
      BY <2>3, <2>6, <3>1 DEF ScanDownloadFails
  <2>7. CASE Step
    BY <2>2, <2>4, <2>5, <2>7
       DEF Step, ColdUpload, RefillUpload, Launch, BeginPass, BeginAbort, RefillNext, RefillEnds,
           EndSession, Stall, PollCtrl, ScanIdle, SignalExit, AbortSignalled, DropSignalled,
           DrainTransfer, AbortDone, Free
  <2>8. CASE Failure
    BY <2>2, <2>3, <2>4, <2>6, <2>8
       DEF Failure, ColdUploadFails, RefillUploadFails, LaunchFails, PollCtrlFails, AbortFails,
           DropSignalFails, Escalate
  <2>9. CASE Xfer \/ (\E n \in Nonce : Block(n)) \/ Over \/ UNCHANGED vars
    <3>1. out' = out
      BY <2>9 DEF Xfer, Block, Claim, ProbeMiss, PassEnd, Finish, AbortModel, Publish, AfterPublish,
                  Over, vars, hostVars
    <3>2. QED
      BY <2>2, <3>1
  <2>10. QED
    BY <2>7, <2>8, <2>9 DEF Next
<1>3. QED
  BY <1>1, <1>2, TypeCorrect, SlotsSafe, PTL DEF Spec

-----------------------------------------------------------------------------
(***************************************************************************)
(* The session implements SlotQueue                                        *)
(***************************************************************************)
\* NEXT is only filled behind a model that is ACTIVE.
NextBehindActive == \A n \in Nonce : active[n] = None => next[n] = None

\* The jobs of a nonce whose ACTIVE is a and whose NEXT is b.
TwoDeep(a, b) == (IF a = None THEN <<>> ELSE <<a.job>>) \o (IF b = None THEN <<>> ELSE <<b.job>>)

HostQueue == [n \in Nonce |-> HeldJobs(n)]

LEMMA PairOfJobs ==
    ASSUME NEW j \in Job, NEW k \in Job
    PROVE  <<j>> \o <<k>> = <<j, k>>
<1>1. <<j>> \in Seq(Job)
  OBVIOUS
<1>2. Append(<<j>>, k) = <<j, k>>
  <2> DEFINE s == Append(<<j>>, k)
             t == <<j, k>>
  <2>1. s \in Seq(Job) /\ Len(s) = 2 /\ s[1] = j /\ s[2] = k
    BY <1>1, AppendProperties
  <2>2. t \in Seq(Job) /\ Len(t) = 2 /\ t[1] = j /\ t[2] = k
    OBVIOUS
  <2>3. \A i \in 1..Len(s) : s[i] = t[i]
    BY <2>1, <2>2
  <2>4. QED
    BY <2>1, <2>2, <2>3, SeqEqual
<1>3. QED
  BY <1>1, <1>2, AppendIsConcat

\* A nonce's queue is empty, or has one job, or two.
LEMMA QueueShapes ==
    ASSUME NEW a \in Held, NEW b \in Held
    PROVE  /\ TwoDeep(None, None) = <<>>
           /\ TwoDeep(a, None) = <<a.job>>
           /\ TwoDeep(a, b) = <<a.job, b.job>>
           /\ a # None /\ b # None /\ a.job \in Job /\ b.job \in Job
<1>1. a # None /\ b # None /\ a.job \in Job /\ b.job \in Job
  BY Assumption DEF Held
<1>2. <<>> \o <<>> = <<>> /\ <<a.job>> \o <<>> = <<a.job>>
  BY <1>1
<1>3. <<a.job>> \o <<b.job>> = <<a.job, b.job>>
  BY <1>1, PairOfJobs
<1>4. QED
  BY <1>1, <1>2, <1>3 DEF TwoDeep

LEMMA QueueIsTwoDeep ==
    /\ \A n \in Nonce : HeldJobs(n) = TwoDeep(active[n], next[n])
    /\ \A n \in Nonce : HeldJobs(n)' = TwoDeep(active'[n], next'[n])
BY DEF HeldJobs, TwoDeep

\* What the host holds is what is queued.
LEMMA HeldIsQueued ==
    ASSUME TypeOK, NextBehindActive, NEW n \in Nonce, NEW j \in Job
    PROVE  HoldsJob(n, j) <=> \E i \in 1..Len(HostQueue[n]) : HostQueue[n][i] = j
<1>0. /\ HostQueue[n] = TwoDeep(active[n], next[n])
      /\ active[n] \in Held \cup {None} /\ next[n] \in Held \cup {None}
  BY QueueIsTwoDeep DEF HostQueue, TypeOK
<1>1. CASE active[n] = None
  <2>1. next[n] = None
    BY <1>1 DEF NextBehindActive
  <2>2. HostQueue[n] = <<>>
    BY <1>0, <1>1, <2>1 DEF TwoDeep
  <2>3. QED
    BY <1>1, <2>1, <2>2 DEF HoldsJob
<1>2. CASE active[n] # None /\ next[n] = None
  <2>1. HostQueue[n] = <<active[n].job>>
    BY <1>0, <1>2, QueueShapes
  <2>2. QED
    BY <1>2, <2>1 DEF HoldsJob
<1>3. CASE active[n] # None /\ next[n] # None
  <2>1. HostQueue[n] = <<active[n].job, next[n].job>>
    BY <1>0, <1>3, QueueShapes
  <2>2. QED
    BY <1>3, <2>1 DEF HoldsJob
<1>4. QED
  BY <1>1, <1>2, <1>3

\* A job admitted by an upload goes to the back of its nonce's queue.
LEMMA EnqueueStep ==
    ASSUME TypeOK, NextBehindActive, NEW n \in Nonce, NEW s \in Slot, NEW j \in unseen,
           active[n] = None \/ next[n] = None, Admit(n, s, j),
           unseen' = unseen \ {j}, UNCHANGED out
    PROVE  Queue!Enqueue(n, j) /\ NextBehindActive'
<1> DEFINE x == [slot |-> s, job |-> j]
<1>0. x \in Held /\ x # None /\ j \in Job /\ x.job = j
  BY Assumption DEF Held, TypeOK
<1>1. /\ active[n] \in Held \cup {None} /\ next[n] = None
      /\ active \in [Nonce -> Held \cup {None}] /\ next \in [Nonce -> Held \cup {None}]
  BY DEF TypeOK, NextBehindActive
<1>2. \A m \in Nonce : m # n => active'[m] = active[m] /\ next'[m] = next[m]
  BY <1>1 DEF Admit
<1>3. \/ active[n] = None /\ active'[n] = x /\ next'[n] = None
      \/ active[n] \in Held /\ active[n] # None /\ active'[n] = active[n] /\ next'[n] = x
  BY <1>1 DEF Admit
<1>4. /\ HostQueue[n] = TwoDeep(active[n], None)
      /\ HeldJobs(n)' = TwoDeep(active'[n], next'[n])
  BY <1>1, QueueIsTwoDeep DEF HostQueue
<1>5. Len(HostQueue[n]) < 2 /\ HeldJobs(n)' = Append(HostQueue[n], j)
  <2>1. CASE active[n] = None
    <3>1. HostQueue[n] = <<>> /\ HeldJobs(n)' = <<j>>
      BY <1>0, <1>3, <1>4, <2>1, QueueShapes
    <3>2. QED
      BY <1>0, <3>1
  <2>2. CASE active[n] # None
    <3>1. HostQueue[n] = <<active[n].job>> /\ HeldJobs(n)' = <<active[n].job, j>>
      BY <1>0, <1>3, <1>4, <2>2, QueueShapes
    <3>2. QED
      BY <1>0, <3>1
  <2>3. QED
    BY <2>1, <2>2
<1>6. \A m \in Nonce : m # n => HeldJobs(m)' = HeldJobs(m)
  BY <1>2, QueueIsTwoDeep
<1>7. HostQueue' = [HostQueue EXCEPT ![n] = Append(@, j)]
  BY <1>5, <1>6 DEF HostQueue
<1>8. NextBehindActive'
  BY <1>0, <1>2, <1>3 DEF NextBehindActive
<1>9. QED
  BY <1>5, <1>7, <1>8 DEF Queue!Enqueue, Queue!Depth, HostQueue

\* A completion answers the job at the front and lets NEXT move up.
LEMMA AnswerStep ==
    ASSUME TypeOK, NextBehindActive, NEW n \in Nonce, active[n] # None, RotateOnCompletion(n),
           NEW a \in {active[n].job, Rejected}, out' = [out EXCEPT ![active[n].job] = a],
           UNCHANGED unseen
    PROVE  Queue!Answer(n) /\ NextBehindActive'
<1>1. /\ active[n] \in Held /\ next[n] \in Held \cup {None}
      /\ active \in [Nonce -> Held \cup {None}] /\ next \in [Nonce -> Held \cup {None}]
  BY DEF TypeOK
<1>2. /\ \A m \in Nonce : m # n => active'[m] = active[m] /\ next'[m] = next[m]
      /\ active'[n] = next[n] /\ next'[n] = None
  BY <1>1 DEF RotateOnCompletion
<1>3. /\ HostQueue[n] = TwoDeep(active[n], next[n])
      /\ HeldJobs(n)' = TwoDeep(next[n], None)
  BY <1>2, QueueIsTwoDeep DEF HostQueue
<1>4. /\ HostQueue[n] # <<>> /\ Head(HostQueue[n]) = active[n].job
      /\ HeldJobs(n)' = Tail(HostQueue[n])
  <2>1. CASE next[n] = None
    <3>1. HostQueue[n] = <<active[n].job>> /\ HeldJobs(n)' = <<>>
      BY <1>1, <1>3, <2>1, QueueShapes
    <3>2. QED
      BY <3>1
  <2>2. CASE next[n] # None
    <3>1. HostQueue[n] = <<active[n].job, next[n].job>> /\ HeldJobs(n)' = <<next[n].job>>
      BY <1>1, <1>3, <2>2, QueueShapes
    <3>2. QED
      BY <3>1
  <2>3. QED
    BY <2>1, <2>2
<1>5. \A m \in Nonce : m # n => HeldJobs(m)' = HeldJobs(m)
  BY <1>2, QueueIsTwoDeep
<1>6. HostQueue' = [HostQueue EXCEPT ![n] = Tail(@)]
  BY <1>4, <1>5 DEF HostQueue
<1>7. NextBehindActive'
  BY <1>2 DEF NextBehindActive
<1>8. QED
  BY <1>4, <1>6, <1>7 DEF Queue!Answer, HostQueue

LEMMA GiveUpStep ==
    ASSUME TypeOK, NextBehindActive, ReleaseHeld, UNCHANGED unseen
    PROVE  Queue!GiveUp /\ NextBehindActive'
<1>1. \A n \in Nonce : active'[n] = None /\ next'[n] = None
  BY DEF ReleaseHeld
<1>2. \A n \in Nonce : HeldJobs(n)' = <<>>
  <2>1. <<>> \o <<>> = <<>>
    OBVIOUS
  <2>2. TwoDeep(None, None) = <<>>
    BY <2>1 DEF TwoDeep
  <2>3. QED
    BY <1>1, <2>2, QueueIsTwoDeep
<1>3. HostQueue' = [n \in Nonce |-> <<>>]
  BY <1>2 DEF HostQueue
<1>4. out' = [j \in Job |-> IF \E n \in Nonce : \E i \in 1..Len(HostQueue[n]) : HostQueue[n][i] = j
                            THEN Rejected ELSE out[j]]
  BY HeldIsQueued DEF ReleaseHeld
<1>5. QED
  BY <1>1, <1>3, <1>4 DEF Queue!GiveUp, Queue!Queued, Queue!Nonce, Nonce, HostQueue, NextBehindActive

\* What leaves the host's table alone leaves the queues alone.
LEMMA QueueStutters ==
    ASSUME NextBehindActive, UNCHANGED <<active, next>>
    PROVE  HostQueue' = HostQueue /\ NextBehindActive'
<1>1. \A n \in Nonce : HeldJobs(n)' = HeldJobs(n)
  BY QueueIsTwoDeep
<1>2. QED
  BY <1>1 DEF HostQueue, NextBehindActive

\* Every step of the session, its stream and its blocks is one of the queues,
\* or invisible there.
LEMMA QueueStep ==
    ASSUME TypeOK, SlotInv, NextBehindActive, [Next]_vars
    PROVE  [Queue!Next]_(Queue!vars) /\ NextBehindActive'
<1> DEFINE Simulated == [Queue!Next]_(Queue!vars) /\ NextBehindActive'
<1>0. /\ \A n \in Nonce, j \in Job : Queue!Enqueue(n, j) => Queue!Next
      /\ \A n \in Nonce : Queue!Answer(n) => Queue!Next
      /\ \A j \in Job : Queue!Refuse(j) => Queue!Next
      /\ Queue!GiveUp => Queue!Next
  BY DEF Queue!Next, Queue!Nonce, Nonce
<1>1. ASSUME NEW j \in Job, ColdUpload(j) PROVE Simulated
  <2>1. at \in Nonce /\ at <= at /\ IsVacant(at)
    BY <1>1 DEF ColdUpload, SlotInv, LiveInv, Live, ColdVacant, Nonce
  <2>2. 0 \in Slot /\ Admit(at, 0, j)
    BY <1>1, <2>1 DEF ColdUpload, IsVacant, Admit, Slot
  <2>3. Queue!Enqueue(at, j) /\ NextBehindActive'
    BY <1>1, <2>1, <2>2, EnqueueStep DEF ColdUpload, IsVacant
  <2>4. QED
    BY <1>0, <2>1, <2>3
<1>2. ASSUME NEW j \in Job, RefillUpload(j) PROVE Simulated
  <2>1. at \in Nonce /\ j \in unseen /\ unseen' = unseen \ {j} /\ UNCHANGED out
    BY <1>2 DEF RefillUpload
  <2>2. PICK s \in Slot : IsOpenSlot(at, s) /\ Admit(at, s, j)
    BY <1>2 DEF RefillUpload
  <2>3. Queue!Enqueue(at, j) /\ NextBehindActive'
    BY <2>1, <2>2, EnqueueStep DEF IsOpenSlot
  <2>4. QED
    BY <1>0, <2>1, <2>3
<1>3. ASSUME NEW j \in Job, ColdUploadFails(j) \/ RefillUploadFails(j) PROVE Simulated
  <2>1. /\ j \in unseen /\ unseen' = unseen \ {j} /\ out' = [out EXCEPT ![j] = Rejected]
        /\ UNCHANGED <<active, next>>
    BY <1>3 DEF ColdUploadFails, RefillUploadFails
  <2>2. HostQueue' = HostQueue /\ NextBehindActive'
    BY <2>1, QueueStutters
  <2>3. Queue!Refuse(j)
    BY <2>1, <2>2 DEF Queue!Refuse, HostQueue
  <2>4. QED
    BY <1>0, <2>2, <2>3
<1>4. CASE ScanDeliver
  <2>1. at \in Nonce /\ active[at] # None /\ samp[at][active[at].slot] = active[at].job
    BY <1>4, CompleteIsOwn DEF ScanDeliver, SeenComplete
  <2>2. Queue!Answer(at) /\ NextBehindActive'
    BY <1>4, <2>1, AnswerStep DEF ScanDeliver
  <2>3. QED
    BY <1>0, <2>1, <2>2
<1>5. CASE ScanDownloadFails
  <2>1. at \in Nonce /\ active[at] # None
    BY <1>5 DEF ScanDownloadFails, SeenComplete
  <2>2. Queue!Answer(at) /\ NextBehindActive'
    BY <1>5, <2>1, AnswerStep DEF ScanDownloadFails
  <2>3. QED
    BY <1>0, <2>1, <2>2
<1>6. CASE LaunchFails \/ Stall \/ PollCtrlFails \/ AbortDone \/ AbortFails
  <2>1. ReleaseHeld /\ UNCHANGED unseen
    BY <1>6 DEF LaunchFails, Stall, PollCtrlFails, AbortDone, AbortFails
  <2>2. QED
    BY <1>0, <2>1, GiveUpStep
<1>7. CASE UNCHANGED <<active, next, unseen, out>>
  <2>1. HostQueue' = HostQueue /\ NextBehindActive'
    BY <1>7, QueueStutters
  <2>2. QED
    BY <1>7, <2>1 DEF Queue!vars, HostQueue
<1>8. CASE Step
  BY <1>1, <1>2, <1>4, <1>6, <1>7, <1>8
     DEF Step, Launch, BeginPass, BeginAbort, RefillNext, RefillEnds, EndSession, PollCtrl,
         ScanIdle, SignalExit, AbortSignalled, DropSignalled, DrainTransfer, Free
<1>9. CASE Failure
  BY <1>3, <1>5, <1>6, <1>7, <1>9 DEF Failure, DropSignalFails, Escalate
<1>10. CASE Xfer \/ (\E n \in Nonce : Block(n)) \/ Over \/ UNCHANGED vars
  <2>1. UNCHANGED <<active, next, unseen, out>>
    BY <1>10 DEF Xfer, Block, Claim, ProbeMiss, PassEnd, Finish, AbortModel, Publish, AfterPublish,
                Over, vars, hostVars
  <2>2. QED
    BY <1>7, <2>1
<1>11. QED
  BY <1>8, <1>9, <1>10 DEF Next

\* Seen from the driver a session is SlotQueue: per nonce a queue of two jobs,
\* answered in order, each with its own samples or a rejection, whatever the
\* transfer stream and the blocks do meanwhile and whichever CUDA calls fail.
THEOREM ImplementsQueue == Spec => ImplementsSlotQueue
<1>1. Init => Queue!Init /\ NextBehindActive
  <2> SUFFICES ASSUME Init PROVE Queue!Init /\ NextBehindActive
    OBVIOUS
  <2>1. \A n \in Nonce : active[n] = None /\ next[n] = None
    BY DEF Init
  <2>2. <<>> \o <<>> = <<>>
    OBVIOUS
  <2>3. \A n \in Nonce : HeldJobs(n) = <<>>
    BY <2>1, <2>2 DEF HeldJobs
  <2>4. QED
    BY <2>1, <2>3 DEF Init, Queue!Init, Queue!Nonce, Nonce, NextBehindActive
<1>2. TypeOK /\ SlotInv /\ NextBehindActive /\ [Next]_vars
      => [Queue!Next]_(Queue!vars) /\ NextBehindActive'
  BY QueueStep
<1>3. QED
  BY <1>1, <1>2, TypeCorrect, SlotsSafe, PTL DEF Spec, ImplementsSlotQueue, Queue!Spec
=============================================================================
