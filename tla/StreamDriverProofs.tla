-------------------------- MODULE StreamDriverProofs --------------------------
(***************************************************************************)
(* Proofs about StreamDriver, for every width, every set of jobs with any  *)
(* keys and generations, and any number of failing device calls.           *)
(***************************************************************************)
EXTENDS StreamDriver, SequenceTheorems, FiniteSetTheorems, TLAPS

-----------------------------------------------------------------------------
(***************************************************************************)
(* The inductive invariant                                                 *)
(***************************************************************************)
Pumping == {"top", "abort", "refill", "watch", "scan"}
Session == Pumping \cup {"upload", "yield", "next"}

\* What each stage of the driver has in its hands.
Shape ==
    /\ seed # None <=> pc \in {"seed", "build"}
    /\ pc \notin Session => carry = None
    /\ pc \in Session => (halt = "mismatch" <=> carry # None)
    /\ pc = "cold" => halt = "idle" /\ at = 1
    /\ pc \in Session \cup {"cold"} => cold # <<>>
    /\ pc = "upload" => /\ at <= Len(cold) + 1
                        /\ \A n \in Nonce : n >= at => held[n] = <<>>
    /\ pc \in {"refill", "scan"} => at <= Len(cold)
    /\ pc \in Pumping /\ halt # "idle" => exhausted
    /\ pc = "refill" => ~exhausted
    /\ pc \notin Pumping \cup {"upload"} => AllVacant

\* The batch, like the slots, fits the session it was drawn for.
Fitting ==
    /\ pc = "build" => lead = seed
    /\ pc \in Session \cup {"build", "cold"} => lead \in Job /\ Key[lead] \notin {Refused, EmptyGraph}
    /\ pc \in {"cold", "upload"} => \A i \in 1..Len(cold) : Key[cold[i]] = Key[lead]
    /\ HeldJobsFit

\* No job twice in the channel, in the batch, in one queue or in two.
Distinct(q) == \A i, k \in 1..Len(q) : q[i] = q[k] => i = k

HeldDistinct ==
    /\ \A n \in Nonce : Distinct(held[n])
    /\ \A n, m \in Nonce : n # m => Jobs(held[n]) \cap Jobs(held[m]) = {}

NoDoubles ==
    /\ Distinct(chan)
    /\ pc \in {"cold", "upload"} => Distinct(cold)
    /\ HeldDistinct

ExactlyOne(a, b, c, d, e, f, g) ==
    /\ a \/ b \/ c \/ d \/ e \/ f \/ g
    /\ a => ~b /\ ~c /\ ~d /\ ~e /\ ~f /\ ~g
    /\ b => ~c /\ ~d /\ ~e /\ ~f /\ ~g
    /\ c => ~d /\ ~e /\ ~f /\ ~g
    /\ d => ~e /\ ~f /\ ~g
    /\ e => ~f /\ ~g
    /\ f => ~g

Placed(j) == ExactlyOne(j \in unsent, j \in Jobs(chan), j = seed, j = carry,
                        j \in Waiting, j \in HeldJobs, out[j] # None)

AllPlaced == \A j \in Job : Placed(j)

\* Why the stream is, or will be, over.
Ending ==
    /\ pc \in Session /\ halt = "closed" => ~outOpen \/ NoMoreJobs
    /\ pc = "done" => ~outOpen \/ NoMoreJobs
    /\ \A j \in Job : out[j] = "lost" => ~outOpen

DriverInv == TypeOK /\ Shape /\ Fitting /\ NoDoubles /\ AllPlaced /\ Ending

-----------------------------------------------------------------------------
(***************************************************************************)
(* Queues of jobs                                                          *)
(***************************************************************************)
LEMMA JobsOf ==
    ASSUME NEW q \in Seq(Job)
    PROVE  /\ Jobs(q) \subseteq Job
           /\ \A j : j \in Jobs(q) <=> \E i \in 1..Len(q) : q[i] = j
           /\ \A i \in 1..Len(q) : q[i] \in Jobs(q)
BY DEF Jobs

LEMMA EmptyQueue == Jobs(<<>>) = {} /\ Distinct(<<>>) /\ <<>> \in Seq(Job) /\ Len(<<>>) = 0
<1>1. <<>> \in Seq(Job) /\ Len(<<>>) = 0 /\ 1..0 = {}
  OBVIOUS
<1>2. \A j : j \notin Jobs(<<>>)
  BY <1>1, JobsOf
<1>3. QED
  BY <1>1, <1>2 DEF Distinct

LEMMA SingleQueue ==
    ASSUME NEW j \in Job
    PROVE  Jobs(<<j>>) = {j} /\ Distinct(<<j>>) /\ <<j>> \in Seq(Job) /\ Len(<<j>>) = 1 /\ <<j>>[1] = j
BY DEF Jobs, Distinct

\* A job goes to the back of a queue.
LEMMA Pushed ==
    ASSUME NEW q \in Seq(Job), NEW j \in Job
    PROVE  /\ Append(q, j) \in Seq(Job) /\ Len(Append(q, j)) = Len(q) + 1
           /\ \A i \in 1..Len(q) : Append(q, j)[i] = q[i]
           /\ Append(q, j)[Len(q) + 1] = j
           /\ \A k : k \in Jobs(Append(q, j)) <=> k \in Jobs(q) \/ k = j
           /\ Distinct(q) /\ j \notin Jobs(q) => Distinct(Append(q, j))
<1> DEFINE r == Append(q, j)
<1>1. /\ r \in Seq(Job) /\ Len(r) = Len(q) + 1 /\ r[Len(q) + 1] = j
      /\ \A i \in 1..Len(q) : r[i] = q[i]
  BY AppendProperties
<1>2. Len(q) \in Nat
  OBVIOUS
<1>3. \A k : k \in Jobs(r) <=> k \in Jobs(q) \/ k = j
  <2> HIDE DEF r
  <2>0. r \in Seq(Job) /\ Len(r) = Len(q) + 1
    BY <1>1
  <2>1. \A k : k \in Jobs(r) <=> \E i \in 1..Len(r) : r[i] = k
    BY <2>0, JobsOf
  <2>2. \A k : k \in Jobs(q) <=> \E i \in 1..Len(q) : q[i] = k
    BY JobsOf
  <2>3. QED
    BY <1>1, <1>2, <2>0, <2>1, <2>2
<1>4. ASSUME Distinct(q), j \notin Jobs(q) PROVE Distinct(r)
  <2>1. \A i \in 1..Len(q) : q[i] # j
    BY <1>4, JobsOf
  <2> HIDE DEF r
  <2>2. QED
    BY <1>1, <1>2, <1>4, <2>1 DEF Distinct
<1>5. QED
  BY <1>1, <1>3, <1>4

\* ... and leaves at the front.
LEMMA Popped ==
    ASSUME NEW q \in Seq(Job), q # <<>>, Distinct(q)
    PROVE  /\ Head(q) \in Job /\ Head(q) \in Jobs(q) /\ Tail(q) \in Seq(Job)
           /\ Len(q) > 0 /\ Len(Tail(q)) = Len(q) - 1
           /\ \A k : k \in Jobs(Tail(q)) <=> k \in Jobs(q) /\ k # Head(q)
           /\ Distinct(Tail(q))
           /\ \A i \in 1..Len(Tail(q)) : \E m \in 1..Len(q) : Tail(q)[i] = q[m]
<1> DEFINE r == Tail(q)
<1>1. /\ r \in Seq(Job) /\ Len(r) = Len(q) - 1 /\ Head(q) = q[1] /\ Head(q) \in Job
      /\ \A i \in 1..Len(r) : r[i] = q[i + 1]
  BY HeadTailProperties
<1>2. Len(q) \in Nat /\ Len(q) > 0
  BY EmptySeq
<1>3. \A k : k \in Jobs(r) <=> \E i \in 1..Len(r) : r[i] = k
  BY <1>1, JobsOf
<1>4. \A k : k \in Jobs(q) <=> \E i \in 1..Len(q) : q[i] = k
  BY JobsOf
<1> HIDE DEF r
<1>5. \A k : k \in Jobs(r) => k \in Jobs(q) /\ k # Head(q)
  <2> SUFFICES ASSUME NEW k \in Jobs(r) PROVE k \in Jobs(q) /\ k # Head(q)
    OBVIOUS
  <2>1. PICK i \in 1..Len(r) : r[i] = k
    BY <1>3
  <2>2. i + 1 \in 1..Len(q) /\ q[i + 1] = k /\ i + 1 # 1 /\ 1 \in 1..Len(q)
    BY <1>1, <1>2, <2>1
  <2>3. QED
    BY <1>1, <1>4, <2>2 DEF Distinct
<1>6. \A k : k \in Jobs(q) /\ k # Head(q) => k \in Jobs(r)
  <2> SUFFICES ASSUME NEW k \in Jobs(q), k # Head(q) PROVE k \in Jobs(r)
    OBVIOUS
  <2>1. PICK i \in 1..Len(q) : q[i] = k
    BY <1>4
  <2>2. i # 1 /\ i - 1 \in 1..Len(r) /\ (i - 1) + 1 = i
    BY <1>1, <1>2, <2>1
  <2>3. r[i - 1] = q[(i - 1) + 1]
    BY <1>1, <2>2
  <2>4. r[i - 1] = k
    BY <2>1, <2>2, <2>3
  <2>5. QED
    BY <1>3, <2>2, <2>4
<1>7. Distinct(r)
  BY <1>1, <1>2 DEF Distinct
<1>8. \A i \in 1..Len(r) : i + 1 \in 1..Len(q) /\ r[i] = q[i + 1]
  BY <1>1, <1>2
<1>9. Head(q) \in Jobs(q)
  BY <1>1, <1>2, <1>4
<1>10. QED
  BY <1>1, <1>2, <1>5, <1>6, <1>7, <1>8, <1>9 DEF r

-----------------------------------------------------------------------------
(***************************************************************************)
(* Type correctness                                                        *)
(***************************************************************************)
LEMMA FrontOfChannel ==
    ASSUME TypeOK, Arrived
    PROVE  Head(chan) \in Job /\ Tail(chan) \in Seq(Job)
BY HeadTailProperties DEF TypeOK, Arrived

LEMMA AnswerTypes ==
    ASSUME TypeOK, NEW j \in Job, NEW r \in Result, Answer(j, r)
    PROVE  (out \in [Job -> Result \cup {None}])'
BY DEF TypeOK, Answer, Result

LEMMA HeldAnswerTypes ==
    ASSUME TypeOK, RejectHeld \/ CancelHeld
    PROVE  /\ (out \in [Job -> Result \cup {None}])'
           /\ (held \in [Nonce -> Seq(Job)] /\ \A n \in Nonce : Len(held[n]) <= Depth)'
<1>1. PICK r \in [Job -> Result] : AnswerHeld(r)
  BY DEF RejectHeld, CancelHeld, AsAbandoned, Result
<1>2. (out \in [Job -> Result \cup {None}])'
  BY <1>1 DEF TypeOK, AnswerHeld, Result
<1>3. (held \in [Nonce -> Seq(Job)])' /\ \A n \in Nonce : Len(held'[n]) <= Depth
  BY <1>1, EmptyQueue DEF AnswerHeld, Depth
<1>4. QED
  BY <1>2, <1>3

LEMMA FaultTypes == ASSUME TypeOK, Fault PROVE (faults \in 0..MaxFaults)'
BY Assumption DEF TypeOK, Fault

\* A batch that is not empty has a first nonce, and no more nonces than exist.
LEMMA BatchBounds ==
    ASSUME TypeOK
    PROVE  /\ Len(cold) \in Nat /\ Width \in Nat /\ Width >= 1 /\ 1 \in 1..(Width + 1)
           /\ cold # <<>> => Len(cold) >= 1
           /\ \A i \in 1..Len(cold) : i \in Nonce /\ cold[i] \in Job /\ i + 1 \in 1..(Width + 1)
<1>1. cold \in Seq(Job) /\ Len(cold) \in Nat /\ Len(cold) <= Width /\ Width \in Nat /\ Width >= 1
  BY Assumption DEF TypeOK
<1>2. cold # <<>> => Len(cold) # 0
  BY <1>1, EmptySeq
<1>3. QED
  BY <1>1, <1>2 DEF Nonce

LEMMA ScanTypes ==
    ASSUME TypeOK, Shape, pc = "scan", ScanNext
    PROVE  (pc \in Pc /\ at \in 1..(Width + 1))' /\ at \in Nonce
BY BatchBounds DEF TypeOK, Shape, ScanNext, Pc

LEMMA InitTypes == Init => TypeOK
<1> SUFFICES ASSUME Init PROVE TypeOK
  OBVIOUS
<1>1. \A n \in Nonce : held[n] = <<>>
  BY DEF Init
<1>2. held \in [Nonce -> Seq(Job)] /\ \A n \in Nonce : Len(held[n]) <= Depth
  BY <1>1, EmptyQueue DEF Init, Depth
<1>3. at \in 1..(Width + 1) /\ faults \in 0..MaxFaults /\ Len(cold) <= Width
  BY Assumption, EmptyQueue DEF Init
<1>4. out \in [Job -> Result \cup {None}]
  BY DEF Init
<1>5. chan \in Seq(Job) /\ cold \in Seq(Job)
  BY EmptyQueue DEF Init
<1>6. QED
  BY <1>2, <1>3, <1>4, <1>5 DEF Init, TypeOK, Pc

\* The stages up to the launch.
LEMMA SeedTypes ==
    ASSUME TypeOK, Shape,
           Recv \/ RecvEnds \/ SeedRefused \/ SeedAnswered \/ SeedAccepted \/ Build \/ BuildFails
    PROVE  TypeOK'
<1> USE DEF TypeOK, coordVars, envVars, sessionVars, Pc
<1>1. CASE Recv
  BY <1>1, FrontOfChannel DEF Recv, PullHead
<1>2. CASE RecvEnds
  BY <1>2 DEF RecvEnds
<1>3. CASE SeedRefused
  <2>1. seed \in Job /\ "rejected" \in Result
    BY <1>3 DEF SeedRefused, Shape, Result
  <2>2. (out \in [Job -> Result \cup {None}])'
    BY <1>3, <2>1, AnswerTypes DEF SeedRefused
  <2>3. QED
    BY <1>3, <2>2 DEF SeedRefused
<1>4. CASE SeedAnswered
  <2>1. seed \in Job /\ "trivial" \in Result /\ "cancelled" \in Result
    BY <1>4 DEF SeedAnswered, Shape, Result
  <2>2. (out \in [Job -> Result \cup {None}])'
    BY <1>4, <2>1, AnswerTypes DEF SeedAnswered
  <2>3. QED
    BY <1>4, <2>2 DEF SeedAnswered
<1>5. CASE SeedAccepted
  BY <1>5 DEF SeedAccepted
<1>6. CASE Build
  <2>1. seed \in Job
    BY <1>6 DEF Build, Shape
  <2>2. <<seed>> \in Seq(Job) /\ Len(<<seed>>) <= Width
    BY <2>1, SingleQueue, BatchBounds
  <2>3. QED
    BY <1>6, <2>2, BatchBounds DEF Build
<1>7. CASE BuildFails
  <2>1. seed \in Job /\ "rejected" \in Result
    BY <1>7 DEF BuildFails, Shape, Result
  <2>2. (out \in [Job -> Result \cup {None}])'
    BY <1>7, <2>1, AnswerTypes DEF BuildFails
  <2>3. QED
    BY <1>7, <2>2, FaultTypes DEF BuildFails
<1>8. QED
  BY <1>1, <1>2, <1>3, <1>4, <1>5, <1>6, <1>7

LEMMA ColdTypes ==
    ASSUME TypeOK, Shape,
           ColdPull \/ ColdEnds \/ Upload \/ UploadFails \/ Launch \/ LaunchFails
    PROVE  TypeOK'
<1> USE DEF TypeOK, coordVars, envVars, sessionVars, Pc
<1>1. CASE ColdPull
  <2> DEFINE j == Head(chan)
  <2>1. j \in Job /\ Tail(chan) \in Seq(Job) /\ "rejected" \in Result /\ "cancelled" \in Result
    BY <1>1, FrontOfChannel DEF ColdPull, Result
  <2> HIDE DEF j
  <2>2. (out \in [Job -> Result \cup {None}])'
    BY <1>1, <2>1, AnswerTypes DEF ColdPull, j
  <2>3. Append(cold, j) \in Seq(Job) /\ Len(Append(cold, j)) = Len(cold) + 1 /\ Len(cold) < Width
    BY <1>1, <2>1, Pushed DEF ColdPull
  <2>4. cold' = cold \/ cold' = Append(cold, j)
    BY <1>1 DEF ColdPull, j
  <2>6. (cold \in Seq(Job) /\ Len(cold) <= Width)'
    <3>1. Len(cold) + 1 <= Width
      BY <2>3, BatchBounds
    <3>2. CASE cold' = cold
      BY <3>2
    <3>3. CASE cold' = Append(cold, j)
      BY <2>3, <3>1, <3>3
    <3>4. QED
      BY <2>4, <3>2, <3>3
  <2>5. QED
    BY <1>1, <2>1, <2>2, <2>6 DEF ColdPull, PullHead, j
<1>2. CASE ColdEnds
  BY <1>2 DEF ColdEnds
<1>3. CASE Upload
  <2>1. at \in 1..Len(cold) /\ at \in Nonce /\ cold[at] \in Job /\ at + 1 \in 1..(Width + 1)
    BY <1>3, BatchBounds DEF Upload
  <2>2. <<cold[at]>> \in Seq(Job) /\ Len(<<cold[at]>>) <= Depth
    BY <2>1, SingleQueue DEF Depth
  <2>3. (held \in [Nonce -> Seq(Job)])' /\ \A n \in Nonce : Len(held'[n]) <= Depth
    BY <1>3, <2>1, <2>2 DEF Upload
  <2>4. QED
    BY <1>3, <2>1, <2>3 DEF Upload
<1>4. CASE UploadFails
  <2>1. cold[at] \in Job /\ at + 1 \in 1..(Width + 1) /\ "rejected" \in Result
    BY <1>4, BatchBounds DEF UploadFails, Result
  <2>2. (out \in [Job -> Result \cup {None}])'
    BY <1>4, <2>1, AnswerTypes DEF UploadFails
  <2>3. QED
    BY <1>4, <2>1, <2>2, FaultTypes DEF UploadFails
<1>5. CASE Launch
  BY <1>5 DEF Launch
<1>6. CASE LaunchFails
  BY <1>6, HeldAnswerTypes, FaultTypes DEF LaunchFails
<1>7. QED
  BY <1>1, <1>2, <1>3, <1>4, <1>5, <1>6

\* pump_session: the answers, the refill and the scan.
LEMMA PumpTypes ==
    ASSUME TypeOK, Shape,
           Top \/ AbortDone \/ AbortFails \/ SessionEnds \/ Stall \/ Poll \/ Yield \/ NextSeed
    PROVE  TypeOK'
<1> USE DEF TypeOK, coordVars, envVars, sessionVars, Pc
<1>1. CASE Top
  BY <1>1, BatchBounds DEF Top
<1>2. CASE AbortDone
  BY <1>2, HeldAnswerTypes DEF AbortDone
<1>3. CASE AbortFails
  BY <1>3, HeldAnswerTypes, FaultTypes DEF AbortFails
<1>4. CASE SessionEnds
  BY <1>4 DEF SessionEnds
<1>5. CASE Stall
  BY <1>5, HeldAnswerTypes, FaultTypes DEF Stall
<1>6. CASE Poll
  BY <1>6, BatchBounds DEF Poll
<1>7. CASE Yield
  BY <1>7 DEF Yield
<1>8. CASE NextSeed
  <2>1. (cold \in Seq(Job) /\ Len(cold) <= Width)'
    BY <1>8, EmptyQueue, BatchBounds DEF NextSeed
  <2>2. QED
    BY <1>8, <2>1 DEF NextSeed
<1>9. QED
  BY <1>1, <1>2, <1>3, <1>4, <1>5, <1>6, <1>7, <1>8

LEMMA RefillTypes ==
    ASSUME TypeOK, Shape, RefillPull \/ RefillMoves
    PROVE  TypeOK'
<1> USE DEF TypeOK, coordVars, envVars, Pc
<1>1. CASE RefillPull
  <2> DEFINE j == Head(chan)
  <2>1. j \in Job /\ Tail(chan) \in Seq(Job) /\ "rejected" \in Result /\ "cancelled" \in Result
    BY <1>1, FrontOfChannel DEF RefillPull, Result
  <2>2. at \in Nonce /\ Len(held[at]) < Depth
    BY <1>1, BatchBounds DEF RefillPull, HasRoom, Launched
  <2>3. /\ UNCHANGED <<unsent, closed, envVars, at, seed, lead, cold, complete, snap>>
        /\ chan' = Tail(chan)
        /\ RefillStale(j) \/ RefillRefused(j) \/ RefillAdmit(j) \/ RefillUploadFails(j) \/ RefillMismatch(j)
    BY <1>1 DEF RefillPull, PullHead
  <2> HIDE DEF j
  <2>4. CASE RefillStale(j) \/ RefillRefused(j) \/ RefillUploadFails(j)
    <3>1. (out \in [Job -> Result \cup {None}])' /\ held' = held
      BY <2>1, <2>4, AnswerTypes DEF RefillStale, RefillRefused, RefillUploadFails
    <3>2. (faults \in 0..MaxFaults)'
      BY <2>4, FaultTypes DEF RefillStale, RefillRefused, RefillUploadFails
    <3>3. carry' = carry /\ halt' \in {"idle", "closed", "mismatch"} /\ exhausted' \in BOOLEAN /\ pc' \in Pc
      BY <2>4 DEF RefillStale, RefillRefused, RefillUploadFails
    <3>4. QED
      BY <2>1, <2>3, <3>1, <3>2, <3>3
  <2>5. CASE RefillAdmit(j)
    <3>1. Append(held[at], j) \in Seq(Job) /\ Len(Append(held[at], j)) = Len(held[at]) + 1
      BY <2>1, <2>2, Pushed
    <3>2. Len(Append(held[at], j)) <= Depth
      BY <2>2, <3>1 DEF Depth
    <3>3. held' = [held EXCEPT ![at] = Append(held[at], j)]
      BY <2>5 DEF RefillAdmit
    <3>4. held' \in [Nonce -> Seq(Job)] /\ \A n \in Nonce : Len(held'[n]) <= Depth
      BY <2>2, <3>1, <3>2, <3>3
    <3>5. QED
      BY <2>1, <2>3, <2>5, <3>4 DEF RefillAdmit
  <2>6. CASE RefillMismatch(j)
    BY <2>1, <2>3, <2>6 DEF RefillMismatch
  <2>7. QED
    BY <2>3, <2>4, <2>5, <2>6
<1>2. CASE RefillMoves
  <2>1. at + 1 \in 1..(Width + 1)
    BY <1>2, BatchBounds DEF RefillMoves, Shape
  <2>2. QED
    BY <1>2, <2>1 DEF RefillMoves, sessionVars
<1>3. QED
  BY <1>1, <1>2

LEMMA ScanStepTypes ==
    ASSUME TypeOK, Shape, ScanIdle \/ ScanEmit
    PROVE  TypeOK'
<1> USE DEF coordVars, envVars, sessionVars
<1>1. CASE ScanIdle
  BY <1>1, ScanTypes DEF TypeOK, ScanIdle
<1>2. CASE ScanEmit
  <2> DEFINE q == held[at]
  <2>1. at \in Nonce /\ (pc \in Pc /\ at \in 1..(Width + 1))'
    BY <1>2, ScanTypes DEF ScanEmit
  <2>2. q \in Seq(Job) /\ q # <<>> /\ Len(q) <= Depth
    BY <1>2, <2>1 DEF TypeOK, ScanEmit, SeenComplete
  <2>3. Head(q) \in Job /\ Tail(q) \in Seq(Job) /\ Len(Tail(q)) = Len(q) - 1
    BY <2>2, HeadTailProperties
  <2>4. Len(Tail(q)) <= Depth
    BY <2>2, <2>3 DEF Depth
  <2>5. held' = [held EXCEPT ![at] = Tail(q)]
    BY <1>2 DEF ScanEmit
  <2> HIDE DEF q
  <2>6. held' \in [Nonce -> Seq(Job)] /\ \A n \in Nonce : Len(held'[n]) <= Depth
    BY <2>1, <2>3, <2>4, <2>5 DEF TypeOK
  <2>7. (out \in [Job -> Result \cup {None}])'
    <3>1. "sampled" \in Result /\ "rejected" \in Result
      BY DEF Result
    <3>2. QED
      BY <1>2, <2>3, <3>1, AnswerTypes DEF ScanEmit, q
  <2>8. (faults \in 0..MaxFaults /\ exhausted \in BOOLEAN)'
    BY <1>2, FaultTypes DEF TypeOK, ScanEmit
  <2>9. QED
    BY <1>2, <2>1, <2>6, <2>7, <2>8 DEF TypeOK, ScanEmit
<1>3. QED
  BY <1>1, <1>2

\* The coordinator, the consumer, the governor and the device.
LEMMA EnvironmentTypes == ASSUME TypeOK, Environment PROVE TypeOK'
<1> USE DEF TypeOK, coordVars, envVars, sessionVars
<1>1. ASSUME NEW j \in Job, Send(j) PROVE TypeOK'
  BY <1>1, Pushed DEF Send
<1>2. ASSUME NEW j \in Job, Complete(j) PROVE TypeOK'
  BY <1>2 DEF Complete
<1>3. CASE Close
  BY <1>3 DEF Close
<1>4. CASE Cancel
  BY <1>4 DEF Cancel
<1>5. CASE DropOutput
  BY <1>5 DEF DropOutput
<1>6. CASE ContentionBegins \/ ContentionEnds
  BY <1>6 DEF ContentionBegins, ContentionEnds
<1>7. QED
  BY <1>1, <1>2, <1>3, <1>4, <1>5, <1>6 DEF Environment

LEMMA TypeStep == ASSUME TypeOK, Shape, [Next]_vars PROVE TypeOK'
<1>1. CASE Driver
  BY <1>1, SeedTypes, ColdTypes, PumpTypes, RefillTypes, ScanStepTypes DEF Driver
<1>2. CASE Failure
  BY <1>2, SeedTypes, ColdTypes, PumpTypes DEF Failure
<1>3. CASE Environment
  BY <1>3, EnvironmentTypes
<1>4. CASE UNCHANGED vars
  BY <1>4 DEF vars, coordVars, envVars, sessionVars, TypeOK
<1>5. QED
  BY <1>1, <1>2, <1>3, <1>4 DEF Next

-----------------------------------------------------------------------------
(***************************************************************************)
(* What the driver has in its hands                                        *)
(***************************************************************************)
LEMMA BatchOfOne ==
    ASSUME NEW j \in Job
    PROVE  <<j>> # <<>> /\ Len(<<j>>) = 1
OBVIOUS

LEMMA GivenUp == ASSUME RejectHeld \/ CancelHeld PROVE AllVacant'
BY DEF RejectHeld, CancelHeld, AnswerHeld, AllVacant

LEMMA InitShape == Init => Shape
BY DEF Init, Shape, Session, Pumping, AllVacant

LEMMA SeedShape ==
    ASSUME TypeOK, Shape,
           Recv \/ RecvEnds \/ SeedRefused \/ SeedAnswered \/ SeedAccepted \/ Build \/ BuildFails
    PROVE  Shape'
<1> USE Assumption DEF Shape, Session, Pumping, AllVacant, coordVars, envVars, sessionVars
<1>1. CASE Recv
  <2>1. Head(chan) \in Job
    BY <1>1, FrontOfChannel DEF Recv
  <2>2. QED
    BY <1>1, <2>1 DEF Recv
<1>2. CASE RecvEnds
  BY <1>2 DEF RecvEnds
<1>3. CASE SeedRefused
  BY <1>3 DEF SeedRefused
<1>4. CASE SeedAnswered
  BY <1>4 DEF SeedAnswered
<1>5. CASE SeedAccepted
  BY <1>5 DEF SeedAccepted
<1>6. CASE Build
  <2>1. <<seed>> # <<>>
    BY <1>6, BatchOfOne DEF Build, TypeOK
  <2>2. QED
    BY <1>6, <2>1 DEF Build
<1>7. CASE BuildFails
  BY <1>7 DEF BuildFails
<1>8. QED
  BY <1>1, <1>2, <1>3, <1>4, <1>5, <1>6, <1>7

LEMMA ColdShape ==
    ASSUME TypeOK, Shape,
           ColdPull \/ ColdEnds \/ Upload \/ UploadFails \/ Launch \/ LaunchFails
    PROVE  Shape'
<1> USE Assumption DEF Shape, Session, Pumping, coordVars, envVars, sessionVars
<1>1. CASE ColdPull
  <2> DEFINE j == Head(chan)
  <2>1. j \in Job /\ j # None
    BY <1>1, FrontOfChannel DEF ColdPull
  <2>3. \/ cold' = cold /\ halt' = halt /\ carry' = carry /\ pc' = pc
        \/ cold' = Append(cold, j) /\ halt' = halt /\ carry' = carry /\ pc' = pc
        \/ carry' = j /\ halt' = "mismatch" /\ pc' = "upload" /\ cold' = cold
    BY <1>1 DEF ColdPull
  <2>4. pc = "cold" /\ UNCHANGED <<at, seed, held, exhausted>>
    BY <1>1 DEF ColdPull
  <2> HIDE DEF j
  <2>2. Append(cold, j) # <<>>
    <3>1. cold \in Seq(Job)
      BY DEF TypeOK
    <3>2. QED
      BY <2>1, <3>1, AppendProperties
  <2>5. QED
    BY <2>1, <2>2, <2>3, <2>4 DEF AllVacant
<1>2. CASE ColdEnds
  BY <1>2, BatchBounds DEF ColdEnds, AllVacant
<1>3. CASE Upload \/ UploadFails
  <2>1. /\ pc = "upload" /\ at <= Len(cold) /\ at' = at + 1 /\ at \in Int /\ Len(cold) \in Int
        /\ UNCHANGED <<pc, seed, cold, halt, carry, exhausted>>
    BY <1>3, BatchBounds DEF Upload, UploadFails, TypeOK
  <2>2. at' <= Len(cold') + 1
    BY <2>1
  <2>3. \A n \in Nonce : n # at => held'[n] = held[n]
    BY <1>3 DEF Upload, UploadFails, TypeOK
  <2>4. \A n \in Nonce : n >= at' => n >= at /\ n # at
    BY <2>1 DEF Nonce
  <2>5. \A n \in Nonce : n >= at' => held'[n] = <<>>
    BY <2>1, <2>3, <2>4
  <2>6. QED
    BY <2>1, <2>2, <2>5
<1>5. CASE Launch
  BY <1>5 DEF Launch
<1>6. CASE LaunchFails
  BY <1>6, GivenUp DEF LaunchFails
<1>7. QED
  BY <1>1, <1>2, <1>3, <1>5, <1>6

LEMMA PumpShape ==
    ASSUME TypeOK, Shape,
           Top \/ AbortDone \/ AbortFails \/ SessionEnds \/ Stall \/ Poll \/ Yield \/ NextSeed
    PROVE  Shape'
<1> USE Assumption DEF Shape, Session, Pumping, coordVars, envVars, sessionVars
<1>1. CASE Top
  BY <1>1, BatchBounds DEF Top
<1>2. CASE AbortDone
  BY <1>2, GivenUp DEF AbortDone
<1>3. CASE AbortFails
  BY <1>3, GivenUp DEF AbortFails
<1>4. CASE SessionEnds
  BY <1>4 DEF SessionEnds, AllVacant
<1>5. CASE Stall
  BY <1>5, GivenUp DEF Stall
<1>6. CASE Poll
  BY <1>6, BatchBounds DEF Poll
<1>7. CASE Yield
  BY <1>7 DEF Yield, AllVacant
<1>8. CASE NextSeed
  BY <1>8 DEF NextSeed, AllVacant
<1>9. QED
  BY <1>1, <1>2, <1>3, <1>4, <1>5, <1>6, <1>7, <1>8

LEMMA RefillShape ==
    ASSUME TypeOK, Shape, RefillPull \/ RefillMoves \/ ScanIdle \/ ScanEmit
    PROVE  Shape'
<1> USE Assumption DEF Shape, Session, Pumping, coordVars, envVars, sessionVars
<1>1. CASE RefillPull
  <2> DEFINE j == Head(chan)
  <2>1. j \in Job /\ j # None
    BY <1>1, FrontOfChannel DEF RefillPull
  <2>2. /\ pc = "refill" /\ UNCHANGED <<at, seed, cold>>
        /\ RefillStale(j) \/ RefillRefused(j) \/ RefillAdmit(j) \/ RefillUploadFails(j) \/ RefillMismatch(j)
    BY <1>1 DEF RefillPull
  <2> HIDE DEF j
  <2>3. QED
    BY <2>1, <2>2 DEF RefillStale, RefillRefused, RefillAdmit, RefillUploadFails, RefillMismatch
<1>2. CASE RefillMoves
  <2>1. at \in Int /\ Len(cold) \in Int
    BY BatchBounds DEF TypeOK
  <2>2. pc = "refill" /\ UNCHANGED <<seed, carry, cold>>
    BY <1>2 DEF RefillMoves
  <2>3. \/ halt' = "closed" /\ exhausted' = TRUE /\ pc' = "watch" /\ halt = "idle"
        \/ /\ at' = at + 1 /\ UNCHANGED <<halt, exhausted>>
           /\ pc' = IF at = Len(cold) THEN "watch" ELSE "refill"
    BY <1>2 DEF RefillMoves
  <2>4. QED
    BY <2>1, <2>2, <2>3
<1>3. CASE ScanIdle
  BY <1>3, BatchBounds DEF ScanIdle, ScanNext, TypeOK
<1>4. CASE ScanEmit
  <2>1. at \in Int /\ Len(cold) \in Int /\ pc = "scan" /\ at <= Len(cold)
    BY <1>4, BatchBounds DEF ScanEmit, TypeOK
  <2>2. exhausted => exhausted'
    BY <1>4 DEF ScanEmit
  <2>3. /\ UNCHANGED <<seed, lead, cold, halt, carry>> /\ at' = at + 1
        /\ pc' = IF at = Len(cold) THEN "top" ELSE "scan"
    BY <1>4 DEF ScanEmit, ScanNext
  <2>4. QED
    BY <2>1, <2>2, <2>3
<1>5. QED
  BY <1>1, <1>2, <1>3, <1>4

\* The environment sees none of it.
LEMMA EnvironmentFrame ==
    ASSUME Environment
    PROVE  UNCHANGED <<out, pc, at, seed, lead, cold, held, halt, carry, exhausted, faults>>
BY DEF Environment, Send, Complete, Close, Cancel, DropOutput, ContentionBegins, ContentionEnds, sessionVars

LEMMA ShapeStep == ASSUME TypeOK, Shape, [Next]_vars PROVE Shape'
<1>1. CASE Driver
  BY <1>1, SeedShape, ColdShape, PumpShape, RefillShape DEF Driver
<1>2. CASE Failure
  BY <1>2, SeedShape, ColdShape, PumpShape DEF Failure
<1>3. CASE Environment \/ UNCHANGED vars
  <2>1. UNCHANGED <<pc, at, seed, cold, held, halt, carry, exhausted>>
    BY <1>3, EnvironmentFrame DEF vars, sessionVars
  <2>2. QED
    BY <2>1 DEF Shape, AllVacant
<1>4. QED
  BY <1>1, <1>2, <1>3 DEF Next

\* What the state variables range over, whatever arrives, completes or fails.
THEOREM TypeCorrect == Spec => []TypeOK
<1>1. Init => TypeOK /\ Shape
  BY InitTypes, InitShape
<1>2. TypeOK /\ Shape /\ [Next]_vars => (TypeOK /\ Shape)'
  BY TypeStep, ShapeStep
<1>3. QED
  BY <1>1, <1>2, PTL DEF Spec

-----------------------------------------------------------------------------
(***************************************************************************)
(* Only an abandoned generation is refunded                                *)
(***************************************************************************)
LEMMA AnswerIsFair ==
    ASSUME TypeOK, OnlyStaleCancelled, NEW j \in Job, NEW r \in Result, Answer(j, r),
           r = "cancelled" => Stale(j), UNCHANGED cut
    PROVE  OnlyStaleCancelled'
BY DEF TypeOK, OnlyStaleCancelled, Answer, Stale

LEMMA HeldAnswersAreFair ==
    ASSUME TypeOK, OnlyStaleCancelled, RejectHeld \/ CancelHeld, UNCHANGED cut
    PROVE  OnlyStaleCancelled'
BY DEF TypeOK, OnlyStaleCancelled, RejectHeld, CancelHeld, AnswerHeld, AsAbandoned, Stale

LEMMA UnansweredIsFair ==
    ASSUME TypeOK, OnlyStaleCancelled, UNCHANGED <<out, cut>>
    PROVE  OnlyStaleCancelled'
BY DEF OnlyStaleCancelled, Stale

\* The watermark only rises, and each place that answers Cancelled looks at it.
LEMMA FairStep ==
    ASSUME TypeOK, Shape, OnlyStaleCancelled, [Next]_vars
    PROVE  OnlyStaleCancelled'
<1> USE DEF coordVars, envVars, sessionVars
<1>0. {"sampled", "trivial", "cancelled", "rejected"} \subseteq Result
  BY DEF Result
<1>1. CASE SeedRefused \/ SeedAnswered \/ BuildFails
  <2>1. seed \in Job /\ UNCHANGED cut
    BY <1>1 DEF SeedRefused, SeedAnswered, BuildFails, Shape, TypeOK
  <2>2. \/ Answer(seed, "rejected") \/ Answer(seed, "trivial")
        \/ Answer(seed, "cancelled") /\ Stale(seed)
    BY <1>1 DEF SeedRefused, SeedAnswered, BuildFails
  <2>3. QED
    BY <1>0, <2>1, <2>2, AnswerIsFair
<1>2. CASE ColdPull
  <2>1. Head(chan) \in Job /\ UNCHANGED cut
    BY <1>2, FrontOfChannel DEF ColdPull
  <2>2. \/ Answer(Head(chan), "rejected") \/ UNCHANGED out
        \/ Answer(Head(chan), "cancelled") /\ Stale(Head(chan))
    BY <1>2 DEF ColdPull
  <2>3. QED
    BY <1>0, <2>1, <2>2, AnswerIsFair, UnansweredIsFair
<1>3. CASE UploadFails
  <2>1. cold[at] \in Job /\ Answer(cold[at], "rejected") /\ UNCHANGED cut
    BY <1>3, BatchBounds DEF UploadFails, TypeOK
  <2>2. QED
    BY <1>0, <2>1, AnswerIsFair
<1>4. CASE RefillPull
  <2>1. Head(chan) \in Job /\ UNCHANGED cut
    BY <1>4, FrontOfChannel DEF RefillPull
  <2>2. \/ Answer(Head(chan), "rejected") \/ UNCHANGED out
        \/ Answer(Head(chan), "cancelled") /\ Stale(Head(chan))
    BY <1>4 DEF RefillPull, RefillStale, RefillRefused, RefillAdmit, RefillUploadFails, RefillMismatch
  <2>3. QED
    BY <1>0, <2>1, <2>2, AnswerIsFair, UnansweredIsFair
<1>5. CASE ScanEmit
  <2>1. at \in Nonce /\ held[at] \in Seq(Job) /\ held[at] # <<>>
    BY <1>5, ScanTypes DEF TypeOK, ScanEmit, SeenComplete
  <2>2. Head(held[at]) \in Job /\ UNCHANGED cut
    BY <1>5, <2>1, HeadTailProperties DEF ScanEmit
  <2>3. Answer(Head(held[at]), "sampled") \/ Answer(Head(held[at]), "rejected")
    BY <1>5 DEF ScanEmit
  <2>4. QED
    BY <1>0, <2>2, <2>3, AnswerIsFair
<1>6. CASE LaunchFails \/ AbortDone \/ AbortFails \/ Stall
  BY <1>6, HeldAnswersAreFair DEF LaunchFails, AbortDone, AbortFails, Stall
<1>7. CASE Cancel
  <2>1. cut' \in Int /\ cut' >= cut + 1 /\ cut \in Int /\ out' = out
    BY <1>7 DEF Cancel, TypeOK
  <2>2. \A j \in Job : Gen[j] \in Int
    BY Assumption
  <2>3. QED
    BY <2>1, <2>2 DEF OnlyStaleCancelled, Stale
<1>8. CASE UNCHANGED <<out, cut>>
  BY <1>8, UnansweredIsFair
<1>9. CASE Driver
  BY <1>1, <1>2, <1>4, <1>5, <1>6, <1>8, <1>9
     DEF Driver, Recv, RecvEnds, SeedAccepted, Build, ColdEnds, Upload, Launch, Top, RefillMoves,
         SessionEnds, Poll, ScanIdle, Yield, NextSeed
<1>10. CASE Failure
  BY <1>1, <1>3, <1>6, <1>10 DEF Failure
<1>11. CASE Environment
  BY <1>7, <1>8, <1>11
     DEF Environment, Send, Complete, Close, DropOutput, ContentionBegins, ContentionEnds
<1>12. CASE UNCHANGED vars
  BY <1>8, <1>12 DEF vars
<1>13. QED
  BY <1>9, <1>10, <1>11, <1>12 DEF Next

\* A job of a generation nobody abandoned is never refunded as cancelled: not
\* by the seed, the cold start or the refill, and not by cancel_held when its
\* nonce held an abandoned job beside it.
THEOREM RefundsOnlyStale == Spec => []OnlyStaleCancelled
<1>1. Init => OnlyStaleCancelled
  BY Assumption DEF Init, OnlyStaleCancelled, Result
<1>2. Init => TypeOK /\ Shape
  BY InitTypes, InitShape
<1>3. TypeOK /\ Shape /\ OnlyStaleCancelled /\ [Next]_vars => (TypeOK /\ Shape /\ OnlyStaleCancelled)'
  BY TypeStep, ShapeStep, FairStep
<1>4. QED
  BY <1>1, <1>2, <1>3, PTL DEF Spec

-----------------------------------------------------------------------------
(***************************************************************************)
(* The slots fit the session                                               *)
(***************************************************************************)
LEMMA InitFitting == Init => Fitting
BY EmptyQueue DEF Init, Fitting, Session, Pumping, HeldJobsFit, Nonce

\* Emptied queues fit anything.
LEMMA VacantFits == ASSUME AllVacant PROVE HeldJobsFit
<1>1. \A n \in Nonce : DOMAIN held[n] = {}
  BY DEF AllVacant
<1>2. QED
  BY <1>1 DEF HeldJobsFit

LEMMA HeldKept == ASSUME HeldJobsFit, UNCHANGED <<held, lead>> PROVE HeldJobsFit'
BY DEF HeldJobsFit

\* One nonce's queue is replaced by one that fits.
LEMMA HeldReplaced ==
    ASSUME HeldJobsFit, held \in [Nonce -> Seq(Job)], NEW n \in Nonce, NEW r,
           held' = [held EXCEPT ![n] = r], UNCHANGED lead,
           \A i \in DOMAIN r :
              lead # None /\ Key[r[i]] = Key[lead] /\ Key[r[i]] \notin {Refused, EmptyGraph}
    PROVE  HeldJobsFit'
<1>1. \A m \in Nonce : held'[m] = IF m = n THEN r ELSE held[m]
  OBVIOUS
<1>2. QED
  BY <1>1 DEF HeldJobsFit

LEMMA SeedFitting ==
    ASSUME TypeOK, Shape, Fitting, Shape',
           Recv \/ RecvEnds \/ SeedRefused \/ SeedAnswered \/ SeedAccepted \/ Build \/ BuildFails
    PROVE  Fitting'
<1> USE DEF Session, Pumping, coordVars, envVars, sessionVars
<1>1. AllVacant'
  BY DEF Shape, AllVacant, Recv, RecvEnds, SeedRefused, SeedAnswered, SeedAccepted, Build, BuildFails
<1>2. HeldJobsFit'
  BY <1>1, VacantFits, PTL
<1>3. CASE Recv \/ RecvEnds \/ SeedRefused \/ SeedAnswered \/ BuildFails
  BY <1>2, <1>3 DEF Fitting, Recv, RecvEnds, SeedRefused, SeedAnswered, BuildFails
<1>4. CASE SeedAccepted
  BY <1>2, <1>4 DEF Fitting, SeedAccepted, Shape, TypeOK
<1>5. CASE Build
  <2>1. seed \in Job /\ lead = seed /\ Key[lead] \notin {Refused, EmptyGraph}
    BY <1>5 DEF Build, Shape, TypeOK, Fitting
  <2>2. \A i \in 1..Len(<<seed>>) : <<seed>>[i] = seed
    BY <2>1
  <2>3. QED
    BY <1>2, <1>5, <2>1, <2>2 DEF Fitting, Build
<1>6. QED
  BY <1>3, <1>4, <1>5

LEMMA ColdFitting ==
    ASSUME TypeOK, Shape, Fitting,
           ColdPull \/ ColdEnds \/ Upload \/ UploadFails \/ Launch \/ LaunchFails
    PROVE  Fitting'
<1> USE DEF Session, Pumping, coordVars, envVars, sessionVars
<1>1. CASE ColdPull
  <2> DEFINE j == Head(chan)
  <2>1. j \in Job /\ pc = "cold" /\ UNCHANGED <<lead, held>> /\ pc' \in {"cold", "upload"}
    BY <1>1, FrontOfChannel DEF ColdPull
  <2>2. cold' = cold \/ (cold' = Append(cold, j) /\ Key[j] = Key[lead])
    BY <1>1 DEF ColdPull, Fits
  <2> HIDE DEF j
  <2>3. cold \in Seq(Job) /\ Len(cold) \in Nat
    BY DEF TypeOK
  <2>4. /\ Len(Append(cold, j)) = Len(cold) + 1 /\ Append(cold, j)[Len(cold) + 1] = j
        /\ \A i \in 1..Len(cold) : Append(cold, j)[i] = cold[i]
    BY <2>1, <2>3, Pushed
  <2>5. \A i \in 1..Len(cold) : Key[cold[i]] = Key[lead]
    BY <2>1 DEF Fitting
  <2>6. \A i \in 1..Len(cold') : Key[cold'[i]] = Key[lead]
    BY <2>2, <2>3, <2>4, <2>5
  <2>7. HeldJobsFit'
    BY <2>1, HeldKept DEF Fitting
  <2>8. QED
    BY <2>1, <2>6, <2>7 DEF Fitting
<1>2. CASE ColdEnds
  BY <1>2, HeldKept DEF Fitting, ColdEnds
<1>3. CASE Upload
  <2>1. at \in 1..Len(cold) /\ at \in Nonce /\ cold[at] \in Job
    BY <1>3, BatchBounds DEF Upload, TypeOK
  <2>2. Key[cold[at]] = Key[lead] /\ lead \in Job /\ Key[lead] \notin {Refused, EmptyGraph}
    BY <1>3, <2>1 DEF Upload, Fitting
  <2>3. DOMAIN <<cold[at]>> = {1} /\ <<cold[at]>>[1] = cold[at]
    BY <2>1
  <2>4. held' = [held EXCEPT ![at] = <<cold[at]>>] /\ lead' = lead /\ held \in [Nonce -> Seq(Job)]
    BY <1>3 DEF Upload, TypeOK
  <2>5. HeldJobsFit'
    BY <2>1, <2>2, <2>3, <2>4, Assumption DEF Fitting, HeldJobsFit
  <2>6. QED
    BY <1>3, <2>5 DEF Fitting, Upload
<1>4. CASE UploadFails
  BY <1>4, HeldKept DEF Fitting, UploadFails
<1>5. CASE Launch
  BY <1>5, HeldKept DEF Fitting, Launch
<1>6. CASE LaunchFails
  <2>1. HeldJobsFit'
    BY <1>6, GivenUp, VacantFits, PTL DEF LaunchFails
  <2>2. QED
    BY <1>6, <2>1 DEF Fitting, LaunchFails
<1>7. QED
  BY <1>1, <1>2, <1>3, <1>4, <1>5, <1>6

LEMMA PumpFitting ==
    ASSUME TypeOK, Shape, Fitting,
           Top \/ AbortDone \/ AbortFails \/ SessionEnds \/ Stall \/ Poll \/ Yield \/ NextSeed
    PROVE  Fitting'
<1> USE DEF Session, Pumping, coordVars, envVars, sessionVars
<1>1. CASE Top \/ SessionEnds \/ Poll \/ Yield
  BY <1>1, HeldKept DEF Fitting, Top, SessionEnds, Poll, Yield
<1>2. CASE AbortDone \/ AbortFails \/ Stall
  <2>1. AllVacant'
    BY <1>2, GivenUp DEF AbortDone, AbortFails, Stall
  <2>2. HeldJobsFit'
    BY <2>1, VacantFits, PTL
  <2>3. QED
    BY <1>2, <2>2 DEF Fitting, AbortDone, AbortFails, Stall
<1>3. CASE NextSeed
  <2>1. AllVacant'
    BY <1>3 DEF NextSeed, Shape, AllVacant
  <2>2. HeldJobsFit'
    BY <2>1, VacantFits, PTL
  <2>3. QED
    BY <1>3, <2>2 DEF Fitting, NextSeed
<1>4. QED
  BY <1>1, <1>2, <1>3

LEMMA RefillFitting ==
    ASSUME TypeOK, Shape, Fitting, RefillPull \/ RefillMoves \/ ScanIdle \/ ScanEmit
    PROVE  Fitting'
<1> USE DEF Session, Pumping, coordVars, envVars, sessionVars
<1>0. held \in [Nonce -> Seq(Job)] /\ HeldJobsFit
  BY DEF TypeOK, Fitting
<1>1. CASE RefillPull
  <2> DEFINE j == Head(chan)
             q == held[at]
  <2>1. /\ j \in Job /\ at \in Nonce /\ pc = "refill" /\ UNCHANGED <<lead, cold>>
        /\ pc' \in {"refill", "watch"}
    BY <1>1, FrontOfChannel, BatchBounds
       DEF RefillPull, HasRoom, Launched, RefillStale, RefillRefused, RefillAdmit, RefillUploadFails, RefillMismatch
  <2>2. \/ held' = held
        \/ Key[j] = Key[lead] /\ held' = [held EXCEPT ![at] = Append(q, j)]
    BY <1>1 DEF RefillPull, RefillStale, RefillRefused, RefillAdmit, RefillUploadFails, RefillMismatch, Fits
  <2>3. q \in Seq(Job)
    BY <1>0, <2>1
  <2> HIDE DEF j, q
  <2>4. /\ Append(q, j) \in Seq(Job) /\ Len(Append(q, j)) = Len(q) + 1 /\ Append(q, j)[Len(q) + 1] = j
        /\ \A i \in 1..Len(q) : Append(q, j)[i] = q[i]
    BY <2>1, <2>3, Pushed
  <2>5. lead # None /\ lead \in Job /\ Key[lead] \notin {Refused, EmptyGraph}
    BY <2>1, Assumption DEF Fitting
  <2>6. CASE held' = held
    BY <2>1, <2>6, HeldKept DEF Fitting
  <2>7. CASE Key[j] = Key[lead] /\ held' = [held EXCEPT ![at] = Append(q, j)]
    <3>1. \A i \in 1..Len(q) : Key[q[i]] = Key[lead]
      BY <1>0, <2>1, <2>3 DEF HeldJobsFit, q
    <3>2. \A i \in 1..(Len(q) + 1) : Key[Append(q, j)[i]] = Key[lead]
      BY <2>3, <2>4, <2>7, <3>1
    <3>3. \A i \in DOMAIN Append(q, j) :
            /\ lead # None /\ Key[Append(q, j)[i]] = Key[lead]
            /\ Key[Append(q, j)[i]] \notin {Refused, EmptyGraph}
      BY <2>4, <2>5, <3>2
    <3>5. HeldJobsFit'
      BY <1>0, <2>1, <2>7, <3>3, HeldReplaced
    <3>6. QED
      BY <2>1, <3>5 DEF Fitting
  <2>8. QED
    BY <2>2, <2>6, <2>7
<1>2. CASE RefillMoves
  BY <1>2, HeldKept DEF Fitting, RefillMoves
<1>3. CASE ScanIdle
  BY <1>3, HeldKept DEF Fitting, ScanIdle, ScanNext
<1>4. CASE ScanEmit
  <2> DEFINE q == held[at]
  <2>1. at \in Nonce /\ q # <<>> /\ lead' = lead /\ held' = [held EXCEPT ![at] = Tail(q)]
    BY <1>4, ScanTypes DEF ScanEmit, SeenComplete
  <2>2. q \in Seq(Job)
    BY <1>0, <2>1
  <2> HIDE DEF q
  <2>3. /\ Tail(q) \in Seq(Job) /\ Len(Tail(q)) = Len(q) - 1
        /\ \A i \in 1..Len(Tail(q)) : Tail(q)[i] = q[i + 1]
    BY <2>1, <2>2, HeadTailProperties
  <2>4. Len(q) \in Nat
    BY <2>2
  <2>5. \A i \in 1..Len(q) : lead # None /\ Key[q[i]] = Key[lead] /\ Key[q[i]] \notin {Refused, EmptyGraph}
    BY <1>0, <2>1, <2>2 DEF HeldJobsFit, q
  <2>6. \A i \in 1..Len(Tail(q)) : i + 1 \in 1..Len(q)
    BY <2>3, <2>4
  <2>7. \A i \in DOMAIN Tail(q) :
          lead # None /\ Key[Tail(q)[i]] = Key[lead] /\ Key[Tail(q)[i]] \notin {Refused, EmptyGraph}
    BY <2>3, <2>5, <2>6
  <2>9. HeldJobsFit'
    BY <1>0, <2>1, <2>7, HeldReplaced
  <2>10. QED
    BY <1>4, <2>9 DEF Fitting, ScanEmit, ScanNext
<1>5. QED
  BY <1>1, <1>2, <1>3, <1>4

LEMMA FittingStep ==
    ASSUME TypeOK, Shape, Fitting, [Next]_vars
    PROVE  Fitting'
<1>0. Shape'
  BY ShapeStep
<1>1. CASE Driver
  BY <1>0, <1>1, SeedFitting, ColdFitting, PumpFitting, RefillFitting DEF Driver
<1>2. CASE Failure
  BY <1>0, <1>2, SeedFitting, ColdFitting, PumpFitting DEF Failure
<1>3. CASE Environment \/ UNCHANGED vars
  <2>1. UNCHANGED <<pc, seed, lead, cold, held>>
    BY <1>3, EnvironmentFrame DEF vars, sessionVars
  <2>2. HeldJobsFit'
    BY <2>1, HeldKept DEF Fitting
  <2>3. QED
    BY <2>1, <2>2 DEF Fitting
<1>4. QED
  BY <1>1, <1>2, <1>3 DEF Next

-----------------------------------------------------------------------------
(***************************************************************************)
(* Why the stream ends                                                     *)
(***************************************************************************)
LEMMA InitEnding == Init => Ending
BY Assumption DEF Init, Ending, Session, Pumping, Result

\* A result is only lost once the consumer has gone, and it does not return.
LEMMA AnswerLost ==
    ASSUME TypeOK, Ending, NEW j \in Job, NEW r \in Result \ {"lost"}, Answer(j, r), UNCHANGED outOpen
    PROVE  \A k \in Job : out'[k] = "lost" => ~outOpen'
BY DEF TypeOK, Ending, Answer

LEMMA HeldAnswersLost ==
    ASSUME TypeOK, Ending, RejectHeld \/ CancelHeld, UNCHANGED outOpen
    PROVE  \A k \in Job : out'[k] = "lost" => ~outOpen'
BY DEF TypeOK, Ending, RejectHeld, CancelHeld, AnswerHeld, AsAbandoned

\* No step of the driver answers a job as lost while the consumer listens.
LEMMA LostStep ==
    ASSUME TypeOK, Shape, Ending, [Next]_vars
    PROVE  \A k \in Job : out'[k] = "lost" => ~outOpen'
<1> USE DEF coordVars, envVars, sessionVars
<1>0. {"sampled", "trivial", "cancelled", "rejected"} \subseteq Result \ {"lost"}
  BY DEF Result
<1>1. CASE SeedRefused \/ SeedAnswered \/ BuildFails
  <2>1. seed \in Job /\ UNCHANGED outOpen
    BY <1>1 DEF SeedRefused, SeedAnswered, BuildFails, Shape, TypeOK
  <2>2. Answer(seed, "rejected") \/ Answer(seed, "trivial") \/ Answer(seed, "cancelled")
    BY <1>1 DEF SeedRefused, SeedAnswered, BuildFails
  <2>3. QED
    BY <1>0, <2>1, <2>2, AnswerLost
<1>2. CASE UNCHANGED out /\ (outOpen' => outOpen)
  BY <1>2 DEF Ending
<1>3. CASE ColdPull \/ RefillPull
  <2>1. Head(chan) \in Job /\ UNCHANGED outOpen
    BY <1>3, FrontOfChannel DEF ColdPull, RefillPull
  <2>2. Answer(Head(chan), "rejected") \/ UNCHANGED out \/ Answer(Head(chan), "cancelled")
    BY <1>3 DEF ColdPull, RefillPull, RefillStale, RefillRefused, RefillAdmit, RefillUploadFails, RefillMismatch
  <2>3. QED
    BY <1>0, <1>2, <2>1, <2>2, AnswerLost
<1>4. CASE UploadFails
  <2>1. cold[at] \in Job /\ Answer(cold[at], "rejected") /\ UNCHANGED outOpen
    BY <1>4, BatchBounds DEF UploadFails, TypeOK
  <2>2. QED
    BY <1>0, <2>1, AnswerLost
<1>5. CASE ScanEmit
  <2>1. at \in Nonce /\ held[at] \in Seq(Job) /\ held[at] # <<>>
    BY <1>5, ScanTypes DEF TypeOK, ScanEmit, SeenComplete
  <2>2. Head(held[at]) \in Job /\ UNCHANGED outOpen
    BY <1>5, <2>1, HeadTailProperties DEF ScanEmit
  <2>3. Answer(Head(held[at]), "sampled") \/ Answer(Head(held[at]), "rejected")
    BY <1>5 DEF ScanEmit
  <2>4. QED
    BY <1>0, <2>2, <2>3, AnswerLost
<1>6. CASE LaunchFails \/ AbortDone \/ AbortFails \/ Stall
  BY <1>6, HeldAnswersLost DEF LaunchFails, AbortDone, AbortFails, Stall
<1>7. CASE Driver
  BY <1>1, <1>2, <1>3, <1>5, <1>6, <1>7
     DEF Driver, Recv, RecvEnds, SeedAccepted, Build, ColdEnds, Upload, Launch, Top, RefillMoves,
         SessionEnds, Poll, ScanIdle, Yield, NextSeed
<1>8. CASE Failure
  BY <1>1, <1>4, <1>6, <1>8 DEF Failure
<1>9. CASE Environment
  BY <1>2, <1>9
     DEF Environment, Send, Complete, Close, Cancel, DropOutput, ContentionBegins, ContentionEnds
<1>10. CASE UNCHANGED vars
  BY <1>2, <1>10 DEF vars
<1>11. QED
  BY <1>7, <1>8, <1>9, <1>10 DEF Next

\* A channel once closed and drained stays so, and so does a result channel
\* without a consumer.
LEMMA OverStaysOver ==
    ASSUME TypeOK, [Next]_vars, ~outOpen \/ NoMoreJobs
    PROVE  ~outOpen' \/ NoMoreJobs'
<1> USE DEF coordVars, envVars, sessionVars
<1>1. CASE Driver
  BY <1>1 DEF Driver, NoMoreJobs, Arrived, PullHead, Recv, RecvEnds, SeedRefused, SeedAnswered, SeedAccepted,
     Build, ColdPull, ColdEnds, Upload, Launch, Top, AbortDone, RefillPull, RefillMoves,
     SessionEnds, Poll, ScanIdle, ScanEmit, Yield, NextSeed
<1>2. CASE Failure
  BY <1>2 DEF Failure, NoMoreJobs, BuildFails, UploadFails, LaunchFails, AbortFails, Stall
<1>3. CASE Environment
  BY <1>3 DEF Environment, NoMoreJobs, Send, Complete, Close, Cancel, DropOutput,
     ContentionBegins, ContentionEnds
<1>4. CASE UNCHANGED vars
  BY <1>4 DEF vars, NoMoreJobs
<1>5. QED
  BY <1>1, <1>2, <1>3, <1>4 DEF Next

\* Halt::Closed is set, and run_stream left, only for one of the two reasons.
LEMMA EndsForAReason ==
    ASSUME TypeOK, Shape, Ending, [Next]_vars,
           pc' = "done" \/ (pc' \in Session /\ halt' = "closed")
    PROVE  \/ ~outOpen \/ NoMoreJobs
           \/ ~outOpen' \/ NoMoreJobs'
<1> USE DEF Ending, Shape, Session, Pumping, coordVars, envVars, sessionVars
<1>1. CASE Recv \/ RecvEnds \/ SeedRefused \/ SeedAnswered \/ SeedAccepted \/ Build \/ BuildFails
  BY <1>1 DEF Recv, RecvEnds, SeedRefused, SeedAnswered, SeedAccepted, Build, BuildFails
<1>2. CASE ColdPull \/ ColdEnds \/ Upload \/ UploadFails \/ Launch \/ LaunchFails
  BY <1>2 DEF ColdPull, ColdEnds, Upload, UploadFails, Launch, LaunchFails
<1>3. CASE Top \/ AbortDone \/ AbortFails \/ SessionEnds \/ Stall \/ Poll \/ Yield \/ NextSeed
  BY <1>3 DEF Top, AbortDone, AbortFails, SessionEnds, Stall, Poll, Yield, NextSeed
<1>4. CASE RefillPull
  BY <1>4 DEF RefillPull, RefillStale, RefillRefused, RefillAdmit, RefillUploadFails, RefillMismatch
<1>5. CASE RefillMoves \/ ScanIdle \/ ScanEmit
  BY <1>5 DEF RefillMoves, ScanIdle, ScanEmit, ScanNext
<1>6. CASE Environment \/ UNCHANGED vars
  <2>1. UNCHANGED <<pc, halt>>
    BY <1>6, EnvironmentFrame DEF vars
  <2>2. QED
    BY <2>1
<1>7. QED
  BY <1>1, <1>2, <1>3, <1>4, <1>5, <1>6 DEF Next, Driver, Failure

LEMMA EndingStep ==
    ASSUME TypeOK, Shape, Ending, [Next]_vars
    PROVE  Ending'
<1>1. (pc \in Session /\ halt = "closed" => ~outOpen \/ NoMoreJobs)'
  BY EndsForAReason, OverStaysOver DEF Session, Pumping
<1>2. (pc = "done" => ~outOpen \/ NoMoreJobs)'
  BY EndsForAReason, OverStaysOver
<1>3. (\A j \in Job : out[j] = "lost" => ~outOpen)'
  BY LostStep
<1>4. QED
  BY <1>1, <1>2, <1>3 DEF Ending

-----------------------------------------------------------------------------
(***************************************************************************)
(* Every job in one place: what each kind of move does to the places       *)
(***************************************************************************)
LEMMA HeldBy ==
    /\ \A k : k \in HeldJobs <=> \E n \in Nonce : k \in Jobs(held[n])
    /\ \A k : k \in HeldJobs' <=> \E n \in Nonce : k \in Jobs(held'[n])
BY DEF HeldJobs, Jobs

LEMMA VacantHolds == /\ AllVacant => HeldJobs = {} /\ HeldDistinct
                     /\ AllVacant' => HeldJobs' = {} /\ HeldDistinct'
<1>1. AllVacant => HeldJobs = {} /\ HeldDistinct
  BY HeldBy, EmptyQueue DEF AllVacant, HeldDistinct
<1>2. AllVacant' => HeldJobs' = {} /\ HeldDistinct'
  BY HeldBy, EmptyQueue DEF AllVacant, HeldDistinct
<1>3. QED
  BY <1>1, <1>2

LEMMA HeldFrame ==
    ASSUME UNCHANGED held
    PROVE  HeldJobs' = HeldJobs /\ (HeldDistinct => HeldDistinct')
<1>1. HeldJobs' = HeldJobs
  BY DEF HeldJobs
<1>2. HeldDistinct => HeldDistinct'
  BY DEF HeldDistinct
<1>3. QED
  BY <1>1, <1>2

LEMMA ChannelFrame ==
    ASSUME UNCHANGED <<unsent, chan>>
    PROVE  Jobs(chan)' = Jobs(chan) /\ (Distinct(chan) => Distinct(chan'))
BY DEF Jobs

\* A job is pulled.
LEMMA PulledJob ==
    ASSUME TypeOK, NoDoubles, Arrived, PullHead
    PROVE  /\ Head(chan) \in Job /\ Head(chan) \in Jobs(chan)
           /\ \A k : k \in Jobs(chan)' <=> k \in Jobs(chan) /\ k # Head(chan)
           /\ Distinct(chan')
           /\ UNCHANGED unsent
<1>1. chan \in Seq(Job) /\ chan # <<>> /\ Distinct(chan) /\ chan' = Tail(chan)
  BY DEF TypeOK, NoDoubles, Arrived, PullHead
<1>2. Jobs(chan)' = Jobs(chan')
  BY DEF Jobs
<1>3. QED
  BY <1>1, <1>2, Popped DEF PullHead

\* A job is answered.
LEMMA AnsweredJob ==
    ASSUME TypeOK, NEW j \in Job, NEW r \in Result, Answer(j, r)
    PROVE  \A k \in Job : out'[k] # None <=> out[k] # None \/ k = j
BY Assumption DEF TypeOK, Answer, Result

LEMMA AnsweredHeld ==
    ASSUME TypeOK, RejectHeld \/ CancelHeld
    PROVE  /\ \A k \in Job : out'[k] # None <=> out[k] # None \/ k \in HeldJobs
           /\ HeldJobs' = {} /\ HeldDistinct'
<1>1. PICK r \in [Job -> Result \ {"lost"}] : AnswerHeld(r)
  BY DEF RejectHeld, CancelHeld, AsAbandoned, Result
<1>2. \A k \in Job : r[k] # None /\ "lost" # None
  BY Assumption DEF Result
<1>3. \A k \in Job : out'[k] # None <=> out[k] # None \/ k \in HeldJobs
  BY <1>1, <1>2 DEF AnswerHeld
<1>4. QED
  BY <1>3, GivenUp, VacantHolds

\* A job is queued behind what its nonce holds.
LEMMA HeldTakes ==
    ASSUME TypeOK, HeldDistinct, NEW n \in Nonce, NEW j \in Job, j \notin HeldJobs,
           NEW r \in Seq(Job), Distinct(r), \A k : k \in Jobs(r) <=> k \in Jobs(held[n]) \/ k = j,
           held' = [held EXCEPT ![n] = r]
    PROVE  /\ \A k : k \in HeldJobs' <=> k \in HeldJobs \/ k = j
           /\ HeldDistinct'
<1>1. \A m \in Nonce : held'[m] = IF m = n THEN r ELSE held[m]
  BY DEF TypeOK
<1>2. \A m \in Nonce : \A k : k \in Jobs(held'[m]) <=> k \in Jobs(held[m]) \/ (m = n /\ k = j)
  BY <1>1
<1>3. \A m \in Nonce : j \notin Jobs(held[m])
  BY HeldBy
<1>4. \A k : k \in HeldJobs' <=> k \in HeldJobs \/ k = j
  BY <1>2, HeldBy
<1>5. \A m \in Nonce : Distinct(held'[m])
  BY <1>1 DEF HeldDistinct
<1>6. \A m, l \in Nonce : m # l => Jobs(held'[m]) \cap Jobs(held'[l]) = {}
  <2> SUFFICES ASSUME NEW m \in Nonce, NEW l \in Nonce, m # l,
                      NEW k \in Jobs(held'[m]), k \in Jobs(held'[l])
               PROVE  FALSE
    OBVIOUS
  <2>1. Jobs(held[m]) \cap Jobs(held[l]) = {}
    BY DEF HeldDistinct
  <2>2. QED
    BY <1>2, <1>3, <2>1
<1>7. QED
  BY <1>4, <1>5, <1>6 DEF HeldDistinct, Jobs

\* The front of a nonce's queue leaves it.
LEMMA HeldGives ==
    ASSUME TypeOK, HeldDistinct, NEW n \in Nonce, held[n] # <<>>,
           held' = [held EXCEPT ![n] = Tail(held[n])]
    PROVE  /\ Head(held[n]) \in Job /\ Head(held[n]) \in HeldJobs
           /\ \A k : k \in HeldJobs' <=> k \in HeldJobs /\ k # Head(held[n])
           /\ HeldDistinct'
<1> DEFINE j == Head(held[n])
<1>0. held[n] \in Seq(Job) /\ Distinct(held[n]) /\ held \in [Nonce -> Seq(Job)]
  BY DEF TypeOK, HeldDistinct
<1>1. /\ j \in Job /\ j \in Jobs(held[n]) /\ Distinct(Tail(held[n]))
      /\ \A k : k \in Jobs(Tail(held[n])) <=> k \in Jobs(held[n]) /\ k # j
  BY <1>0, Popped
<1>2. \A m \in Nonce : held'[m] = IF m = n THEN Tail(held[n]) ELSE held[m]
  BY <1>0
<1> HIDE DEF j
<1>3. \A m \in Nonce : m # n => j \notin Jobs(held[m])
  BY <1>1 DEF HeldDistinct
<1>4. \A m \in Nonce : \A k : k \in Jobs(held'[m]) <=> k \in Jobs(held[m]) /\ k # j
  BY <1>1, <1>2, <1>3
<1>5. \A k : k \in HeldJobs' <=> k \in HeldJobs /\ k # j
  BY <1>4, HeldBy
<1>6. \A m \in Nonce : Distinct(held'[m])
  BY <1>1, <1>2 DEF HeldDistinct
<1>7. \A m, l \in Nonce : m # l => Jobs(held'[m]) \cap Jobs(held'[l]) = {}
  <2> SUFFICES ASSUME NEW m \in Nonce, NEW l \in Nonce, m # l,
                      NEW k \in Jobs(held'[m]), k \in Jobs(held'[l])
               PROVE  FALSE
    OBVIOUS
  <2>1. Jobs(held[m]) \cap Jobs(held[l]) = {}
    BY DEF HeldDistinct
  <2>2. QED
    BY <1>4, <2>1
<1>8. j \in HeldJobs
  BY <1>1, HeldBy
<1>9. HeldDistinct'
  BY <1>6, <1>7 DEF HeldDistinct, Jobs
<1>10. QED
  BY <1>1, <1>5, <1>8, <1>9 DEF j

\* The part of the batch that is still to be uploaded.
LEMMA WaitingFrame ==
    /\ pc \notin {"cold", "upload"} => Waiting = {}
    /\ pc' \notin {"cold", "upload"} => Waiting' = {}
    /\ pc \in {"cold", "upload"} => \A k : k \in Waiting <=> \E i \in at..Len(cold) : cold[i] = k
    /\ pc' \in {"cold", "upload"} => \A k : k \in Waiting' <=> \E i \in at'..Len(cold') : cold'[i] = k
    /\ pc \in {"cold", "upload"} /\ pc' \in {"cold", "upload"} /\ UNCHANGED <<at, cold>>
          => Waiting' = Waiting
BY DEF Waiting

\* The next job of the batch is uploaded, or refused.
LEMMA WaitingGives ==
    ASSUME TypeOK, NoDoubles, pc = "upload", at <= Len(cold), at' = at + 1, UNCHANGED <<pc, cold>>
    PROVE  /\ cold[at] \in Job /\ cold[at] \in Waiting
           /\ \A k : k \in Waiting' <=> k \in Waiting /\ k # cold[at]
<1>1. at \in 1..Len(cold) /\ Len(cold) \in Nat /\ cold[at] \in Job /\ Distinct(cold)
  BY BatchBounds DEF TypeOK, NoDoubles
<1>2. \A k : k \in Waiting <=> \E i \in at..Len(cold) : cold[i] = k
  BY WaitingFrame
<1>3. \A k : k \in Waiting' <=> \E i \in (at + 1)..Len(cold) : cold[i] = k
  BY WaitingFrame
<1>4. \A i \in at..Len(cold) : i \in 1..Len(cold) /\ (i = at \/ i \in (at + 1)..Len(cold))
  BY <1>1
<1>5. \A i \in (at + 1)..Len(cold) : i \in at..Len(cold) /\ i # at /\ cold[i] # cold[at]
  BY <1>1 DEF Distinct
<1>6. at \in at..Len(cold)
  BY <1>1
<1>7. QED
  BY <1>1, <1>2, <1>3, <1>4, <1>5, <1>6

LEMMA InitPlaced == Init => NoDoubles /\ AllPlaced
<1> SUFFICES ASSUME Init PROVE NoDoubles /\ AllPlaced
  OBVIOUS
<1>1. AllVacant /\ pc = "recv" /\ Waiting = {}
  BY DEF Init, AllVacant, Waiting
<1>2. Jobs(chan) = {} /\ Distinct(chan) /\ HeldJobs = {} /\ HeldDistinct
  BY <1>1, EmptyQueue, VacantHolds DEF Init
<1>3. \A j \in Job : j \in unsent /\ j # seed /\ j # carry /\ out[j] = None
  BY Assumption DEF Init
<1>4. QED
  BY <1>1, <1>2, <1>3 DEF NoDoubles, AllPlaced, Placed, ExactlyOne

\* A step that moves no job.
LEMMA NothingMoves ==
    ASSUME NoDoubles, AllPlaced, UNCHANGED <<unsent, chan, seed, carry, held, out>>,
           Waiting' = Waiting, (pc \in {"cold", "upload"} => Distinct(cold))'
    PROVE  NoDoubles' /\ AllPlaced'
BY HeldFrame, ChannelFrame DEF NoDoubles, AllPlaced, Placed, ExactlyOne

LEMMA QuietPlaced ==
    ASSUME TypeOK, Shape, NoDoubles, AllPlaced,
           \/ RecvEnds \/ SeedAccepted \/ ColdEnds \/ Launch \/ Top \/ RefillMoves
           \/ SessionEnds \/ Poll \/ ScanIdle \/ Yield
    PROVE  NoDoubles' /\ AllPlaced'
<1> USE DEF coordVars, envVars, sessionVars
<1>1. UNCHANGED <<unsent, chan, seed, carry, held, out, cold>>
  BY DEF RecvEnds, SeedAccepted, ColdEnds, Launch, Top, RefillMoves, SessionEnds, Poll, ScanIdle, Yield
<1>2. CASE ColdEnds
  <2>1. Waiting' = Waiting /\ pc = "cold" /\ pc' = "upload"
    BY <1>2, WaitingFrame DEF ColdEnds
  <2>2. QED
    BY <1>1, <2>1, NothingMoves DEF NoDoubles
<1>3. CASE Launch
  <2>1. pc = "upload" /\ at = Len(cold) + 1 /\ Len(cold) \in Nat /\ pc' = "top"
    BY <1>3, BatchBounds DEF Launch
  <2>2. at..Len(cold) = {}
    BY <2>1
  <2>3. Waiting = {} /\ Waiting' = {}
    BY <2>1, <2>2, WaitingFrame
  <2>4. QED
    BY <1>1, <2>1, <2>3, NothingMoves
<1>4. CASE ~ColdEnds /\ ~Launch
  <2>1. pc \notin {"cold", "upload"} /\ pc' \notin {"cold", "upload"}
    BY <1>4 DEF RecvEnds, SeedAccepted, Top, RefillMoves, SessionEnds, Poll, ScanIdle, ScanNext, Yield
  <2>2. Waiting' = Waiting
    BY <2>1, WaitingFrame
  <2>3. QED
    BY <1>1, <2>1, <2>2, NothingMoves
<1>5. QED
  BY <1>2, <1>3, <1>4

LEMMA SeedPlaced ==
    ASSUME TypeOK, Shape, NoDoubles, AllPlaced,
           Recv \/ SeedRefused \/ SeedAnswered \/ Build \/ BuildFails \/ NextSeed
    PROVE  NoDoubles' /\ AllPlaced'
<1> USE DEF coordVars, envVars, sessionVars
<1>0. HeldJobs' = HeldJobs /\ HeldDistinct'
  BY HeldFrame DEF NoDoubles, Recv, SeedRefused, SeedAnswered, Build, BuildFails, NextSeed
<1>1. CASE Recv
  <2>1. /\ seed = None /\ seed' = Head(chan) /\ UNCHANGED <<carry, out>>
        /\ pc \notin {"cold", "upload"} /\ pc' \notin {"cold", "upload"}
    BY <1>1 DEF Recv, Shape
  <2>2. /\ Head(chan) \in Job /\ Head(chan) \in Jobs(chan) /\ Distinct(chan') /\ UNCHANGED unsent
        /\ \A k : k \in Jobs(chan)' <=> k \in Jobs(chan) /\ k # Head(chan)
    BY <1>1, PulledJob DEF Recv
  <2>3. Waiting = {} /\ Waiting' = {}
    BY <2>1, WaitingFrame
  <2>4. AllPlaced'
    BY <1>0, <2>1, <2>2, <2>3, Assumption DEF AllPlaced, Placed, ExactlyOne
  <2>5. QED
    BY <1>0, <2>1, <2>2, <2>4 DEF NoDoubles
<1>2. CASE SeedRefused \/ SeedAnswered \/ BuildFails
  <2>1. /\ seed \in Job /\ seed' = None /\ UNCHANGED <<unsent, chan, carry>>
        /\ pc \notin {"cold", "upload"} /\ pc' \notin {"cold", "upload"}
    BY <1>2 DEF SeedRefused, SeedAnswered, BuildFails, Shape, TypeOK
  <2>2. Answer(seed, "rejected") \/ Answer(seed, "trivial") \/ Answer(seed, "cancelled")
    BY <1>2 DEF SeedRefused, SeedAnswered, BuildFails
  <2>3. \A k \in Job : out'[k] # None <=> out[k] # None \/ k = seed
    BY <2>1, <2>2, AnsweredJob DEF Result
  <2>4. Waiting = {} /\ Waiting' = {}
    BY <2>1, WaitingFrame
  <2>5. AllPlaced'
    BY <1>0, <2>1, <2>3, <2>4, ChannelFrame, Assumption DEF AllPlaced, Placed, ExactlyOne
  <2>6. QED
    BY <1>0, <2>1, <2>5, ChannelFrame DEF NoDoubles
<1>3. CASE Build
  <2>1. /\ seed \in Job /\ seed' = None /\ UNCHANGED <<unsent, chan, carry, out>>
        /\ pc = "build" /\ pc' = "cold" /\ at' = 1 /\ cold' = <<seed>>
    BY <1>3 DEF Build, Shape, TypeOK
  <2>2. Waiting = {} /\ \A k : k \in Waiting' <=> \E i \in 1..Len(<<seed>>) : <<seed>>[i] = k
    BY <2>1, WaitingFrame
  <2>3. \A k : k \in Waiting' <=> k = seed
    BY <2>1, <2>2, SingleQueue
  <2>4. AllPlaced'
    BY <1>0, <2>1, <2>2, <2>3, ChannelFrame, Assumption DEF AllPlaced, Placed, ExactlyOne
  <2>5. Distinct(cold)'
    BY <2>1, SingleQueue DEF Distinct
  <2>6. QED
    BY <1>0, <2>1, <2>4, <2>5, ChannelFrame DEF NoDoubles
<1>4. CASE NextSeed
  <2>1. /\ seed = None /\ UNCHANGED <<unsent, chan, out>>
        /\ (seed' = carry /\ carry' = None) \/ (seed' = seed /\ carry' = carry)
        /\ pc \notin {"cold", "upload"} /\ pc' \notin {"cold", "upload"}
    BY <1>4 DEF NextSeed, Shape
  <2>2. Waiting = {} /\ Waiting' = {}
    BY <2>1, WaitingFrame
  <2>3. AllPlaced'
    BY <1>0, <2>1, <2>2, ChannelFrame, Assumption DEF AllPlaced, Placed, ExactlyOne
  <2>4. QED
    BY <1>0, <2>1, <2>3, ChannelFrame DEF NoDoubles
<1>5. QED
  BY <1>1, <1>2, <1>3, <1>4

LEMMA ColdPlaced ==
    ASSUME TypeOK, Shape, NoDoubles, AllPlaced, ColdPull \/ Upload \/ UploadFails
    PROVE  NoDoubles' /\ AllPlaced'
<1> USE DEF coordVars, envVars, sessionVars
<1>1. CASE ColdPull
  <2> DEFINE j == Head(chan)
  <2>1. /\ pc = "cold" /\ at = 1 /\ carry = None /\ seed = None /\ pc' \in {"cold", "upload"}
        /\ UNCHANGED <<at, seed, held>>
    BY <1>1 DEF ColdPull, Shape, Session, Pumping
  <2>2. /\ j \in Job /\ j \in Jobs(chan) /\ Distinct(chan') /\ UNCHANGED unsent
        /\ \A k : k \in Jobs(chan)' <=> k \in Jobs(chan) /\ k # j
    BY <1>1, PulledJob DEF ColdPull
  <2>3. \/ /\ Answer(j, "rejected") \/ Answer(j, "cancelled")
           /\ UNCHANGED <<cold, carry>>
        \/ cold' = Append(cold, j) /\ UNCHANGED <<out, carry>>
        \/ carry' = j /\ UNCHANGED <<out, cold>>
    BY <1>1 DEF ColdPull
  <2> HIDE DEF j
  <2>4. HeldJobs' = HeldJobs /\ HeldDistinct'
    BY <2>1, HeldFrame DEF NoDoubles
  <2>5. cold \in Seq(Job) /\ Distinct(cold) /\ Len(cold) \in Nat
    BY <2>1 DEF TypeOK, NoDoubles
  <2>6. \A k : k \in Waiting <=> k \in Jobs(cold)
    BY <2>1, <2>5, WaitingFrame, JobsOf
  <2>7. CASE UNCHANGED cold
    <3>1. Waiting' = Waiting
      BY <2>1, <2>7, WaitingFrame
    <3>2. \/ (\A k \in Job : out'[k] # None <=> out[k] # None \/ k = j) /\ carry' = carry
          \/ out' = out /\ carry' = j
          \/ out' = out /\ carry' = carry /\ cold' = Append(cold, j)
      BY <2>2, <2>3, AnsweredJob DEF Result
    <3>3. cold' # Append(cold, j)
      BY <2>2, <2>5, <2>7, Pushed
    <3>4. AllPlaced'
      BY <2>1, <2>2, <2>4, <3>1, <3>2, <3>3, Assumption DEF AllPlaced, Placed, ExactlyOne
    <3>5. QED
      BY <2>2, <2>4, <2>5, <2>7, <3>4 DEF NoDoubles, Distinct
  <2>8. CASE cold' = Append(cold, j) /\ UNCHANGED <<out, carry>>
    <3>1. j \notin Waiting
      BY <2>2 DEF AllPlaced, Placed, ExactlyOne
    <3>2. /\ cold' \in Seq(Job) /\ Distinct(cold') /\ Len(cold') \in Nat
          /\ \A k : k \in Jobs(cold') <=> k \in Jobs(cold) \/ k = j
      BY <2>2, <2>5, <2>6, <2>8, <3>1, Pushed
    <3>3. \A k : k \in Waiting' <=> k \in Jobs(cold')
      BY <2>1, <3>2, WaitingFrame, JobsOf
    <3>4. \A k : k \in Waiting' <=> k \in Waiting \/ k = j
      BY <2>6, <3>2, <3>3
    <3>5. AllPlaced'
      BY <2>1, <2>2, <2>4, <2>8, <3>4, Assumption DEF AllPlaced, Placed, ExactlyOne
    <3>6. QED
      BY <2>2, <2>4, <3>2, <3>5 DEF NoDoubles, Distinct
  <2>9. QED
    BY <2>3, <2>7, <2>8
<1>2. ASSUME Upload \/ UploadFails PROVE NoDoubles' /\ AllPlaced'
  <2> DEFINE j == cold[at]
  <2>1. /\ pc = "upload" /\ at <= Len(cold) /\ at' = at + 1
        /\ UNCHANGED <<unsent, chan, pc, seed, carry, cold>>
    BY <1>2 DEF Upload, UploadFails
  <2>2. j \in Job /\ j \in Waiting /\ \A k : k \in Waiting' <=> k \in Waiting /\ k # j
    BY <2>1, WaitingGives
  <2>3. at \in Nonce /\ held[at] = <<>> /\ j \notin HeldJobs /\ HeldDistinct
    BY <2>1, <2>2, BatchBounds DEF Shape, AllPlaced, Placed, ExactlyOne, NoDoubles, TypeOK
  <2>4. (pc \in {"cold", "upload"} => Distinct(cold))'
    BY <2>1 DEF NoDoubles, Distinct
  <2>5. CASE Upload
    <3>1. held' = [held EXCEPT ![at] = <<j>>] /\ out' = out
      BY <2>5 DEF Upload
    <3> HIDE DEF j
    <3>2. <<j>> \in Seq(Job) /\ Distinct(<<j>>) /\ \A k : k \in Jobs(<<j>>) <=> k \in Jobs(held[at]) \/ k = j
      BY <2>2, <2>3, SingleQueue, EmptyQueue
    <3>3. HeldDistinct' /\ \A k : k \in HeldJobs' <=> k \in HeldJobs \/ k = j
      BY <2>2, <2>3, <3>1, <3>2, HeldTakes
    <3>4. AllPlaced'
      BY <2>1, <2>2, <3>1, <3>3, ChannelFrame DEF AllPlaced, Placed, ExactlyOne
    <3>5. QED
      BY <2>1, <2>4, <3>3, <3>4, ChannelFrame DEF NoDoubles
  <2>6. CASE UploadFails
    <3>1. Answer(j, "rejected") /\ held' = held
      BY <2>6 DEF UploadFails
    <3> HIDE DEF j
    <3>2. \A k \in Job : out'[k] # None <=> out[k] # None \/ k = j
      BY <2>2, <3>1, AnsweredJob DEF Result
    <3>3. HeldJobs' = HeldJobs /\ HeldDistinct'
      BY <2>3, <3>1, HeldFrame
    <3>4. AllPlaced'
      BY <2>1, <2>2, <3>2, <3>3, ChannelFrame DEF AllPlaced, Placed, ExactlyOne
    <3>5. QED
      BY <2>1, <2>4, <3>3, <3>4, ChannelFrame DEF NoDoubles
  <2>7. QED
    BY <1>2, <2>5, <2>6
<1>3. QED
  BY <1>1, <1>2

LEMMA GivenUpPlaced ==
    ASSUME TypeOK, Shape, NoDoubles, AllPlaced, LaunchFails \/ AbortDone \/ AbortFails \/ Stall
    PROVE  NoDoubles' /\ AllPlaced'
<1> USE DEF coordVars, envVars, sessionVars
<1>1. /\ RejectHeld \/ CancelHeld
      /\ UNCHANGED <<unsent, chan, seed, carry, cold>> /\ pc' \notin {"cold", "upload"}
  BY DEF LaunchFails, AbortDone, AbortFails, Stall
<1>2. /\ \A k \in Job : out'[k] # None <=> out[k] # None \/ k \in HeldJobs
      /\ HeldJobs' = {} /\ HeldDistinct'
  BY <1>1, AnsweredHeld
<1>3. Waiting = {} /\ Waiting' = {}
  <2>1. CASE LaunchFails
    <3>1. pc = "upload" /\ at = Len(cold) + 1 /\ Len(cold) \in Nat
      BY <2>1, BatchBounds DEF LaunchFails
    <3>2. at..Len(cold) = {}
      BY <3>1
    <3>3. QED
      BY <1>1, <3>1, <3>2, WaitingFrame
  <2>2. CASE AbortDone \/ AbortFails \/ Stall
    BY <1>1, <2>2, WaitingFrame DEF AbortDone, AbortFails, Stall
  <2>3. QED
    BY <2>1, <2>2
<1>4. AllPlaced'
  BY <1>1, <1>2, <1>3, ChannelFrame DEF AllPlaced, Placed, ExactlyOne
<1>5. QED
  BY <1>1, <1>2, <1>4, ChannelFrame DEF NoDoubles

LEMMA RefillPlaced ==
    ASSUME TypeOK, Shape, NoDoubles, AllPlaced, RefillPull
    PROVE  NoDoubles' /\ AllPlaced'
<1> USE DEF coordVars, envVars, sessionVars
<1> DEFINE j == Head(chan)
           q == held[at]
<1>1. /\ pc = "refill" /\ pc' \in {"refill", "watch"} /\ at \in Nonce /\ seed' = seed
      /\ halt = "idle" /\ carry = None
  BY BatchBounds
     DEF RefillPull, HasRoom, Launched, RefillStale, RefillRefused, RefillAdmit, RefillUploadFails,
         RefillMismatch, Shape, Session, Pumping, TypeOK
<1>2. /\ j \in Job /\ j \in Jobs(chan) /\ Distinct(chan') /\ UNCHANGED unsent
      /\ \A k : k \in Jobs(chan)' <=> k \in Jobs(chan) /\ k # j
  BY PulledJob DEF RefillPull
<1>3. \/ (Answer(j, "rejected") \/ Answer(j, "cancelled")) /\ UNCHANGED <<held, carry>>
      \/ held' = [held EXCEPT ![at] = Append(q, j)] /\ UNCHANGED <<out, carry>>
      \/ carry' = j /\ UNCHANGED <<held, out>>
  BY DEF RefillPull, RefillStale, RefillRefused, RefillAdmit, RefillUploadFails, RefillMismatch
<1>4. Waiting = {} /\ Waiting' = {}
  BY <1>1, WaitingFrame
<1>5. q \in Seq(Job) /\ Distinct(q) /\ HeldDistinct
  BY <1>1 DEF TypeOK, NoDoubles, HeldDistinct
<1> HIDE DEF j, q
<1>6. j \notin HeldJobs /\ seed # j
  BY <1>2 DEF AllPlaced, Placed, ExactlyOne
<1>7. CASE UNCHANGED held
  <2>1. HeldJobs' = HeldJobs /\ HeldDistinct'
    BY <1>5, <1>7, HeldFrame
  <2>2. \/ (\A k \in Job : out'[k] # None <=> out[k] # None \/ k = j) /\ carry' = carry
        \/ out' = out /\ carry' = j
        \/ out' = out /\ carry' = carry /\ held' = [held EXCEPT ![at] = Append(q, j)]
    BY <1>2, <1>3, AnsweredJob DEF Result
  <2>3. held' # [held EXCEPT ![at] = Append(q, j)]
    <3>1. Append(q, j) # q
      BY <1>2, <1>5, Pushed
    <3>2. QED
      BY <1>1, <1>7, <3>1 DEF TypeOK, q
  <2>4. AllPlaced'
    BY <1>1, <1>2, <1>4, <2>1, <2>2, <2>3, Assumption DEF AllPlaced, Placed, ExactlyOne
  <2>5. QED
    BY <1>1, <1>2, <2>1, <2>4 DEF NoDoubles
<1>8. CASE held' = [held EXCEPT ![at] = Append(q, j)] /\ UNCHANGED <<out, carry>>
  <2>1. /\ Append(q, j) \in Seq(Job) /\ Distinct(Append(q, j))
        /\ \A k : k \in Jobs(Append(q, j)) <=> k \in Jobs(held[at]) \/ k = j
    <3>1. j \notin Jobs(q)
      BY <1>1, <1>6, HeldBy DEF q
    <3>2. QED
      BY <1>2, <1>5, <3>1, Pushed DEF q
  <2>2. HeldDistinct' /\ \A k : k \in HeldJobs' <=> k \in HeldJobs \/ k = j
    BY <1>1, <1>2, <1>5, <1>6, <1>8, <2>1, HeldTakes
  <2>3. AllPlaced'
    BY <1>1, <1>2, <1>4, <1>8, <2>2, Assumption DEF AllPlaced, Placed, ExactlyOne
  <2>4. QED
    BY <1>1, <1>2, <2>2, <2>3 DEF NoDoubles
<1>9. QED
  BY <1>3, <1>7, <1>8

LEMMA ScanPlaced ==
    ASSUME TypeOK, Shape, NoDoubles, AllPlaced, ScanEmit
    PROVE  NoDoubles' /\ AllPlaced'
<1> USE DEF coordVars, envVars, sessionVars
<1> DEFINE j == Head(held[at])
<1>1. /\ pc = "scan" /\ pc' \in {"scan", "top"} /\ UNCHANGED <<unsent, chan, seed, carry>>
      /\ at \in Nonce /\ held[at] # <<>> /\ held' = [held EXCEPT ![at] = Tail(held[at])]
      /\ Answer(j, "sampled") \/ Answer(j, "rejected")
  BY ScanTypes DEF ScanEmit, ScanNext, SeenComplete
<1>2. /\ j \in Job /\ j \in HeldJobs /\ HeldDistinct'
      /\ \A k : k \in HeldJobs' <=> k \in HeldJobs /\ k # j
  BY <1>1, HeldGives DEF NoDoubles
<1> HIDE DEF j
<1>3. \A k \in Job : out'[k] # None <=> out[k] # None \/ k = j
  BY <1>1, <1>2, AnsweredJob DEF Result
<1>4. Waiting = {} /\ Waiting' = {}
  BY <1>1, WaitingFrame
<1>5. AllPlaced'
  BY <1>1, <1>2, <1>3, <1>4, ChannelFrame DEF AllPlaced, Placed, ExactlyOne
<1>6. QED
  BY <1>1, <1>2, <1>5, ChannelFrame DEF NoDoubles

LEMMA EnvironmentPlaced ==
    ASSUME TypeOK, NoDoubles, AllPlaced, Environment \/ UNCHANGED vars
    PROVE  NoDoubles' /\ AllPlaced'
<1> USE DEF coordVars, envVars, sessionVars
<1>1. UNCHANGED <<out, pc, at, seed, cold, held, carry>>
  BY EnvironmentFrame DEF vars
<1>2. Waiting' = Waiting /\ (pc \in {"cold", "upload"} => Distinct(cold))'
  BY <1>1 DEF Waiting, NoDoubles, Distinct
<1>3. ASSUME NEW j \in Job, Send(j) PROVE NoDoubles' /\ AllPlaced'
  <2>1. j \in unsent /\ unsent' = unsent \ {j} /\ chan' = Append(chan, j) /\ chan \in Seq(Job)
    BY <1>3 DEF Send, TypeOK
  <2>2. j \notin Jobs(chan)
    BY <2>1 DEF AllPlaced, Placed, ExactlyOne
  <2>3. Distinct(chan') /\ \A k : k \in Jobs(chan') <=> k \in Jobs(chan) \/ k = j
    BY <2>1, <2>2, Pushed DEF NoDoubles
  <2>4. Jobs(chan)' = Jobs(chan')
    BY DEF Jobs
  <2>5. HeldJobs' = HeldJobs /\ HeldDistinct'
    BY <1>1, HeldFrame DEF NoDoubles
  <2>6. AllPlaced'
    BY <1>1, <1>2, <2>1, <2>3, <2>4, <2>5 DEF AllPlaced, Placed, ExactlyOne
  <2>7. QED
    BY <1>2, <2>3, <2>5, <2>6 DEF NoDoubles
<1>4. CASE UNCHANGED <<unsent, chan>>
  BY <1>1, <1>2, <1>4, NothingMoves
<1>5. QED
  BY <1>3, <1>4
     DEF Environment, Complete, Close, Cancel, DropOutput, ContentionBegins, ContentionEnds, vars

LEMMA PlacedStep ==
    ASSUME TypeOK, Shape, NoDoubles, AllPlaced, [Next]_vars
    PROVE  NoDoubles' /\ AllPlaced'
<1>1. CASE Driver
  BY <1>1, QuietPlaced, SeedPlaced, ColdPlaced, GivenUpPlaced, RefillPlaced, ScanPlaced DEF Driver
<1>2. CASE Failure
  BY <1>2, SeedPlaced, ColdPlaced, GivenUpPlaced DEF Failure
<1>3. QED
  BY <1>1, <1>2, EnvironmentPlaced DEF Next

-----------------------------------------------------------------------------
(***************************************************************************)
(* What the driver promises                                                *)
(***************************************************************************)
\* The driver's invariant: at each stage it has in its hands what that stage is
\* for, what is in a session's hands fits it, and every job is in one place.
THEOREM DriverSafe == Spec => []DriverInv
<1>1. Init => DriverInv
  BY InitTypes, InitShape, InitFitting, InitPlaced, InitEnding DEF DriverInv
<1>2. DriverInv /\ [Next]_vars => DriverInv'
  BY TypeStep, ShapeStep, FittingStep, PlacedStep, EndingStep DEF DriverInv
<1>3. QED
  BY <1>1, <1>2, PTL DEF Spec

\* Exactly one of the places of EveryJobInOnePlace names the job.
LEMMA OnePlace ==
    ASSUME NEW j \in Job, Placed(j)
    PROVE  Cardinality(Places(j)) = 1
<1>1. \E p : Places(j) = {p}
  <2> USE DEF Placed, ExactlyOne
  <2>1. CASE j \in unsent
    <3>1. Places(j) = {"unsent"}
      BY <2>1 DEF Places
    <3>2. QED
      BY <3>1
  <2>2. CASE j \in Jobs(chan)
    <3>1. Places(j) = {"chan"}
      BY <2>2 DEF Places
    <3>2. QED
      BY <3>1
  <2>3. CASE j = seed
    <3>1. Places(j) = {"seed"}
      BY <2>3 DEF Places
    <3>2. QED
      BY <3>1
  <2>4. CASE j = carry
    <3>1. Places(j) = {"carry"}
      BY <2>4 DEF Places
    <3>2. QED
      BY <3>1
  <2>5. CASE j \in Waiting
    <3>1. Places(j) = {"cold"}
      BY <2>5 DEF Places
    <3>2. QED
      BY <3>1
  <2>6. CASE j \in HeldJobs
    <3>1. Places(j) = {"held"}
      BY <2>6 DEF Places
    <3>2. QED
      BY <3>1
  <2>7. CASE out[j] # None
    <3>1. Places(j) = {"out"}
      BY <2>7 DEF Places
    <3>2. QED
      BY <3>1
  <2>8. QED
    BY <2>1, <2>2, <2>3, <2>4, <2>5, <2>6, <2>7
<1>2. QED
  BY <1>1, FS_Singleton

\* No job is lost or doubled on its way from the channel to its result, and a
\* session's slots only ever hold jobs with the key of its seed, whatever is
\* pulled, carried over, refused, abandoned or given up.
THEOREM JobsStayPlaced == Spec => []JobsPlaced
<1>1. DriverInv => JobsPlaced
  <2> SUFFICES ASSUME DriverInv PROVE JobsPlaced
    OBVIOUS
  <2>1. \A j \in Job : Cardinality(Places(j)) = 1
    BY OnePlace DEF DriverInv, AllPlaced
  <2>2. ASSUME NEW n \in Nonce, NEW m \in Nonce, NEW i \in DOMAIN held[n], NEW k \in DOMAIN held[m],
               held[n][i] = held[m][k]
        PROVE  n = m /\ i = k
    <3>1. i \in 1..Len(held[n]) /\ k \in 1..Len(held[m])
      BY DEF DriverInv, TypeOK
    <3>2. held[n][i] \in Jobs(held[n]) /\ held[m][k] \in Jobs(held[m])
      BY <2>2 DEF Jobs
    <3>3. n = m
      BY <2>2, <3>2 DEF DriverInv, NoDoubles, HeldDistinct
    <3>4. QED
      BY <2>2, <3>1, <3>3 DEF DriverInv, NoDoubles, HeldDistinct, Distinct
  <2>3. QED
    BY <2>1, <2>2 DEF JobsPlaced, EveryJobInOnePlace, DriverInv, Fitting
<1>2. QED
  BY <1>1, DriverSafe, PTL

\* run_stream returns to a listening consumer only when the channel is closed
\* and every job that was sent has been answered.
THEOREM ReturnsOnlyWhenAnswered == Spec => []ReturnsWhenAnswered
<1>1. DriverInv => ReturnsWhenAnswered
  <2> SUFFICES ASSUME DriverInv, pc = "done", outOpen, NEW j \in Job \ unsent
               PROVE  closed /\ out[j] \notin {None, "lost"}
    <3>1. ASSUME DriverInv, pc = "done", outOpen PROVE closed
      BY <3>1 DEF DriverInv, Ending, NoMoreJobs
    <3>2. QED
      BY <3>1 DEF ReturnsWhenAnswered
  <2>1. closed /\ chan = <<>> /\ out[j] # "lost"
    BY DEF DriverInv, Ending, NoMoreJobs
  <2>2. seed = None /\ carry = None /\ AllVacant /\ Waiting = {}
    BY WaitingFrame DEF DriverInv, Shape, Session, Pumping
  <2>3. Jobs(chan) = {} /\ HeldJobs = {}
    BY <2>1, <2>2, EmptyQueue, VacantHolds
  <2>4. Placed(j) /\ j # None
    BY Assumption DEF DriverInv, AllPlaced
  <2>5. QED
    BY <2>1, <2>2, <2>3, <2>4 DEF Placed, ExactlyOne
<1>2. QED
  BY <1>1, DriverSafe, PTL

-----------------------------------------------------------------------------
(***************************************************************************)
(* The driver keeps to the queues a session implements                     *)
(***************************************************************************)
\* What SlotQueue sees of the jobs and of their answers.
QueueUnseen == {j \in Job : out[j] = None /\ j \notin HeldJobs}
QueueOut    == [j \in Job |-> IF out[j] = None THEN None
                              ELSE IF out[j] = "sampled" THEN j ELSE Refused]

LEMMA QueueActions ==
    /\ \A n \in Nonce, j \in Job : Queue!Enqueue(n, j) => Queue!Next
    /\ \A n \in Nonce : Queue!Answer(n) => Queue!Next
    /\ \A j \in Job : Queue!Refuse(j) => Queue!Next
    /\ Queue!GiveUp => Queue!Next
BY DEF Queue!Next, Queue!Nonce, Nonce

\* A job the driver queues was not queued, nor answered, before.
LEMMA QueueEnqueues ==
    ASSUME DriverInv, NEW n \in Nonce, NEW j \in Job, out[j] = None, j \notin HeldJobs,
           Len(held[n]) < Depth, held' = [held EXCEPT ![n] = Append(held[n], j)], UNCHANGED out,
           \A k : k \in HeldJobs' <=> k \in HeldJobs \/ k = j
    PROVE  Queue!Enqueue(n, j)
<1>1. j \in QueueUnseen /\ QueueUnseen' = QueueUnseen \ {j}
  BY DEF QueueUnseen
<1>2. QueueOut' = QueueOut
  BY DEF QueueOut
<1>3. QED
  BY <1>1, <1>2 DEF Queue!Enqueue, Queue!Depth, Depth, QueueUnseen, QueueOut

\* An answer to a job that is in no queue refuses it.
LEMMA QueueRefuses ==
    ASSUME DriverInv, NEW j \in Job, out[j] = None, j \notin HeldJobs, UNCHANGED held,
           NEW r \in Result \ {"sampled"}, Answer(j, r)
    PROVE  Queue!Refuse(j)
<1>1. /\ out \in [Job -> Result \cup {None}] /\ out'[j] # None /\ out'[j] # "sampled"
      /\ \A k \in Job : k # j => out'[k] = out[k]
  BY Assumption DEF DriverInv, TypeOK, Answer, Result
<1>2. HeldJobs' = HeldJobs
  BY HeldFrame
<1>3. j \in QueueUnseen /\ QueueUnseen' = QueueUnseen \ {j}
  BY <1>1, <1>2 DEF QueueUnseen
<1>4. QueueOut' = [QueueOut EXCEPT ![j] = Refused]
  BY <1>1 DEF QueueOut
<1>5. QED
  BY <1>3, <1>4 DEF Queue!Refuse, QueueUnseen, QueueOut

LEMMA QueueAnswers ==
    ASSUME DriverInv, ScanEmit
    PROVE  Queue!Next
<1> USE DEF coordVars, envVars, sessionVars
<1> DEFINE j == Head(held[at])
<1>1. /\ at \in Nonce /\ held[at] # <<>> /\ held' = [held EXCEPT ![at] = Tail(held[at])]
      /\ Answer(j, "sampled") \/ Answer(j, "rejected")
  BY ScanTypes DEF ScanEmit, SeenComplete, DriverInv
<1>2. j \in Job /\ j \in HeldJobs /\ \A k : k \in HeldJobs' <=> k \in HeldJobs /\ k # j
  BY <1>1, HeldGives DEF DriverInv, NoDoubles
<1> HIDE DEF j
<1>3. /\ out \in [Job -> Result \cup {None}] /\ out'[j] # None
      /\ \A k \in Job : k # j => out'[k] = out[k]
  BY <1>1, <1>2, Assumption DEF DriverInv, TypeOK, Answer, Result
<1>4. QueueUnseen' = QueueUnseen
  BY <1>2, <1>3 DEF QueueUnseen
<1>5. \E a \in {j, Refused} : QueueOut' = [QueueOut EXCEPT ![j] = a]
  <2>1. CASE out'[j] = "sampled"
    <3>1. QueueOut' = [QueueOut EXCEPT ![j] = j]
      BY <1>2, <1>3, <2>1 DEF QueueOut
    <3>2. QED
      BY <3>1
  <2>2. CASE out'[j] # "sampled"
    <3>1. QueueOut' = [QueueOut EXCEPT ![j] = Refused]
      BY <1>2, <1>3, <2>2 DEF QueueOut
    <3>2. QED
      BY <3>1
  <2>3. QED
    BY <2>1, <2>2
<1>6. QED
  BY <1>1, <1>4, <1>5 DEF Queue!Next, Queue!Answer, Queue!Nonce, Nonce, QueueUnseen, QueueOut, j

LEMMA QueueGivesUp ==
    ASSUME DriverInv, RejectHeld \/ CancelHeld
    PROVE  Queue!GiveUp
<1>1. PICK r \in [Job -> Result \ {"lost", "sampled"}] : AnswerHeld(r)
  BY DEF RejectHeld, CancelHeld, AsAbandoned, Result
<1>2. /\ held' = [n \in Nonce |-> <<>>] /\ HeldJobs' = {}
      /\ \A k \in Job : IF k \in HeldJobs THEN out'[k] \in {r[k], "lost"} ELSE out'[k] = out[k]
  BY <1>1, GivenUp, VacantHolds DEF AnswerHeld
<1>3. \A k \in Job : /\ k \in HeldJobs => out'[k] # None /\ out'[k] # "sampled"
                     /\ k \in HeldJobs => out[k] = None
  BY <1>2, Assumption DEF Result, DriverInv, AllPlaced, Placed, ExactlyOne
<1>4. QueueUnseen' = QueueUnseen
  BY <1>2, <1>3 DEF QueueUnseen
<1>5. \A k \in Job : k \in HeldJobs <=> \E n \in Nonce : \E i \in 1..Len(held[n]) : held[n][i] = k
  BY HeldBy, JobsOf DEF DriverInv, TypeOK
<1>6. QueueOut' = [k \in Job |-> IF \E n \in Nonce : \E i \in 1..Len(held[n]) : held[n][i] = k
                                 THEN Refused ELSE QueueOut[k]]
  BY <1>2, <1>3, <1>5 DEF QueueOut
<1>7. QED
  BY <1>2, <1>4, <1>6 DEF Queue!GiveUp, Queue!Queued, Queue!Nonce, Nonce, QueueUnseen, QueueOut

LEMMA QueueStutters ==
    ASSUME UNCHANGED <<held, out>>
    PROVE  UNCHANGED Queue!vars
<1>1. HeldJobs' = HeldJobs
  BY HeldFrame
<1>2. QED
  BY <1>1 DEF Queue!vars

LEMMA DriverQueueStep ==
    ASSUME DriverInv, [Next]_vars
    PROVE  [Queue!Next]_(Queue!vars)
<1> USE DEF coordVars, envVars, sessionVars
<1>0. /\ {"trivial", "cancelled", "rejected"} \subseteq Result \ {"sampled"}
      /\ TypeOK /\ Shape /\ NoDoubles /\ AllPlaced
  BY DEF Result, DriverInv
<1>1. CASE SeedRefused \/ SeedAnswered \/ BuildFails
  <2>1. seed \in Job /\ UNCHANGED held
    BY <1>0, <1>1 DEF SeedRefused, SeedAnswered, BuildFails, Shape, TypeOK
  <2>2. Answer(seed, "rejected") \/ Answer(seed, "trivial") \/ Answer(seed, "cancelled")
    BY <1>1 DEF SeedRefused, SeedAnswered, BuildFails
  <2>3. out[seed] = None /\ seed \notin HeldJobs
    BY <1>0, <2>1 DEF AllPlaced, Placed, ExactlyOne
  <2>4. QED
    BY <1>0, <2>1, <2>2, <2>3, QueueRefuses, QueueActions
<1>2. CASE UNCHANGED <<held, out>>
  BY <1>2, QueueStutters
<1>3. CASE ColdPull \/ RefillPull
  <2> DEFINE j == Head(chan)
  <2>1. j \in Job /\ j \in Jobs(chan)
    BY <1>0, <1>3, PulledJob DEF ColdPull, RefillPull
  <2>2. \/ (Answer(j, "rejected") \/ Answer(j, "cancelled")) /\ UNCHANGED held
        \/ UNCHANGED <<held, out>>
        \/ RefillPull /\ RefillAdmit(j)
    BY <1>3 DEF ColdPull, RefillPull, RefillStale, RefillRefused, RefillUploadFails, RefillMismatch
  <2> HIDE DEF j
  <2>3. out[j] = None /\ j \notin HeldJobs
    BY <1>0, <2>1 DEF AllPlaced, Placed, ExactlyOne
  <2>4. CASE RefillPull /\ RefillAdmit(j)
    <3>1. /\ at \in Nonce /\ Len(held[at]) < Depth /\ UNCHANGED out
          /\ held' = [held EXCEPT ![at] = Append(held[at], j)]
      BY <1>0, <2>4, BatchBounds DEF RefillPull, RefillAdmit, HasRoom, Launched
    <3>2. held[at] \in Seq(Job) /\ Distinct(held[at]) /\ HeldDistinct /\ j \notin Jobs(held[at])
      BY <1>0, <2>3, <3>1, HeldBy DEF TypeOK, NoDoubles, HeldDistinct
    <3>3. /\ Append(held[at], j) \in Seq(Job) /\ Distinct(Append(held[at], j))
          /\ \A k : k \in Jobs(Append(held[at], j)) <=> k \in Jobs(held[at]) \/ k = j
      BY <2>1, <3>2, Pushed
    <3>4. \A k : k \in HeldJobs' <=> k \in HeldJobs \/ k = j
      BY <1>0, <2>1, <2>3, <3>1, <3>2, <3>3, HeldTakes
    <3>5. QED
      BY <2>1, <2>3, <3>1, <3>4, QueueEnqueues, QueueActions
  <2>5. QED
    BY <1>0, <1>2, <2>1, <2>2, <2>3, <2>4, QueueRefuses, QueueActions
<1>4. CASE Upload \/ UploadFails
  <2> DEFINE j == cold[at]
  <2>1. j \in Job /\ j \in Waiting
    BY <1>0, <1>4, WaitingGives DEF Upload, UploadFails
  <2>2. out[j] = None /\ j \notin HeldJobs /\ at \in Nonce /\ held[at] = <<>>
    BY <1>0, <1>4, <2>1, BatchBounds
       DEF Upload, UploadFails, Shape, TypeOK, AllPlaced, Placed, ExactlyOne
  <2>3. CASE UploadFails
    BY <1>0, <2>1, <2>2, <2>3, QueueRefuses, QueueActions DEF UploadFails
  <2>4. CASE Upload
    <3>1. held' = [held EXCEPT ![at] = <<j>>] /\ out' = out
      BY <2>4 DEF Upload
    <3> HIDE DEF j
    <3>2. /\ <<j>> \in Seq(Job) /\ Distinct(<<j>>) /\ HeldDistinct
          /\ \A k : k \in Jobs(<<j>>) <=> k \in Jobs(held[at]) \/ k = j
      BY <1>0, <2>1, <2>2, SingleQueue, EmptyQueue DEF NoDoubles
    <3>3. \A k : k \in HeldJobs' <=> k \in HeldJobs \/ k = j
      BY <1>0, <2>1, <2>2, <3>1, <3>2, HeldTakes
    <3>4. Append(held[at], j) = <<j>> /\ Len(held[at]) < Depth
      BY <2>1, <2>2, EmptyQueue DEF Depth
    <3>5. QED
      BY <2>1, <2>2, <3>1, <3>3, <3>4, QueueEnqueues, QueueActions
  <2>5. QED
    BY <1>4, <2>3, <2>4
<1>5. CASE ScanEmit
  BY <1>5, QueueAnswers
<1>6. CASE LaunchFails \/ AbortDone \/ AbortFails \/ Stall
  BY <1>6, QueueGivesUp, QueueActions DEF LaunchFails, AbortDone, AbortFails, Stall
<1>7. CASE Driver
  BY <1>1, <1>2, <1>3, <1>4, <1>5, <1>6, <1>7
     DEF Driver, Recv, RecvEnds, SeedAccepted, Build, ColdEnds, Launch, Top, RefillMoves,
         SessionEnds, Poll, ScanIdle, Yield, NextSeed
<1>8. CASE Failure
  BY <1>1, <1>4, <1>6, <1>8 DEF Failure
<1>9. CASE Environment \/ UNCHANGED vars
  BY <1>2, <1>9, EnvironmentFrame DEF vars
<1>10. QED
  BY <1>7, <1>8, <1>9 DEF Next

\* Across sessions, mismatches, aborts and failures the driver uses the slots
\* as the queues SelfFeeding implements: it never queues a third job, nor one
\* it has answered, and answers in order.
THEOREM DriverKeepsToQueue == Spec => ImplementsSlotQueue
<1>1. Init => Queue!Init
  <2> SUFFICES ASSUME Init PROVE Queue!Init
    OBVIOUS
  <2>1. HeldJobs = {}
    BY VacantHolds DEF Init, AllVacant
  <2>2. \A j \in Job : out[j] = None
    BY DEF Init
  <2>3. QED
    BY <2>1, <2>2 DEF Init, Queue!Init, Queue!Nonce, Nonce
<1>2. DriverInv /\ [Next]_vars => [Queue!Next]_(Queue!vars)
  BY DriverQueueStep
<1>3. QED
  BY <1>1, <1>2, DriverSafe, PTL DEF Spec, ImplementsSlotQueue, Queue!Spec
=============================================================================
