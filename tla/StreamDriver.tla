----------------------------- MODULE StreamDriver -----------------------------
(***************************************************************************)
(* run_stream (src/src/streaming.rs): the driver that takes jobs from the  *)
(* coordinator's channel, runs them on one self-feeding session after      *)
(* another, and owes the coordinator one StreamResult per job.             *)
(*                                                                         *)
(* The coordinator sends jobs, abandons generations (CancelToken), closes  *)
(* the job channel or drops the result channel, and the governor reports   *)
(* contention, all at any moment.  What happens inside a session, below    *)
(* "this slot is COMPLETE", is SelfFeeding's subject; here it is the       *)
(* two-deep queues of SlotQueue and a device that finishes their jobs.     *)
(***************************************************************************)
EXTENDS Integers, Sequences, FiniteSets

CONSTANTS
    Width,      \* stream_width
    Job, None,
    Gen,        \* StreamJob.watermark of each job
    Key,        \* the SessionKey each job needs, or why it needs none:
    Refused,    \*   no path holds it (plan_for is Err),
    EmptyGraph, \*   its graph has no nodes
    MaxFaults   \* bound: device calls that fail in one behaviour

MaxGen == CHOOSE g \in {Gen[j] : j \in Job} : \A j \in Job : Gen[j] <= g

Result == {"sampled", "trivial", "cancelled", "rejected", "lost"}

ASSUME Assumption ==
    /\ Width \in Nat \ {0}
    /\ None \notin Job \cup Result
    /\ Gen \in [Job -> Nat \ {0}]
    /\ DOMAIN Key = Job
    /\ MaxFaults \in Nat

Nonce == 1..Width
Depth == 2          \* ACTIVE and NEXT

VARIABLES
    unsent, chan, closed,   \* the job channel and its sender
    cut,                    \* CancelToken: generations up to it are abandoned
    outOpen, out,           \* the result channel, and each job's StreamResult
    busy,                   \* UtilGovernor.should_throttle
    pc, at,                 \* where the driver is, and the nonce its loop reached
    seed,                   \* the received job that is to seed a session
    lead,                   \* the seed of the session being built or running
    cold,                   \* the cold-start batch
    held,                   \* SlotState of each nonce, ACTIVE first
    complete, snap,         \* jobs whose slot is COMPLETE; as last polled
    halt, carry,            \* Halt, and the job a Mismatch carries
    exhausted, faults

coordVars   == <<unsent, chan, closed>>
envVars     == <<cut, outOpen, busy>>
sessionVars == <<lead, cold, held, complete, snap, halt, carry, exhausted>>
vars == <<coordVars, envVars, out, pc, at, seed, sessionVars, faults>>

Pc == {"recv", "seed", "build", "cold", "upload", "launch", "top", "abort",
       "refill", "watch", "scan", "yield", "next", "done"}

Jobs(q) == {q[i] : i \in DOMAIN q}
HeldJobs == UNION {Jobs(held[n]) : n \in Nonce}
AllVacant == \A n \in Nonce : held[n] = <<>>

Stale(j) == Gen[j] <= cut
Fits(j)  == Key[j] = Key[lead]

TypeOK ==
    /\ unsent \subseteq Job /\ chan \in Seq(Job) /\ closed \in BOOLEAN
    /\ cut \in Nat /\ outOpen \in BOOLEAN /\ busy \in BOOLEAN
    /\ out \in [Job -> Result \cup {None}]
    /\ pc \in Pc /\ at \in 1..(Width + 1)
    /\ seed \in Job \cup {None} /\ lead \in Job \cup {None} /\ carry \in Job \cup {None}
    /\ cold \in Seq(Job) /\ Len(cold) <= Width
    /\ held \in [Nonce -> Seq(Job)] /\ \A n \in Nonce : Len(held[n]) <= Depth
    /\ complete \subseteq Job /\ snap \subseteq Job
    /\ halt \in {"idle", "closed", "mismatch"}
    /\ exhausted \in BOOLEAN /\ faults \in 0..MaxFaults

-----------------------------------------------------------------------------
(***************************************************************************)
(* The coordinator, the consumer, the governor and the device              *)
(***************************************************************************)
Send(j) ==
    /\ ~closed /\ j \in unsent
    /\ chan' = Append(chan, j)
    /\ unsent' = unsent \ {j}
    /\ UNCHANGED <<closed, envVars, out, pc, at, seed, sessionVars, faults>>

Close ==
    /\ ~closed /\ closed' = TRUE
    /\ UNCHANGED <<unsent, chan, envVars, out, pc, at, seed, sessionVars, faults>>

\* CancelToken::cancel_through: the watermark only rises.
Cancel ==
    /\ cut < MaxGen
    /\ cut' \in (cut + 1)..MaxGen
    /\ UNCHANGED <<coordVars, outOpen, busy, out, pc, at, seed, sessionVars, faults>>

DropOutput ==
    /\ outOpen /\ outOpen' = FALSE
    /\ UNCHANGED <<coordVars, cut, busy, out, pc, at, seed, sessionVars, faults>>

ContentionBegins ==
    /\ ~busy /\ busy' = TRUE
    /\ UNCHANGED <<coordVars, cut, outOpen, out, pc, at, seed, sessionVars, faults>>

ContentionEnds ==
    /\ busy /\ busy' = FALSE
    /\ UNCHANGED <<coordVars, cut, outOpen, out, pc, at, seed, sessionVars, faults>>

\* A block publishes one of the session's jobs: not always the oldest, as it
\* scans for READY from slot 0.
Complete(j) ==
    /\ pc \in {"top", "refill", "watch", "scan"}
    /\ j \in HeldJobs \ complete
    /\ complete' = complete \cup {j}
    /\ UNCHANGED <<coordVars, envVars, out, pc, at, seed, lead, cold, held, snap,
                   halt, carry, exhausted, faults>>

-----------------------------------------------------------------------------
(***************************************************************************)
(* One StreamResult per job; a send fails only when the consumer is gone   *)
(***************************************************************************)
Answer(j, r) == out' = [out EXCEPT ![j] = IF outOpen THEN r ELSE "lost"]

\* reject_held, and cancel_held after an abort.
AnswerHeld(r) ==
    /\ out' = [j \in Job |-> IF j \in HeldJobs
                             THEN IF outOpen THEN r[j] ELSE "lost"
                             ELSE out[j]]
    /\ held' = [n \in Nonce |-> <<>>]

\* Bug: whatever an abort releases is refunded as Cancelled.
AlwaysCancelled(j) == "cancelled"
AsAbandoned(j) == IF Stale(j) THEN "cancelled" ELSE "rejected"

RejectHeld == AnswerHeld([j \in Job |-> "rejected"])
CancelHeld == AnswerHeld([j \in Job |-> AsAbandoned(j)])

Fault == /\ faults < MaxFaults
         /\ faults' = faults + 1

NoMoreJobs == chan = <<>> /\ closed
PullHead   == chan' = Tail(chan) /\ UNCHANGED <<unsent, closed>>
Arrived    == chan # <<>>

-----------------------------------------------------------------------------
(***************************************************************************)
(* run_stream and run_session up to the launch                             *)
(***************************************************************************)
Recv ==
    /\ pc = "recv" /\ Arrived
    /\ PullHead
    /\ seed' = Head(chan) /\ pc' = "seed"
    /\ UNCHANGED <<envVars, out, at, sessionVars, faults>>

RecvEnds ==
    /\ pc = "recv" /\ NoMoreJobs
    /\ pc' = "done"
    /\ UNCHANGED <<coordVars, envVars, out, at, seed, sessionVars, faults>>

\* SessionKey::seed refuses the job: Capacity.
SeedRefused ==
    /\ pc = "seed" /\ Key[seed] = Refused
    /\ Answer(seed, "rejected")
    /\ seed' = None /\ pc' = "recv"
    /\ UNCHANGED <<coordVars, envVars, at, sessionVars, faults>>

\* answer_empty_graph, or emit_cancelled of a stale seed: both end the stream
\* when the result channel has closed.
SeedAnswered ==
    /\ pc = "seed" /\ Key[seed] # Refused
    /\ \/ Key[seed] = EmptyGraph /\ Answer(seed, "trivial")
       \/ Key[seed] # EmptyGraph /\ Stale(seed) /\ Answer(seed, "cancelled")
    /\ seed' = None
    /\ pc' = IF outOpen THEN "recv" ELSE "done"
    /\ UNCHANGED <<coordVars, envVars, at, sessionVars, faults>>

SeedAccepted ==
    /\ pc = "seed" /\ Key[seed] \notin {Refused, EmptyGraph} /\ ~Stale(seed)
    /\ lead' = seed /\ pc' = "build"
    /\ UNCHANGED <<coordVars, envVars, out, at, seed, cold, held, complete, snap,
                   halt, carry, exhausted, faults>>

\* SelfFeedingSession::build and upload_beta_schedule.
Build ==
    /\ pc = "build"
    /\ cold' = <<seed>> /\ seed' = None
    /\ halt' = "idle" /\ at' = 1 /\ pc' = "cold"
    /\ UNCHANGED <<coordVars, envVars, out, lead, held, complete, snap, carry, exhausted, faults>>

BuildFails ==
    /\ pc = "build" /\ Fault
    /\ Answer(seed, "rejected")
    /\ seed' = None /\ pc' = "recv"
    /\ UNCHANGED <<coordVars, envVars, at, sessionVars>>

\* drain_cold_start: one try_pull.
ColdPull ==
    /\ pc = "cold" /\ Len(cold) < Width /\ Arrived
    /\ PullHead
    /\ LET j == Head(chan) IN
        \/ /\ Key[j] = Refused
           /\ Answer(j, "rejected")
           /\ UNCHANGED <<cold, halt, carry, pc>>
        \/ /\ Key[j] # Refused /\ Fits(j) /\ Stale(j)
           /\ Answer(j, "cancelled")
           /\ UNCHANGED <<cold, halt, carry, pc>>
        \/ /\ Key[j] # Refused /\ Fits(j) /\ ~Stale(j)
           /\ cold' = Append(cold, j)
           /\ UNCHANGED <<out, halt, carry, pc>>
        \/ /\ Key[j] # Refused /\ ~Fits(j)
           /\ carry' = j /\ halt' = "mismatch" /\ pc' = "upload"
           /\ UNCHANGED <<out, cold>>
    /\ UNCHANGED <<envVars, at, seed, lead, held, complete, snap, exhausted, faults>>

\* The batch is full, the hard cap or the idle timeout passed, or the channel
\* has closed.
ColdEnds ==
    /\ pc = "cold"
    /\ \/ UNCHANGED halt
       \/ Len(cold) < Width /\ NoMoreJobs /\ halt' = "closed"
    /\ pc' = "upload"
    /\ UNCHANGED <<coordVars, envVars, out, at, seed, lead, cold, held, complete, snap,
                   carry, exhausted, faults>>

Upload ==
    /\ pc = "upload" /\ at <= Len(cold)
    /\ held' = [held EXCEPT ![at] = <<cold[at]>>]
    /\ at' = at + 1
    /\ UNCHANGED <<coordVars, envVars, out, pc, seed, lead, cold, complete, snap,
                   halt, carry, exhausted, faults>>

UploadFails ==
    /\ pc = "upload" /\ at <= Len(cold) /\ Fault
    /\ Answer(cold[at], "rejected")
    /\ at' = at + 1
    /\ UNCHANGED <<coordVars, envVars, pc, seed, sessionVars>>

Launch ==
    /\ pc = "upload" /\ at = Len(cold) + 1
    /\ pc' = "top"
    /\ exhausted' = (halt # "idle")
    /\ complete' = {} /\ snap' = {}
    /\ UNCHANGED <<coordVars, envVars, out, at, seed, lead, cold, held, halt, carry, faults>>

\* reject_held, then next_seed without a pause for the governor.
LaunchFails ==
    /\ pc = "upload" /\ at = Len(cold) + 1 /\ Fault
    /\ RejectHeld
    /\ pc' = "next"
    /\ UNCHANGED <<coordVars, envVars, at, seed, lead, cold, complete, snap, halt, carry, exhausted>>

-----------------------------------------------------------------------------
(***************************************************************************)
(* pump_session                                                            *)
(***************************************************************************)
Launched == 1..Len(cold)

\* Some model is ACTIVE, and every ACTIVE one is of an abandoned generation.
AbortDue ==
    /\ \E n \in Launched : held[n] # <<>>
    /\ \A n \in Launched : held[n] # <<>> => Stale(Head(held[n]))

Top ==
    /\ pc = "top"
    /\ exhausted' = (exhausted \/ busy)
    /\ pc' = IF AbortDue THEN "abort" ELSE IF exhausted' THEN "watch" ELSE "refill"
    /\ at' = 1
    /\ UNCHANGED <<coordVars, envVars, out, seed, lead, cold, held, complete, snap, halt, carry, faults>>

\* abort_now, then cancel_held; the next generation may have been abandoned
\* meanwhile.
AbortDone ==
    /\ pc = "abort"
    /\ CancelHeld
    /\ pc' = "yield"
    /\ UNCHANGED <<coordVars, envVars, at, seed, lead, cold, complete, snap, halt, carry, exhausted, faults>>

AbortFails ==
    /\ pc = "abort" /\ Fault
    /\ RejectHeld
    /\ pc' = "yield"
    /\ UNCHANGED <<coordVars, envVars, at, seed, lead, cold, complete, snap, halt, carry, exhausted>>

HasRoom == at \in Launched /\ Len(held[at]) < Depth

\* refill_slots: one try_pull for a nonce with room.
RefillStale(j) ==
    /\ Key[j] # Refused /\ Fits(j) /\ Stale(j)
    /\ Answer(j, "cancelled")
    /\ IF outOpen
       THEN UNCHANGED <<halt, exhausted, pc>>
       ELSE halt' = "closed" /\ exhausted' = TRUE /\ pc' = "watch"
    /\ UNCHANGED <<held, carry, faults>>

RefillRefused(j) ==
    /\ Key[j] = Refused
    /\ Answer(j, "rejected")
    /\ UNCHANGED <<held, halt, carry, exhausted, pc, faults>>

\* Bug: the newcomer becomes ACTIVE.
RefillAdmitInFront(j) ==
    /\ Key[j] # Refused /\ Fits(j) /\ ~Stale(j)
    /\ held' = [held EXCEPT ![at] = <<j>> \o @]
    /\ UNCHANGED <<out, halt, carry, exhausted, pc, faults>>

RefillAdmit(j) ==
    /\ Key[j] # Refused /\ Fits(j) /\ ~Stale(j)
    /\ held' = [held EXCEPT ![at] = Append(@, j)]
    /\ UNCHANGED <<out, halt, carry, exhausted, pc, faults>>

RefillUploadFails(j) ==
    /\ Key[j] # Refused /\ Fits(j) /\ ~Stale(j) /\ Fault
    /\ Answer(j, "rejected")
    /\ UNCHANGED <<held, halt, carry, exhausted, pc>>

RefillMismatch(j) ==
    /\ Key[j] # Refused /\ ~Fits(j)
    /\ carry' = j /\ halt' = "mismatch" /\ exhausted' = TRUE /\ pc' = "watch"
    /\ UNCHANGED <<held, out, faults>>

RefillPull ==
    /\ pc = "refill" /\ HasRoom /\ Arrived
    /\ PullHead
    /\ LET j == Head(chan) IN
        \/ RefillStale(j) \/ RefillRefused(j) \/ RefillAdmit(j)
        \/ RefillUploadFails(j) \/ RefillMismatch(j)
    /\ UNCHANGED <<envVars, at, seed, lead, cold, complete, snap>>

\* Bug: an empty channel is taken for a closed one.
RefillTakesEmptyForClosed ==
    /\ pc = "refill"
    /\ \/ /\ HasRoom /\ chan = <<>>
          /\ halt' = "closed" /\ exhausted' = TRUE /\ pc' = "watch"
          /\ UNCHANGED at
       \/ /\ ~HasRoom
          /\ at' = at + 1
          /\ pc' = IF at = Len(cold) THEN "watch" ELSE "refill"
          /\ UNCHANGED <<halt, exhausted>>
    /\ UNCHANGED <<coordVars, envVars, out, seed, lead, cold, held, complete, snap, carry, faults>>

\* Bug: a closed channel is taken for an empty one.
RefillTakesClosedForEmpty ==
    /\ pc = "refill"
    /\ HasRoom => chan = <<>>
    /\ at' = at + 1
    /\ pc' = IF at = Len(cold) THEN "watch" ELSE "refill"
    /\ UNCHANGED <<coordVars, envVars, out, seed, lead, cold, held, complete, snap,
                   halt, carry, exhausted, faults>>

\* No room, or nothing queued for now: the next nonce.  A closed channel ends it.
RefillMoves ==
    /\ pc = "refill"
    /\ \/ /\ HasRoom /\ NoMoreJobs
          /\ halt' = "closed" /\ exhausted' = TRUE /\ pc' = "watch"
          /\ UNCHANGED at
       \/ /\ HasRoom => chan = <<>> /\ ~closed
          /\ at' = at + 1
          /\ pc' = IF at = Len(cold) THEN "watch" ELSE "refill"
          /\ UNCHANGED <<halt, exhausted>>
    /\ UNCHANGED <<coordVars, envVars, out, seed, lead, cold, held, complete, snap, carry, faults>>

\* Exhausted and empty; or empty for IDLE_TEARDOWN.
SessionEnds ==
    /\ pc = "watch" /\ AllVacant
    /\ pc' = "yield"
    /\ UNCHANGED <<coordVars, envVars, out, at, seed, sessionVars, faults>>

\* The stall watchdog, or an unreadable ctrl mailbox.
Stall ==
    /\ pc = "watch" /\ ~AllVacant
    /\ Fault
    /\ RejectHeld
    /\ pc' = "yield"
    /\ UNCHANGED <<coordVars, envVars, at, seed, lead, cold, complete, snap, halt, carry, exhausted>>

Poll ==
    /\ pc = "watch" /\ ~(exhausted /\ AllVacant)
    /\ snap' = complete
    /\ pc' = "scan" /\ at' = 1
    /\ UNCHANGED <<coordVars, envVars, out, seed, lead, cold, held, complete, halt, carry, exhausted, faults>>

ScanNext == /\ at' = at + 1
            /\ pc' = IF at = Len(cold) THEN "top" ELSE "scan"

SeenComplete == held[at] # <<>> /\ Head(held[at]) \in snap

ScanIdle ==
    /\ pc = "scan" /\ ~SeenComplete
    /\ ScanNext
    /\ UNCHANGED <<coordVars, envVars, out, seed, sessionVars, faults>>

ScanEmit ==
    /\ pc = "scan" /\ SeenComplete
    /\ \/ /\ Answer(Head(held[at]), "sampled")
          /\ exhausted' = (exhausted \/ ~outOpen)
          /\ UNCHANGED faults
       \/ /\ Fault                              \* download_slot is Err
          /\ Answer(Head(held[at]), "rejected")
          /\ UNCHANGED exhausted
    /\ held' = [held EXCEPT ![at] = Tail(@)]
    /\ ScanNext
    /\ UNCHANGED <<coordVars, envVars, seed, lead, cold, complete, snap, halt, carry>>

-----------------------------------------------------------------------------
(***************************************************************************)
(* Teardown, yield_after_session and next_seed                             *)
(***************************************************************************)
Finished == halt = "closed" \/ (halt # "mismatch" /\ NoMoreJobs)

Yield ==
    /\ pc = "yield"
    /\ ~busy \/ Finished \/ Stale(lead)
    /\ pc' = "next"
    /\ UNCHANGED <<coordVars, envVars, out, at, seed, sessionVars, faults>>

\* Bug: the job that ended the session does not seed the next one.
NextSeedDropsCarry ==
    /\ pc = "next"
    /\ pc' = IF halt = "closed" THEN "done" ELSE "recv"
    /\ carry' = None
    /\ cold' = <<>> /\ lead' = None
    /\ UNCHANGED <<coordVars, envVars, out, at, seed, held, complete, snap, halt, exhausted, faults>>

\* Bug: a session that ran out of jobs ends the stream.
NextSeedStops ==
    /\ pc = "next"
    /\ pc' = IF halt = "mismatch" THEN "seed" ELSE "done"
    /\ seed' = carry /\ carry' = None
    /\ cold' = <<>> /\ lead' = None
    /\ UNCHANGED <<coordVars, envVars, out, at, held, complete, snap, halt, exhausted, faults>>

NextSeed ==
    /\ pc = "next"
    /\ \/ halt = "mismatch" /\ seed' = carry /\ carry' = None /\ pc' = "seed"
       \/ halt = "closed" /\ pc' = "done" /\ UNCHANGED <<seed, carry>>
       \/ halt = "idle" /\ pc' = "recv" /\ UNCHANGED <<seed, carry>>
    /\ cold' = <<>> /\ lead' = None
    /\ UNCHANGED <<coordVars, envVars, out, at, held, complete, snap, halt, exhausted, faults>>

Driver ==
    \/ Recv \/ RecvEnds \/ SeedRefused \/ SeedAnswered \/ SeedAccepted \/ Build
    \/ ColdPull \/ ColdEnds \/ Upload \/ Launch
    \/ Top \/ AbortDone \/ RefillPull \/ RefillMoves
    \/ SessionEnds \/ Poll \/ ScanIdle \/ ScanEmit \/ Yield \/ NextSeed

Failure == BuildFails \/ UploadFails \/ LaunchFails \/ AbortFails \/ Stall

Environment == \/ \E j \in Job : Send(j) \/ Complete(j)
               \/ Close \/ Cancel \/ DropOutput
               \/ ContentionBegins \/ ContentionEnds

Init ==
    /\ unsent = Job /\ chan = <<>> /\ closed = FALSE
    /\ cut = 0 /\ outOpen = TRUE /\ busy = FALSE
    /\ out = [j \in Job |-> None]
    /\ pc = "recv" /\ at = 1
    /\ seed = None /\ lead = None /\ cold = <<>>
    /\ held = [n \in Nonce |-> <<>>]
    /\ complete = {} /\ snap = {}
    /\ halt = "idle" /\ carry = None
    /\ exhausted = FALSE /\ faults = 0

Next == Driver \/ Failure \/ Environment

Spec == Init /\ [][Next]_vars

\* The driver thread runs, the device finishes what it holds, and foreign
\* contention ends now and then, at a moment the 250 ms poll will catch.
Fairness == /\ WF_vars(Driver)
            /\ WF_vars(ContentionEnds)
            /\ SF_vars(Yield)
            /\ \A j \in Job : WF_vars(Complete(j))

FairSpec == Spec /\ Fairness

-----------------------------------------------------------------------------
(***************************************************************************)
(* Properties                                                              *)
(***************************************************************************)
\* Where a job can be: not sent, in the channel, about to seed a session,
\* carried out of one, in a cold-start batch, in a slot, or answered.
Waiting == IF pc \in {"cold", "upload"} THEN {cold[i] : i \in at..Len(cold)} ELSE {}

Places(j) == { p \in {"unsent", "chan", "seed", "carry", "cold", "held", "out"} :
                 \/ p = "unsent" /\ j \in unsent
                 \/ p = "chan" /\ j \in Jobs(chan)
                 \/ p = "seed" /\ j = seed
                 \/ p = "carry" /\ j = carry
                 \/ p = "cold" /\ j \in Waiting
                 \/ p = "held" /\ j \in HeldJobs
                 \/ p = "out" /\ out[j] # None }

\* No job is lost or doubled between the channel, the seed, the mismatch that
\* is carried over, the cold-start batch, the slots and the results.
EveryJobInOnePlace ==
    /\ \A j \in Job : Cardinality(Places(j)) = 1
    /\ \A n, m \in Nonce : \A i \in DOMAIN held[n], k \in DOMAIN held[m] :
          held[n][i] = held[m][k] => n = m /\ i = k

\* A session's buffers and beta schedule are its seed's: no slot ever holds a
\* job with another key, whatever was carried over from the session before.
HeldJobsFit ==
    \A n \in Nonce : \A i \in DOMAIN held[n] :
        lead # None /\ Key[held[n][i]] = Key[lead] /\ Key[held[n][i]] \notin {Refused, EmptyGraph}

\* Every job the driver took is where it belongs, once, and only there: in the
\* channel, in its hands, or in a slot of a session with its key.
JobsPlaced == TypeOK /\ EveryJobInOnePlace /\ HeldJobsFit

\* "Returns once `jobs` is closed and every job it delivered has produced a
\* StreamResult": with a consumer there is no other way out of run_stream.
ReturnsWhenAnswered ==
    pc = "done" /\ outOpen =>
        closed /\ \A j \in Job \ unsent : out[j] \notin {None, "lost"}

\* Only an abandoned generation is answered Cancelled; the coordinator refunds
\* it instead of counting it as work.
OnlyStaleCancelled == \A j \in Job : out[j] = "cancelled" => Stale(j)

\* A session's slots are the queues SelfFeeding implements.  To that queue a
\* job enters when it is uploaded, and every answer but samples is a refusal.
Queue == INSTANCE SlotQueue WITH
    queue <- held,
    Unanswered <- None,
    Rejected <- Refused,
    unseen <- {j \in Job : out[j] = None /\ j \notin HeldJobs},
    out <- [j \in Job |-> IF out[j] = None THEN None
                          ELSE IF out[j] = "sampled" THEN j ELSE Refused]

ImplementsSlotQueue == Queue!Spec

\* Every job that reaches the channel is answered, unless nobody listens.
EveryJobAnswered == \A j \in Job : j \in Jobs(chan) ~> out[j] # None \/ ~outOpen

\* Closing the job channel ends the stream, whatever is in flight.
Returns == closed ~> pc = "done"
=============================================================================
