------------------------- MODULE LeaseSamplingProofs -------------------------
(***************************************************************************)
(* Proofs about LeaseSampling, for any leases, any number of salts, any    *)
(* size of chunks and any number of failing device calls.                  *)
(***************************************************************************)
EXTENDS LeaseSampling, FiniteSetTheorems, SequenceTheorems, TLAPS

-----------------------------------------------------------------------------
(***************************************************************************)
(* The inductive invariant: where a salt that is not accounted for can be. *)
(***************************************************************************)
\* The variables it speaks of have their types.
SaltTypes ==
    /\ pc \in [Lease -> Pc]
    /\ screened \in [Lease -> BOOLEAN]
    /\ start \in [Lease -> 0..MaxSalts] /\ end \in [Lease -> 0..MaxSalts]
    /\ at \in [Lease -> 0..MaxSalts] /\ upto \in [Lease -> 0..MaxSalts]
    /\ pending \in [Lease -> SUBSET Salt]
    /\ told \in [Lease -> [Salt -> ToldKinds]]
    /\ current \in [Lease -> Salt0]
    /\ reporter \in [Lease -> {"off", "build", "loop", "receive", "check", "empty",
                               "push"}]

Untold(l, s) == told[l][s] = "nothing"

\* No salt was told twice; none past the chunk was told at all.
ToldOnce(l) ==
    \A s \in Salt : told[l][s] # "twice" /\ (s >= end[l] => Untold(l, s))

\* A salt that waits for its full solve was not told yet.
PendingUntold(l) ==
    \A s \in pending[l] : s < end[l] /\ Untold(l, s)

\* The salt in the reporter's hand was taken out of pending, and not told.
InHand(l) ==
    /\ reporter[l] \in {"check", "empty", "push"} <=> current[l] # NoSalt
    /\ current[l] # NoSalt =>
         current[l] < end[l] /\ current[l] \notin pending[l] /\ Untold(l, current[l])

\* The reporter runs only while the lease's thread is in run_full_batch.
ReporterInScope(l) == reporter[l] # "off" => pc[l] \in {"stream", "join"}

\* Between chunks nothing is pending and no salt ahead was told; during the
\* probe and the decisions, none that was not decided.
BetweenChunks(l) ==
    pc[l] \in {"begin", "wait", "open", "head"} =>
        start[l] = end[l] /\ end[l] <= Salts[l] /\ pending[l] = {}

Undecided(l, first) == \A s \in Salt : s >= first => Untold(l, s)

InProbe(l) ==
    pc[l] = "probe" =>
        start[l] <= end[l] /\ end[l] <= Salts[l] /\ pending[l] = {}
        /\ Undecided(l, start[l])

InDecide(l) ==
    pc[l] = "decide" =>
        /\ at[l] <= upto[l] /\ upto[l] <= end[l] /\ end[l] <= Salts[l]
        /\ Undecided(l, at[l])
        /\ \A s \in pending[l] : s < at[l]

InSolve(l) == pc[l] \in {"solve", "stream", "join"} => end[l] <= Salts[l]

LeaseInv(l) ==
    /\ ToldOnce(l) /\ PendingUntold(l) /\ InHand(l) /\ ReporterInScope(l)
    /\ BetweenChunks(l) /\ InProbe(l) /\ InDecide(l) /\ InSolve(l)

SaltsInv == SaltTypes /\ \A l \in Lease : LeaseInv(l)

-----------------------------------------------------------------------------
(***************************************************************************)
(* A step of one lease changes nothing of another.                         *)
(***************************************************************************)
SameChunk(m) ==
    /\ start'[m] = start[m] /\ end'[m] = end[m]
    /\ at'[m] = at[m] /\ upto'[m] = upto[m]

SameSalts(m) == pending'[m] = pending[m] /\ told'[m] = told[m]

SameHand(m) == current'[m] = current[m] /\ reporter'[m] = reporter[m]

Same(m) == pc'[m] = pc[m] /\ SameChunk(m) /\ SameSalts(m) /\ SameHand(m)

LEMMA SameKeeps == ASSUME NEW m \in Lease, LeaseInv(m), Same(m) PROVE LeaseInv(m)'
BY DEF Same, SameChunk, SameSalts, SameHand,
      LeaseInv, ToldOnce, Untold, PendingUntold, InHand, ReporterInScope,
      BetweenChunks, InProbe, Undecided, InDecide, InSolve

OthersSame(l) == \A m \in Lease \ {l} : Same(m)

LEMMA StepKeeps ==
    ASSUME SaltsInv, NEW l \in Lease, SaltTypes', LeaseInv(l)', OthersSame(l)
    PROVE  SaltsInv'
BY SameKeeps DEF SaltsInv, OthersSame

\* The types, of one lease.
LEMMA LocalTypes ==
    ASSUME SaltTypes, NEW l \in Lease
    PROVE  /\ start[l] \in 0..MaxSalts /\ end[l] \in 0..MaxSalts
           /\ at[l] \in 0..MaxSalts /\ upto[l] \in 0..MaxSalts
           /\ pending[l] \in SUBSET Salt /\ told[l] \in [Salt -> ToldKinds]
           /\ current[l] \in Salt0 /\ Salts[l] \in 1..MaxSalts /\ MaxSalts \in Nat
BY Assumption DEF SaltTypes

\* Returning from sample, once the reporter has ended.
LEMMA LeaveKeeps ==
    ASSUME SaltsInv, NEW l \in Lease, NEW r, Leave(l, r), reporter[l] = "off",
           UNCHANGED <<start, end, told, current, reporter>>
    PROVE  SaltsInv'
<1>1. SaltTypes'
  BY Assumption DEF SaltsInv, Leave, DropChunk, Goto, SaltTypes, Pc, Working, Salt, Salt0, NoSalt, ToldKinds
<1>2. OthersSame(l)
  BY DEF SaltsInv, SaltTypes, OthersSame, Same, SameChunk, SameSalts, SameHand, Leave, DropChunk, Goto
<1>3. /\ pc'[l] = "done" /\ pending'[l] = {} /\ told'[l] = told[l] /\ end'[l] = end[l]
      /\ SameHand(l)
  BY DEF SaltsInv, SaltTypes, SameHand, Leave, DropChunk, Goto
<1>4. LeaseInv(l)
  BY DEF SaltsInv
<1>5. LeaseInv(l)'
  BY <1>3, <1>4 DEF SameHand,
      LeaseInv, ToldOnce, Untold, PendingUntold, InHand, ReporterInScope,
      BetweenChunks, InProbe, Undecided, InDecide, InSolve
<1>6. QED
  BY <1>1, <1>2, <1>5, StepKeeps

\* Going on to the next chunk, once the reporter has ended.
LEMMA AdvanceKeeps ==
    ASSUME SaltsInv, NEW l \in Lease, Advance(l), reporter[l] = "off",
           pc[l] \in {"solve", "join"}, UNCHANGED <<end, told, current, reporter>>
    PROVE  SaltsInv'
<1>1. SaltTypes'
  BY Assumption DEF SaltsInv, Advance, DropChunk, Goto, SaltTypes, Pc, Working, Salt, Salt0, NoSalt, ToldKinds
<1>2. OthersSame(l)
  BY DEF SaltsInv, SaltTypes, OthersSame, Same, SameChunk, SameSalts, SameHand, Advance, DropChunk, Goto
<1>3. /\ pc'[l] = "head" /\ pending'[l] = {} /\ told'[l] = told[l] /\ end'[l] = end[l]
      /\ start'[l] = end[l] /\ SameHand(l)
  BY DEF SaltsInv, SaltTypes, SameHand, Advance, DropChunk, Goto
<1>4. LeaseInv(l)
  BY DEF SaltsInv
<1>5. LeaseInv(l)'
  BY <1>3, <1>4 DEF SameHand,
      LeaseInv, ToldOnce, Untold, PendingUntold, InHand, ReporterInScope,
      BetweenChunks, InProbe, Undecided, InDecide, InSolve
<1>6. QED
  BY <1>1, <1>2, <1>5, StepKeeps

\* A step of a lease that touches neither its chunk nor its salts.
LEMMA CalmKeeps ==
    ASSUME SaltsInv, NEW l \in Lease, NEW p \in Pc,
           NEW r \in {"off", "build", "loop", "receive", "check", "empty", "push"},
           pc' = [pc EXCEPT ![l] = p], reporter' = [reporter EXCEPT ![l] = r],
           UNCHANGED <<start, end, at, upto, pending, told, current>>,
           screened' \in [Lease -> BOOLEAN],
           InHand(l)', ReporterInScope(l)', BetweenChunks(l)', InProbe(l)',
           InDecide(l)', InSolve(l)'
    PROVE  SaltsInv'
<1>1. SaltTypes'
  BY DEF SaltsInv, SaltTypes
<1>2. OthersSame(l)
  BY DEF SaltsInv, SaltTypes, OthersSame, Same, SameChunk, SameSalts, SameHand
<1>3. ToldOnce(l)' /\ PendingUntold(l)'
  BY DEF SaltsInv, LeaseInv, ToldOnce, PendingUntold, Untold
<1>4. QED
  BY <1>1, <1>2, <1>3, StepKeeps DEF LeaseInv

-----------------------------------------------------------------------------
(***************************************************************************)
(* Each action keeps the invariant.                                        *)
(***************************************************************************)
LEMMA SinkStopsKeeps == ASSUME SaltsInv, NEW l \in Lease, SinkStops(l) PROVE SaltsInv'
<1>1. /\ pc' = [pc EXCEPT ![l] = pc[l]] /\ reporter' = [reporter EXCEPT ![l] = reporter[l]]
      /\ UNCHANGED <<start, end, at, upto, pending, told, current>>
      /\ screened' \in [Lease -> BOOLEAN]
      /\ pc[l] \in Pc /\ reporter[l] \in {"off", "build", "loop", "receive", "check", "empty", "push"}
  BY DEF SinkStops, SaltsInv, SaltTypes, chunkVars, reporterVars, Pc, Working
<1>2. /\ pc'[l] = pc[l] /\ reporter'[l] = reporter[l]
      /\ SameChunk(l) /\ SameSalts(l) /\ current'[l] = current[l] /\ LeaseInv(l)
  BY <1>1 DEF SaltsInv, SaltTypes, SameChunk, SameSalts
<1>3. TRUE
  BY DEF SinkStops
<1>4. /\ InHand(l)' /\ ReporterInScope(l)' /\ BetweenChunks(l)' /\ InProbe(l)'
      /\ InDecide(l)' /\ InSolve(l)'
  BY <1>2, <1>3 DEF SameChunk, SameSalts,
      LeaseInv, ToldOnce, Untold, PendingUntold, InHand, ReporterInScope,
      BetweenChunks, InProbe, Undecided, InDecide, InSolve
<1>5. QED
  BY <1>1, <1>4, CalmKeeps

LEMMA SinkGoesKeeps == ASSUME SaltsInv, NEW l \in Lease, SinkGoes(l) PROVE SaltsInv'
<1>1. /\ pc' = [pc EXCEPT ![l] = pc[l]] /\ reporter' = [reporter EXCEPT ![l] = reporter[l]]
      /\ UNCHANGED <<start, end, at, upto, pending, told, current>>
      /\ screened' \in [Lease -> BOOLEAN]
      /\ pc[l] \in Pc /\ reporter[l] \in {"off", "build", "loop", "receive", "check", "empty", "push"}
  BY DEF SinkGoes, SaltsInv, SaltTypes, chunkVars, reporterVars, Pc, Working
<1>2. /\ pc'[l] = pc[l] /\ reporter'[l] = reporter[l]
      /\ SameChunk(l) /\ SameSalts(l) /\ current'[l] = current[l] /\ LeaseInv(l)
  BY <1>1 DEF SaltsInv, SaltTypes, SameChunk, SameSalts
<1>3. TRUE
  BY DEF SinkGoes
<1>4. /\ InHand(l)' /\ ReporterInScope(l)' /\ BetweenChunks(l)' /\ InProbe(l)'
      /\ InDecide(l)' /\ InSolve(l)'
  BY <1>2, <1>3 DEF SameChunk, SameSalts,
      LeaseInv, ToldOnce, Untold, PendingUntold, InHand, ReporterInScope,
      BetweenChunks, InProbe, Undecided, InDecide, InSolve
<1>5. QED
  BY <1>1, <1>4, CalmKeeps

LEMMA WatchKeeps == ASSUME SaltsInv, NEW l \in Lease, Watch(l) PROVE SaltsInv'
<1>1. /\ pc' = [pc EXCEPT ![l] = pc[l]] /\ reporter' = [reporter EXCEPT ![l] = reporter[l]]
      /\ UNCHANGED <<start, end, at, upto, pending, told, current>>
      /\ screened' \in [Lease -> BOOLEAN]
      /\ pc[l] \in Pc /\ reporter[l] \in {"off", "build", "loop", "receive", "check", "empty", "push"}
  BY DEF Watch, SaltsInv, SaltTypes, chunkVars, reporterVars, Pc, Working
<1>2. /\ pc'[l] = pc[l] /\ reporter'[l] = reporter[l]
      /\ SameChunk(l) /\ SameSalts(l) /\ current'[l] = current[l] /\ LeaseInv(l)
  BY <1>1 DEF SaltsInv, SaltTypes, SameChunk, SameSalts
<1>3. TRUE
  BY DEF Watch
<1>4. /\ InHand(l)' /\ ReporterInScope(l)' /\ BetweenChunks(l)' /\ InProbe(l)'
      /\ InDecide(l)' /\ InSolve(l)'
  BY <1>2, <1>3 DEF SameChunk, SameSalts,
      LeaseInv, ToldOnce, Untold, PendingUntold, InHand, ReporterInScope,
      BetweenChunks, InProbe, Undecided, InDecide, InSolve
<1>5. QED
  BY <1>1, <1>4, CalmKeeps

LEMMA TooLargeKeeps == ASSUME SaltsInv, NEW l \in Lease, TooLarge(l) PROVE SaltsInv'
<1>1. /\ pc' = [pc EXCEPT ![l] = "done"] /\ reporter' = [reporter EXCEPT ![l] = reporter[l]]
      /\ UNCHANGED <<start, end, at, upto, pending, told, current>>
      /\ screened' \in [Lease -> BOOLEAN]
      /\ "done" \in Pc /\ reporter[l] \in {"off", "build", "loop", "receive", "check", "empty", "push"}
  BY DEF TooLarge, Goto, SaltsInv, SaltTypes, chunkVars, reporterVars, Pc, Working
<1>2. /\ pc'[l] = "done" /\ reporter'[l] = reporter[l]
      /\ SameChunk(l) /\ SameSalts(l) /\ current'[l] = current[l] /\ LeaseInv(l)
  BY <1>1 DEF SaltsInv, SaltTypes, SameChunk, SameSalts
<1>3. pc[l] = "begin"
  BY DEF TooLarge
<1>4. /\ InHand(l)' /\ ReporterInScope(l)' /\ BetweenChunks(l)' /\ InProbe(l)'
      /\ InDecide(l)' /\ InSolve(l)'
  BY <1>2, <1>3 DEF SameChunk, SameSalts,
      LeaseInv, ToldOnce, Untold, PendingUntold, InHand, ReporterInScope,
      BetweenChunks, InProbe, Undecided, InDecide, InSolve
<1>5. QED
  BY <1>1, <1>4, CalmKeeps

LEMMA JoinKeeps == ASSUME SaltsInv, NEW l \in Lease, Join(l) PROVE SaltsInv'
<1>1. /\ pc' = [pc EXCEPT ![l] = "wait"] /\ reporter' = [reporter EXCEPT ![l] = reporter[l]]
      /\ UNCHANGED <<start, end, at, upto, pending, told, current>>
      /\ screened' \in [Lease -> BOOLEAN]
      /\ "wait" \in Pc /\ reporter[l] \in {"off", "build", "loop", "receive", "check", "empty", "push"}
  BY DEF Join, Goto, SaltsInv, SaltTypes, chunkVars, reporterVars, Pc, Working
<1>2. /\ pc'[l] = "wait" /\ reporter'[l] = reporter[l]
      /\ SameChunk(l) /\ SameSalts(l) /\ current'[l] = current[l] /\ LeaseInv(l)
  BY <1>1 DEF SaltsInv, SaltTypes, SameChunk, SameSalts
<1>3. pc[l] = "begin"
  BY DEF Join
<1>4. /\ InHand(l)' /\ ReporterInScope(l)' /\ BetweenChunks(l)' /\ InProbe(l)'
      /\ InDecide(l)' /\ InSolve(l)'
  BY <1>2, <1>3 DEF SameChunk, SameSalts,
      LeaseInv, ToldOnce, Untold, PendingUntold, InHand, ReporterInScope,
      BetweenChunks, InProbe, Undecided, InDecide, InSolve
<1>5. QED
  BY <1>1, <1>4, CalmKeeps

LEMMA TakeTurnKeeps == ASSUME SaltsInv, NEW l \in Lease, TakeTurn(l) PROVE SaltsInv'
<1>1. /\ pc' = [pc EXCEPT ![l] = "open"] /\ reporter' = [reporter EXCEPT ![l] = reporter[l]]
      /\ UNCHANGED <<start, end, at, upto, pending, told, current>>
      /\ screened' \in [Lease -> BOOLEAN]
      /\ "open" \in Pc /\ reporter[l] \in {"off", "build", "loop", "receive", "check", "empty", "push"}
  BY DEF TakeTurn, Goto, SaltsInv, SaltTypes, chunkVars, reporterVars, Pc, Working
<1>2. /\ pc'[l] = "open" /\ reporter'[l] = reporter[l]
      /\ SameChunk(l) /\ SameSalts(l) /\ current'[l] = current[l] /\ LeaseInv(l)
  BY <1>1 DEF SaltsInv, SaltTypes, SameChunk, SameSalts
<1>3. pc[l] = "wait"
  BY DEF TakeTurn
<1>4. /\ InHand(l)' /\ ReporterInScope(l)' /\ BetweenChunks(l)' /\ InProbe(l)'
      /\ InDecide(l)' /\ InSolve(l)'
  BY <1>2, <1>3 DEF SameChunk, SameSalts,
      LeaseInv, ToldOnce, Untold, PendingUntold, InHand, ReporterInScope,
      BetweenChunks, InProbe, Undecided, InDecide, InSolve
<1>5. QED
  BY <1>1, <1>4, CalmKeeps

LEMMA DecidedKeeps == ASSUME SaltsInv, NEW l \in Lease, Decided(l) PROVE SaltsInv'
<1>1. /\ pc' = [pc EXCEPT ![l] = "solve"] /\ reporter' = [reporter EXCEPT ![l] = reporter[l]]
      /\ UNCHANGED <<start, end, at, upto, pending, told, current>>
      /\ screened' \in [Lease -> BOOLEAN]
      /\ "solve" \in Pc /\ reporter[l] \in {"off", "build", "loop", "receive", "check", "empty", "push"}
  BY DEF Decided, Goto, SaltsInv, SaltTypes, chunkVars, reporterVars, Pc, Working
<1>2. /\ pc'[l] = "solve" /\ reporter'[l] = reporter[l]
      /\ SameChunk(l) /\ SameSalts(l) /\ current'[l] = current[l] /\ LeaseInv(l)
  BY <1>1 DEF SaltsInv, SaltTypes, SameChunk, SameSalts
<1>3. pc[l] = "decide" /\ at[l] = upto[l]
  BY DEF Decided
<1>4. /\ InHand(l)' /\ ReporterInScope(l)' /\ BetweenChunks(l)' /\ InProbe(l)'
      /\ InDecide(l)' /\ InSolve(l)'
  BY <1>2, <1>3 DEF SameChunk, SameSalts,
      LeaseInv, ToldOnce, Untold, PendingUntold, InHand, ReporterInScope,
      BetweenChunks, InProbe, Undecided, InDecide, InSolve
<1>5. QED
  BY <1>1, <1>4, CalmKeeps

LEMMA StreamReturnsKeeps == ASSUME SaltsInv, NEW l \in Lease, StreamReturns(l) PROVE SaltsInv'
<1>1. /\ pc' = [pc EXCEPT ![l] = "join"] /\ reporter' = [reporter EXCEPT ![l] = reporter[l]]
      /\ UNCHANGED <<start, end, at, upto, pending, told, current>>
      /\ screened' \in [Lease -> BOOLEAN]
      /\ "join" \in Pc /\ reporter[l] \in {"off", "build", "loop", "receive", "check", "empty", "push"}
  BY DEF StreamReturns, Goto, SaltsInv, SaltTypes, chunkVars, reporterVars, Pc, Working
<1>2. /\ pc'[l] = "join" /\ reporter'[l] = reporter[l]
      /\ SameChunk(l) /\ SameSalts(l) /\ current'[l] = current[l] /\ LeaseInv(l)
  BY <1>1 DEF SaltsInv, SaltTypes, SameChunk, SameSalts
<1>3. pc[l] = "stream"
  BY DEF StreamReturns
<1>4. /\ InHand(l)' /\ ReporterInScope(l)' /\ BetweenChunks(l)' /\ InProbe(l)'
      /\ InDecide(l)' /\ InSolve(l)'
  BY <1>2, <1>3 DEF SameChunk, SameSalts,
      LeaseInv, ToldOnce, Untold, PendingUntold, InHand, ReporterInScope,
      BetweenChunks, InProbe, Undecided, InDecide, InSolve
<1>5. QED
  BY <1>1, <1>4, CalmKeeps

LEMMA NoticeKeeps == ASSUME SaltsInv, NEW l \in Lease, Notice(l) PROVE SaltsInv'
<1>1. /\ pc' = [pc EXCEPT ![l] = pc[l]] /\ reporter' = [reporter EXCEPT ![l] = "receive"]
      /\ UNCHANGED <<start, end, at, upto, pending, told, current>>
      /\ screened' \in [Lease -> BOOLEAN]
      /\ pc[l] \in Pc /\ "receive" \in {"off", "build", "loop", "receive", "check", "empty", "push"}
  BY DEF Notice, Reporter, SaltsInv, SaltTypes, chunkVars, reporterVars, Pc, Working
<1>2. /\ pc'[l] = pc[l] /\ reporter'[l] = "receive"
      /\ SameChunk(l) /\ SameSalts(l) /\ current'[l] = current[l] /\ LeaseInv(l)
  BY <1>1 DEF SaltsInv, SaltTypes, SameChunk, SameSalts
<1>3. reporter[l] = "loop"
  BY DEF Notice
<1>4. /\ InHand(l)' /\ ReporterInScope(l)' /\ BetweenChunks(l)' /\ InProbe(l)'
      /\ InDecide(l)' /\ InSolve(l)'
  BY <1>2, <1>3 DEF SameChunk, SameSalts,
      LeaseInv, ToldOnce, Untold, PendingUntold, InHand, ReporterInScope,
      BetweenChunks, InProbe, Undecided, InDecide, InSolve
<1>5. QED
  BY <1>1, <1>4, CalmKeeps

LEMMA TimedOutKeeps == ASSUME SaltsInv, NEW l \in Lease, TimedOut(l) PROVE SaltsInv'
<1>1. /\ pc' = [pc EXCEPT ![l] = pc[l]] /\ reporter' = [reporter EXCEPT ![l] = "loop"]
      /\ UNCHANGED <<start, end, at, upto, pending, told, current>>
      /\ screened' \in [Lease -> BOOLEAN]
      /\ pc[l] \in Pc /\ "loop" \in {"off", "build", "loop", "receive", "check", "empty", "push"}
  BY DEF TimedOut, Reporter, SaltsInv, SaltTypes, chunkVars, reporterVars, Pc, Working
<1>2. /\ pc'[l] = pc[l] /\ reporter'[l] = "loop"
      /\ SameChunk(l) /\ SameSalts(l) /\ current'[l] = current[l] /\ LeaseInv(l)
  BY <1>1 DEF SaltsInv, SaltTypes, SameChunk, SameSalts
<1>3. reporter[l] = "receive"
  BY DEF TimedOut
<1>4. /\ InHand(l)' /\ ReporterInScope(l)' /\ BetweenChunks(l)' /\ InProbe(l)'
      /\ InDecide(l)' /\ InSolve(l)'
  BY <1>2, <1>3 DEF SameChunk, SameSalts,
      LeaseInv, ToldOnce, Untold, PendingUntold, InHand, ReporterInScope,
      BetweenChunks, InProbe, Undecided, InDecide, InSolve
<1>5. QED
  BY <1>1, <1>4, CalmKeeps

LEMMA ReadyToPushKeeps == ASSUME SaltsInv, NEW l \in Lease, ReadyToPush(l) PROVE SaltsInv'
<1>1. /\ pc' = [pc EXCEPT ![l] = pc[l]] /\ reporter' = [reporter EXCEPT ![l] = "push"]
      /\ UNCHANGED <<start, end, at, upto, pending, told, current>>
      /\ screened' \in [Lease -> BOOLEAN]
      /\ pc[l] \in Pc /\ "push" \in {"off", "build", "loop", "receive", "check", "empty", "push"}
  BY DEF ReadyToPush, Reporter, SaltsInv, SaltTypes, chunkVars, reporterVars, Pc, Working
<1>2. /\ pc'[l] = pc[l] /\ reporter'[l] = "push"
      /\ SameChunk(l) /\ SameSalts(l) /\ current'[l] = current[l] /\ LeaseInv(l)
  BY <1>1 DEF SaltsInv, SaltTypes, SameChunk, SameSalts
<1>3. reporter[l] = "check"
  BY DEF ReadyToPush
<1>4. /\ InHand(l)' /\ ReporterInScope(l)' /\ BetweenChunks(l)' /\ InProbe(l)'
      /\ InDecide(l)' /\ InSolve(l)'
  BY <1>2, <1>3 DEF SameChunk, SameSalts,
      LeaseInv, ToldOnce, Untold, PendingUntold, InHand, ReporterInScope,
      BetweenChunks, InProbe, Undecided, InDecide, InSolve
<1>5. QED
  BY <1>1, <1>4, CalmKeeps

LEMMA ConcludeKeeps == ASSUME SaltsInv, NEW l \in Lease, Conclude(l) PROVE SaltsInv'
<1>1. /\ pc' = [pc EXCEPT ![l] = pc[l]] /\ reporter' = [reporter EXCEPT ![l] = "off"]
      /\ UNCHANGED <<start, end, at, upto, pending, told, current>>
      /\ screened' \in [Lease -> BOOLEAN]
      /\ pc[l] \in Pc /\ "off" \in {"off", "build", "loop", "receive", "check", "empty", "push"}
  BY DEF Conclude, Reporter, Return, SaltsInv, SaltTypes, chunkVars, reporterVars, Pc, Working
<1>2. /\ pc'[l] = pc[l] /\ reporter'[l] = "off"
      /\ SameChunk(l) /\ SameSalts(l) /\ current'[l] = current[l] /\ LeaseInv(l)
  BY <1>1 DEF SaltsInv, SaltTypes, SameChunk, SameSalts
<1>3. reporter[l] = "receive"
  BY DEF Conclude
<1>4. /\ InHand(l)' /\ ReporterInScope(l)' /\ BetweenChunks(l)' /\ InProbe(l)'
      /\ InDecide(l)' /\ InSolve(l)'
  BY <1>2, <1>3 DEF SameChunk, SameSalts,
      LeaseInv, ToldOnce, Untold, PendingUntold, InHand, ReporterInScope,
      BetweenChunks, InProbe, Undecided, InDecide, InSolve
<1>5. QED
  BY <1>1, <1>4, CalmKeeps

LEMMA RunFullBatchKeeps == ASSUME SaltsInv, NEW l \in Lease, RunFullBatch(l) PROVE SaltsInv'
<1>1. /\ pc' = [pc EXCEPT ![l] = "stream"] /\ reporter' = [reporter EXCEPT ![l] = "build"]
      /\ UNCHANGED <<start, end, at, upto, pending, told, current>>
      /\ screened' \in [Lease -> BOOLEAN]
      /\ "stream" \in Pc /\ "build" \in {"off", "build", "loop", "receive", "check", "empty", "push"}
  BY DEF RunFullBatch, Goto, SaltsInv, SaltTypes, chunkVars, reporterVars, Pc, Working
<1>2. /\ pc'[l] = "stream" /\ reporter'[l] = "build"
      /\ SameChunk(l) /\ SameSalts(l) /\ current'[l] = current[l] /\ LeaseInv(l)
  BY <1>1 DEF SaltsInv, SaltTypes, SameChunk, SameSalts
<1>3. pc[l] = "solve"
  BY DEF RunFullBatch
<1>4. /\ InHand(l)' /\ ReporterInScope(l)' /\ BetweenChunks(l)' /\ InProbe(l)'
      /\ InDecide(l)' /\ InSolve(l)'
  BY <1>2, <1>3 DEF SameChunk, SameSalts,
      LeaseInv, ToldOnce, Untold, PendingUntold, InHand, ReporterInScope,
      BetweenChunks, InProbe, Undecided, InDecide, InSolve
<1>5. QED
  BY <1>1, <1>4, CalmKeeps

LEMMA GiveUpTurnKeeps == ASSUME SaltsInv, NEW l \in Lease, GiveUpTurn(l) PROVE SaltsInv'
<1>1. PICK r : Leave(l, r)
  BY DEF GiveUpTurn
<1>2. reporter[l] = "off"
  BY DEF GiveUpTurn, SaltsInv, LeaseInv, ReporterInScope
<1>3. QED
  BY <1>1, <1>2, LeaveKeeps DEF GiveUpTurn, reporterVars

LEMMA LeaseOverKeeps == ASSUME SaltsInv, NEW l \in Lease, LeaseOver(l) PROVE SaltsInv'
<1>1. PICK r : Leave(l, r)
  BY DEF LeaseOver
<1>2. reporter[l] = "off"
  BY DEF LeaseOver, SaltsInv, LeaseInv, ReporterInScope
<1>3. QED
  BY <1>1, <1>2, LeaveKeeps DEF LeaseOver, reporterVars

LEMMA ScreenRefusedKeeps == ASSUME SaltsInv, NEW l \in Lease, ScreenRefused(l) PROVE SaltsInv'
<1>1. PICK r : Leave(l, r)
  BY DEF ScreenRefused
<1>2. reporter[l] = "off"
  BY DEF ScreenRefused, SaltsInv, LeaseInv, ReporterInScope
<1>3. QED
  BY <1>1, <1>2, LeaveKeeps DEF ScreenRefused, reporterVars

LEMMA DecideStoppedKeeps == ASSUME SaltsInv, NEW l \in Lease, DecideStopped(l) PROVE SaltsInv'
<1>1. PICK r : Leave(l, r)
  BY DEF DecideStopped
<1>2. reporter[l] = "off"
  BY DEF DecideStopped, SaltsInv, LeaseInv, ReporterInScope
<1>3. QED
  BY <1>1, <1>2, LeaveKeeps DEF DecideStopped, reporterVars

LEMMA DrawFailsKeeps == ASSUME SaltsInv, NEW l \in Lease, DrawFails(l) PROVE SaltsInv'
<1>1. PICK r : Leave(l, r)
  BY DEF DrawFails
<1>2. reporter[l] = "off"
  BY DEF DrawFails, SaltsInv, LeaseInv, ReporterInScope
<1>3. QED
  BY <1>1, <1>2, LeaveKeeps DEF DrawFails, reporterVars

LEMMA SolveStoppedKeeps == ASSUME SaltsInv, NEW l \in Lease, SolveStopped(l) PROVE SaltsInv'
<1>1. PICK r : Leave(l, r)
  BY DEF SolveStopped
<1>2. reporter[l] = "off"
  BY DEF SolveStopped, SaltsInv, LeaseInv, ReporterInScope
<1>3. QED
  BY <1>1, <1>2, LeaveKeeps DEF SolveStopped, reporterVars

\* Telling the sink of one salt of one lease.
LEMMA TellOne ==
    ASSUME told \in [Lease -> [Salt -> ToldKinds]], NEW l \in Lease, NEW s \in Salt,
           NEW k \in ToldKinds, told' = [told EXCEPT ![l][s] = k]
    PROVE  /\ told' \in [Lease -> [Salt -> ToldKinds]]
           /\ told'[l][s] = k
           /\ \A x \in Salt : x # s => told'[l][x] = told[l][x]
           /\ \A m \in Lease \ {l} : told'[m] = told[m]
<1>1. [told[l] EXCEPT ![s] = k] \in [Salt -> ToldKinds]
  OBVIOUS
<1>2. told' = [told EXCEPT ![l] = [told[l] EXCEPT ![s] = k]]
  OBVIOUS
<1>3. QED
  BY <1>1, <1>2

LEMMA NothingToSolveKeeps == ASSUME SaltsInv, NEW l \in Lease, NothingToSolve(l) PROVE SaltsInv'
<1>1. reporter[l] = "off" /\ pc[l] \in {"solve", "join"}
  BY DEF NothingToSolve, SaltsInv, LeaseInv, ReporterInScope
<1>2. QED
  BY <1>1, AdvanceKeeps DEF NothingToSolve, reporterVars

LEMMA SolvedKeeps == ASSUME SaltsInv, NEW l \in Lease, Solved(l) PROVE SaltsInv'
<1>1. reporter[l] = "off" /\ pc[l] = "join"
  BY DEF Solved, HelpersJoined
<1>2. UNCHANGED <<end, told, current, reporter>>
  BY DEF Solved
<1>3. CASE verdict[l] = "more"
  BY <1>1, <1>2, <1>3, AdvanceKeeps DEF Solved
<1>4. CASE verdict[l] # "more"
  BY <1>1, <1>2, <1>4, LeaveKeeps DEF Solved
<1>5. QED
  BY <1>3, <1>4

LEMMA OpenScreenKeeps == ASSUME SaltsInv, NEW l \in Lease, OpenScreen(l) PROVE SaltsInv'
<1>1. reporter[l] = "off" /\ pc[l] = "open" /\ LeaseInv(l)
  BY DEF OpenScreen, SaltsInv, LeaseInv, ReporterInScope
<1>2. UNCHANGED <<start, end, told, current, reporter>>
  BY DEF OpenScreen, reporterVars
<1>3. CASE Leave(l, "DeviceFault")
  BY <1>1, <1>2, <1>3, LeaveKeeps
<1>4. CASE ~Leave(l, "DeviceFault")
  <2>1. /\ pc' = [pc EXCEPT ![l] = "head"] /\ reporter' = [reporter EXCEPT ![l] = "off"]
        /\ UNCHANGED <<start, end, at, upto, pending, told, current>>
        /\ screened' \in [Lease -> BOOLEAN] /\ "head" \in Pc
    BY <1>1, <1>2, <1>4 DEF OpenScreen, Goto, SaltsInv, SaltTypes, Pc, Working
  <2>2. /\ pc'[l] = "head" /\ reporter'[l] = "off"
        /\ SameChunk(l) /\ SameSalts(l) /\ current'[l] = current[l]
    BY <2>1 DEF SaltsInv, SaltTypes, SameChunk, SameSalts
  <2>3. /\ InHand(l)' /\ ReporterInScope(l)' /\ BetweenChunks(l)' /\ InProbe(l)'
        /\ InDecide(l)' /\ InSolve(l)'
    BY <1>1, <2>2 DEF SameChunk, SameSalts,
        LeaseInv, ToldOnce, Untold, PendingUntold, InHand, ReporterInScope,
      BetweenChunks, InProbe, Undecided, InDecide, InSolve
  <2>4. QED
    BY <2>1, <2>3, CalmKeeps
<1>5. QED
  BY <1>3, <1>4

LEMMA BuildRuntimeKeeps == ASSUME SaltsInv, NEW l \in Lease, BuildRuntime(l) PROVE SaltsInv'
<1>1. reporter[l] = "build" /\ LeaseInv(l)
  BY DEF BuildRuntime, SaltsInv
<1>2. PICK r \in {"loop", "off"} : reporter' = [reporter EXCEPT ![l] = r]
  BY DEF BuildRuntime, Reporter, Return
<1>3. /\ pc' = [pc EXCEPT ![l] = pc[l]] /\ pc[l] \in Pc
      /\ UNCHANGED <<start, end, at, upto, pending, told, current>>
      /\ screened' \in [Lease -> BOOLEAN]
  BY DEF BuildRuntime, chunkVars, SaltsInv, SaltTypes
<1>4. /\ pc'[l] = pc[l] /\ reporter'[l] = r
      /\ SameChunk(l) /\ SameSalts(l) /\ current'[l] = current[l]
  BY <1>2, <1>3 DEF SaltsInv, SaltTypes, SameChunk, SameSalts
<1>5. /\ InHand(l)' /\ ReporterInScope(l)' /\ BetweenChunks(l)' /\ InProbe(l)'
        /\ InDecide(l)' /\ InSolve(l)'
  BY <1>1, <1>4 DEF SameChunk, SameSalts,
      LeaseInv, ToldOnce, Untold, PendingUntold, InHand, ReporterInScope,
      BetweenChunks, InProbe, Undecided, InDecide, InSolve
<1>6. QED
  BY <1>2, <1>3, <1>5, CalmKeeps

LEMMA NextChunkKeeps == ASSUME SaltsInv, NEW l \in Lease, NextChunk(l) PROVE SaltsInv'
<1>1. /\ pc[l] = "head" /\ start[l] < Salts[l] /\ LeaseInv(l)
      /\ start[l] = end[l] /\ reporter[l] = "off"
  BY DEF NextChunk, SaltsInv, LeaseInv, BetweenChunks, ReporterInScope
<1>2. PICK n \in ChunkSize(l) :
         /\ end' = [end EXCEPT ![l] = start[l] + n]
         /\ pending' = [pending EXCEPT ![l] =
                          IF screened[l] THEN {} ELSE start[l]..(start[l] + n - 1)]
  BY DEF NextChunk
<1>3. n \in Nat /\ 0 < n /\ start[l] + n <= Salts[l]
  BY <1>1, <1>2, LocalTypes, Assumption DEF ChunkSize, SaltsInv
<1>4. start[l] + n \in 0..MaxSalts /\ start[l]..(start[l] + n - 1) \in SUBSET Salt
  BY <1>3, LocalTypes DEF SaltsInv, Salt
<1>5. DEFINE p == IF screened[l] THEN "probe" ELSE "solve"
<1>6. pc' = [pc EXCEPT ![l] = p] /\ UNCHANGED <<start, at, upto, told, current, reporter, screened>>
  BY DEF NextChunk, Goto, reporterVars
<1>7. SaltTypes'
  BY <1>2, <1>4, <1>6 DEF SaltsInv, SaltTypes, Pc, Working
<1>8. OthersSame(l)
  BY <1>2, <1>6 DEF OthersSame, Same, SameChunk, SameSalts, SameHand, SaltsInv, SaltTypes
<1>9. /\ pc'[l] = p /\ start'[l] = start[l] /\ end'[l] = start[l] + n
      /\ pending'[l] = (IF p = "probe" THEN {} ELSE start[l]..(start[l] + n - 1))
      /\ told'[l] = told[l] /\ SameHand(l) /\ p \in {"probe", "solve"}
  BY <1>2, <1>6 DEF SaltsInv, SaltTypes, SameHand
<1>10. current[l] = NoSalt
  BY <1>1 DEF LeaseInv, InHand
<1>11. Undecided(l, start[l])
  BY <1>1 DEF LeaseInv, ToldOnce, Undecided
<1> HIDE DEF p
<1>12. ToldOnce(l)'
  BY <1>1, <1>3, <1>9, LocalTypes DEF SaltsInv, Salt, LeaseInv, ToldOnce, Untold
<1>13. PendingUntold(l)'
  BY <1>3, <1>4, <1>9, <1>11, LocalTypes DEF SaltsInv, Salt, PendingUntold, Undecided, Untold
<1>14. InHand(l)' /\ ReporterInScope(l)' /\ BetweenChunks(l)'
  BY <1>1, <1>9, <1>10 DEF SameHand, InHand, ReporterInScope, BetweenChunks, NoSalt
<1>15. InProbe(l)' /\ InDecide(l)' /\ InSolve(l)'
  BY <1>3, <1>9, <1>11, LocalTypes DEF SaltsInv, InProbe, InDecide, InSolve, Undecided, Untold
<1>16. QED
  BY <1>7, <1>8, <1>12, <1>13, <1>14, <1>15, StepKeeps DEF LeaseInv

LEMMA ProbeKeeps == ASSUME SaltsInv, NEW l \in Lease, Probe(l) PROVE SaltsInv'
<1>1. pc[l] = "probe" /\ LeaseInv(l) /\ reporter[l] = "off"
  BY DEF Probe, SaltsInv, LeaseInv, ReporterInScope
<1>2. UNCHANGED <<start, end, told, current, reporter>>
  BY DEF Probe, reporterVars
<1>3. CASE Leave(l, "DeviceFault")
  BY <1>1, <1>2, <1>3, LeaveKeeps
<1>4. CASE ~Leave(l, "DeviceFault")
  <2>1. PICK k \in start[l]..end[l] : upto' = [upto EXCEPT ![l] = k]
    BY <1>4 DEF Probe
  <2>2. /\ at' = [at EXCEPT ![l] = start[l]] /\ pc' = [pc EXCEPT ![l] = "decide"]
        /\ UNCHANGED <<pending, screened>>
    BY <1>4 DEF Probe, Goto
  <2>3. k \in 0..MaxSalts
    BY <2>1, LocalTypes DEF SaltsInv
  <2>4. SaltTypes'
    BY <1>2, <2>1, <2>2, <2>3 DEF SaltsInv, SaltTypes, Pc, Working
  <2>5. OthersSame(l)
    BY <1>2, <2>1, <2>2 DEF OthersSame, Same, SameChunk, SameSalts, SameHand, SaltsInv, SaltTypes
  <2>6. /\ pc'[l] = "decide" /\ at'[l] = start[l] /\ upto'[l] = k /\ end'[l] = end[l]
        /\ SameSalts(l) /\ SameHand(l)
    BY <1>2, <2>1, <2>2 DEF SaltsInv, SaltTypes, SameSalts, SameHand
  <2>7. LeaseInv(l)'
    BY <1>1, <2>1, <2>6, LocalTypes DEF SaltsInv, SameSalts, SameHand,
        LeaseInv, ToldOnce, Untold, PendingUntold, InHand, ReporterInScope,
      BetweenChunks, InProbe, Undecided, InDecide, InSolve
  <2>8. QED
    BY <2>4, <2>5, <2>7, StepKeeps
<1>5. QED
  BY <1>3, <1>4

LEMMA DecideKeeps == ASSUME SaltsInv, NEW l \in Lease, Decide(l) PROVE SaltsInv'
<1>1. /\ pc[l] = "decide" /\ at[l] < upto[l] /\ LeaseInv(l) /\ reporter[l] = "off"
  BY DEF Decide, SaltsInv, LeaseInv, ReporterInScope
<1>2. /\ UNCHANGED <<pc, screened, start, end, upto, current, reporter>>
      /\ at' = [at EXCEPT ![l] = @ + 1]
  BY DEF Decide, Admit, reporterVars
<1>3. /\ at[l] \in Salt /\ at[l] + 1 \in 0..MaxSalts /\ Untold(l, at[l])
      /\ at[l] < end[l] /\ at[l] \notin pending[l]
  BY <1>1, LocalTypes DEF SaltsInv, LeaseInv, InDecide, Undecided, Salt
<1>4. \/ told' = [told EXCEPT ![l][at[l]] = "screened"] /\ UNCHANGED pending
      \/ pending' = [pending EXCEPT ![l] = @ \cup {at[l]}] /\ UNCHANGED told
  BY <1>3 DEF Decide, Admit, Tell, Untold
<1>5. SaltTypes'
  <2>1. told' \in [Lease -> [Salt -> ToldKinds]] /\ pending' \in [Lease -> SUBSET Salt]
    <3>1. told \in [Lease -> [Salt -> ToldKinds]] /\ pending \in [Lease -> SUBSET Salt]
      BY DEF SaltsInv, SaltTypes
    <3>2. CASE told' = [told EXCEPT ![l][at[l]] = "screened"] /\ UNCHANGED pending
      <4>1. "screened" \in ToldKinds
        BY DEF ToldKinds
      <4>2. QED
        BY <1>3, <3>1, <3>2, <4>1, TellOne
    <3>3. CASE pending' = [pending EXCEPT ![l] = @ \cup {at[l]}] /\ UNCHANGED told
      BY <1>3, <3>1, <3>3
    <3>4. QED
      BY <1>4, <3>2, <3>3
  <2>2. at' \in [Lease -> 0..MaxSalts]
    BY <1>2, <1>3 DEF SaltsInv, SaltTypes
  <2>3. QED
    BY <1>2, <2>1, <2>2 DEF SaltsInv, SaltTypes
<1>6. OthersSame(l)
  BY <1>2, <1>4 DEF OthersSame, Same, SameChunk, SameSalts, SameHand, SaltsInv, SaltTypes
<1>7. /\ pc'[l] = "decide" /\ at'[l] = at[l] + 1 /\ upto'[l] = upto[l] /\ end'[l] = end[l]
      /\ SameHand(l)
  BY <1>1, <1>2 DEF SaltsInv, SaltTypes, SameHand
<1>8. /\ \A s \in Salt : s # at[l] => told'[l][s] = told[l][s]
      /\ told'[l][at[l]] \in {"nothing", "screened"}
      /\ pending'[l] \subseteq pending[l] \cup {at[l]}
      /\ at[l] \in pending'[l] => told'[l][at[l]] = "nothing"
  BY <1>3, <1>4 DEF SaltsInv, SaltTypes, Untold
<1>9. current[l] = NoSalt
  BY <1>1 DEF LeaseInv, InHand
<1>10. ToldOnce(l)' /\ PendingUntold(l)'
  <2>1. at[l] \in Nat /\ pending[l] \in SUBSET Salt
    BY LocalTypes DEF SaltsInv
  <2>2. ToldOnce(l)'
    <3> SUFFICES ASSUME NEW s \in Salt
                 PROVE  told'[l][s] # "twice" /\ (s >= end[l] => told'[l][s] = "nothing")
      BY <1>7 DEF ToldOnce, Untold
    <3>1. CASE s = at[l]
      BY <1>3, <1>8, <3>1, LocalTypes DEF SaltsInv
    <3>2. CASE s # at[l]
      BY <1>1, <1>8, <3>2 DEF LeaseInv, ToldOnce, Untold
    <3>3. QED
      BY <3>1, <3>2
  <2>3. PendingUntold(l)'
    <3> SUFFICES ASSUME NEW s \in pending'[l]
                 PROVE  s < end[l] /\ told'[l][s] = "nothing"
      BY <1>7 DEF PendingUntold, Untold
    <3>1. CASE s = at[l]
      BY <1>3, <1>8, <3>1
    <3>2. CASE s # at[l]
      BY <1>1, <1>8, <2>1, <3>2 DEF LeaseInv, PendingUntold, Untold
    <3>3. QED
      BY <3>1, <3>2
  <2>4. QED
    BY <2>2, <2>3
<1>11. InHand(l)' /\ ReporterInScope(l)' /\ BetweenChunks(l)' /\ InProbe(l)' /\ InSolve(l)'
  BY <1>1, <1>7, <1>9 DEF SameHand, InHand, ReporterInScope, BetweenChunks, InProbe, InSolve, NoSalt
<1>12. InDecide(l)'
  <2>1. /\ at[l] \in Nat /\ upto[l] \in Nat /\ end[l] \in Nat /\ Salt \subseteq Int
        /\ pending[l] \in SUBSET Salt
    BY LocalTypes DEF SaltsInv, Salt
  <2>2. /\ upto[l] <= end[l] /\ end[l] <= Salts[l] /\ Undecided(l, at[l])
        /\ \A s \in pending[l] : s < at[l]
    BY <1>1 DEF LeaseInv, InDecide
  <2>3. ASSUME NEW s \in Salt, s >= at[l] + 1 PROVE told'[l][s] = "nothing"
    <3>1. s # at[l] /\ s >= at[l]
      BY <2>1, <2>3
    <3>2. QED
      BY <1>8, <2>2, <3>1 DEF Undecided, Untold
  <2>4. ASSUME NEW s \in pending'[l] PROVE s < at[l] + 1
    <3>1. CASE s = at[l]
      BY <2>1, <3>1
    <3>2. CASE s \in pending[l]
      <4>1. s \in Int /\ s < at[l]
        BY <2>1, <2>2, <3>2
      <4>2. QED
        BY <2>1, <4>1
    <3>3. QED
      BY <1>8, <3>1, <3>2
  <2>5. QED
    <3>1. at'[l] <= upto'[l]
      BY <1>1, <1>7, <2>1
    <3>2. \A s \in Salt : s >= at'[l] => told'[l][s] = "nothing"
      BY <1>7, <2>3
    <3>3. QED
      BY <1>7, <2>2, <2>4, <3>1, <3>2 DEF InDecide, Undecided, Untold
<1>13. QED
  BY <1>5, <1>6, <1>10, <1>11, <1>12, StepKeeps DEF LeaseInv

LEMMA CheckStoppedKeeps == ASSUME SaltsInv, NEW l \in Lease, CheckStopped(l) PROVE SaltsInv'
<1>1. reporter[l] \in {"check", "empty"} /\ LeaseInv(l)
  BY DEF CheckStopped, SaltsInv
<1>2. /\ reporter' = [reporter EXCEPT ![l] = "loop"] /\ current' = [current EXCEPT ![l] = NoSalt]
      /\ UNCHANGED <<pc, screened, start, end, at, upto, pending, told>>
  BY DEF CheckStopped, Reporter, chunkVars
<1>3. SaltTypes'
  BY <1>2 DEF SaltsInv, SaltTypes, Salt0
<1>4. OthersSame(l)
  BY <1>2 DEF OthersSame, Same, SameChunk, SameSalts, SameHand, SaltsInv, SaltTypes
<1>5. /\ pc'[l] = pc[l] /\ SameChunk(l) /\ SameSalts(l)
      /\ reporter'[l] = "loop" /\ current'[l] = NoSalt /\ NoSalt' = NoSalt
  BY <1>2 DEF SaltsInv, SaltTypes, SameChunk, SameSalts, NoSalt
<1>6. LeaseInv(l)'
  BY <1>1, <1>5 DEF SameChunk, SameSalts,
      LeaseInv, ToldOnce, Untold, PendingUntold, InHand, ReporterInScope,
      BetweenChunks, InProbe, Undecided, InDecide, InSolve
<1>7. QED
  BY <1>3, <1>4, <1>6, StepKeeps

LEMMA NoReadsKeeps == ASSUME SaltsInv, NEW l \in Lease, NoReads(l) PROVE SaltsInv'
<1>1. reporter[l] \in {"empty"} /\ LeaseInv(l)
  BY DEF NoReads, SaltsInv
<1>2. /\ reporter' = [reporter EXCEPT ![l] = "loop"] /\ current' = [current EXCEPT ![l] = NoSalt]
      /\ UNCHANGED <<pc, screened, start, end, at, upto, pending, told>>
  BY DEF NoReads, Reporter, chunkVars
<1>3. SaltTypes'
  BY <1>2 DEF SaltsInv, SaltTypes, Salt0
<1>4. OthersSame(l)
  BY <1>2 DEF OthersSame, Same, SameChunk, SameSalts, SameHand, SaltsInv, SaltTypes
<1>5. /\ pc'[l] = pc[l] /\ SameChunk(l) /\ SameSalts(l)
      /\ reporter'[l] = "loop" /\ current'[l] = NoSalt /\ NoSalt' = NoSalt
  BY <1>2 DEF SaltsInv, SaltTypes, SameChunk, SameSalts, NoSalt
<1>6. LeaseInv(l)'
  BY <1>1, <1>5 DEF SameChunk, SameSalts,
      LeaseInv, ToldOnce, Untold, PendingUntold, InHand, ReporterInScope,
      BetweenChunks, InProbe, Undecided, InDecide, InSolve
<1>7. QED
  BY <1>3, <1>4, <1>6, StepKeeps

LEMMA PushKeeps == ASSUME SaltsInv, NEW l \in Lease, Push(l) PROVE SaltsInv'
<1>1. reporter[l] = "push" /\ LeaseInv(l) /\ pc[l] \in {"stream", "join"}
  BY DEF Push, SaltsInv, LeaseInv, ReporterInScope
<1>2. /\ reporter' = [reporter EXCEPT ![l] = "loop"] /\ current' = [current EXCEPT ![l] = NoSalt]
      /\ UNCHANGED <<pc, screened, start, end, at, upto, pending>>
  BY DEF Push, Reporter, chunkVars
<1>3. /\ current[l] \in Salt /\ Untold(l, current[l])
      /\ current[l] < end[l] /\ current[l] \notin pending[l]
  BY <1>1, LocalTypes DEF SaltsInv, LeaseInv, InHand, Salt0
<1>4. \/ told' = [told EXCEPT ![l][current[l]] = "pushed"]
      \/ told' = told
  BY <1>3 DEF Push, Tell, Untold
<1>5. SaltTypes'
  <2>1. told' \in [Lease -> [Salt -> ToldKinds]]
    BY <1>3, <1>4, TellOne DEF SaltsInv, SaltTypes, ToldKinds
  <2>2. QED
    BY <1>2, <2>1 DEF SaltsInv, SaltTypes, Salt0
<1>6. OthersSame(l)
  BY <1>2, <1>4 DEF OthersSame, Same, SameChunk, SameSalts, SameHand, SaltsInv, SaltTypes
<1>7. /\ pc'[l] = pc[l] /\ SameChunk(l) /\ pending'[l] = pending[l]
      /\ reporter'[l] = "loop" /\ current'[l] = NoSalt /\ NoSalt' = NoSalt
  BY <1>2 DEF SaltsInv, SaltTypes, SameChunk, NoSalt
<1>8. /\ \A s \in Salt : s # current[l] => told'[l][s] = told[l][s]
      /\ told'[l][current[l]] \in {"nothing", "pushed"}
  BY <1>3, <1>4 DEF SaltsInv, SaltTypes, Untold
<1>9. ToldOnce(l)' /\ PendingUntold(l)'
  <2>1. ToldOnce(l)'
    <3> SUFFICES ASSUME NEW s \in Salt
                 PROVE  told'[l][s] # "twice" /\ (s >= end[l] => told'[l][s] = "nothing")
      BY <1>7 DEF ToldOnce, Untold, SameChunk
    <3>1. CASE s = current[l]
      BY <1>3, <1>8, <3>1, LocalTypes DEF SaltsInv, Salt
    <3>2. CASE s # current[l]
      BY <1>1, <1>8, <3>2 DEF LeaseInv, ToldOnce, Untold
    <3>3. QED
      BY <3>1, <3>2
  <2>2. PendingUntold(l)'
    <3>1. pending[l] \in SUBSET Salt
      BY LocalTypes DEF SaltsInv
    <3>2. QED
      BY <1>1, <1>3, <1>7, <1>8, <3>1 DEF LeaseInv, PendingUntold, Untold, SameChunk
  <2>3. QED
    BY <2>1, <2>2
<1>10. /\ InHand(l)' /\ ReporterInScope(l)' /\ BetweenChunks(l)' /\ InProbe(l)'
       /\ InDecide(l)' /\ InSolve(l)'
  BY <1>1, <1>7 DEF LeaseInv, SameChunk, InHand, ReporterInScope, BetweenChunks, InProbe,
      InDecide, InSolve
<1>11. QED
  BY <1>5, <1>6, <1>9, <1>10, StepKeeps DEF LeaseInv

LEMMA ReceiveKeeps == ASSUME SaltsInv, NEW l \in Lease, Receive(l) PROVE SaltsInv'
<1>1. /\ reporter[l] = "receive" /\ LeaseInv(l) /\ pc[l] \in {"stream", "join"}
      /\ current[l] = NoSalt
  BY DEF Receive, SaltsInv, LeaseInv, ReporterInScope, InHand
<1>2. UNCHANGED <<pc, screened, start, end, at, upto, told>>
  BY DEF Receive, chunkVars
<1>3. \/ /\ reporter' = [reporter EXCEPT ![l] = "loop"]
         /\ UNCHANGED current
         /\ \/ UNCHANGED pending
            \/ \E s : pending' = [pending EXCEPT ![l] = @ \ {s}]
      \/ \E s \in pending[l], r \in {"check", "empty"} :
            /\ reporter' = [reporter EXCEPT ![l] = r]
            /\ current' = [current EXCEPT ![l] = s]
            /\ pending' = [pending EXCEPT ![l] = @ \ {s}]
  <2>1. CASE stopped[l] \/ IsStopped(l) \/ failure[l] # "none"
    BY <2>1 DEF Receive, Reporter
  <2>2. CASE ~(stopped[l] \/ IsStopped(l) \/ failure[l] # "none")
    <3>1. PICK s, o : Take(l, s, o)
      BY <2>2 DEF Receive
    <3>2. QED
      BY <3>1 DEF Take, Reporter
  <2>3. QED
    BY <2>1, <2>2
<1>4. CASE /\ reporter' = [reporter EXCEPT ![l] = "loop"]
           /\ UNCHANGED current
           /\ \/ UNCHANGED pending
              \/ \E s : pending' = [pending EXCEPT ![l] = @ \ {s}]
  <2>1. SaltTypes'
    BY <1>2, <1>4 DEF SaltsInv, SaltTypes
  <2>2. OthersSame(l)
    BY <1>2, <1>4 DEF OthersSame, Same, SameChunk, SameSalts, SameHand, SaltsInv, SaltTypes
  <2>3. /\ pc'[l] = pc[l] /\ SameChunk(l) /\ told'[l] = told[l]
        /\ pending'[l] \subseteq pending[l]
        /\ reporter'[l] = "loop" /\ current'[l] = NoSalt /\ NoSalt' = NoSalt
    BY <1>1, <1>2, <1>4 DEF SaltsInv, SaltTypes, SameChunk, NoSalt
  <2>4. LeaseInv(l)'
    BY <1>1, <2>3 DEF SameChunk,
        LeaseInv, ToldOnce, Untold, PendingUntold, InHand, ReporterInScope,
      BetweenChunks, InProbe, Undecided, InDecide, InSolve
  <2>5. QED
    BY <2>1, <2>2, <2>4, StepKeeps
<1>5. ASSUME NEW s \in pending[l], NEW r \in {"check", "empty"},
             reporter' = [reporter EXCEPT ![l] = r],
             current' = [current EXCEPT ![l] = s],
             pending' = [pending EXCEPT ![l] = @ \ {s}]
      PROVE  SaltsInv'
  <2>1. s \in Salt /\ s # NoSalt
    BY LocalTypes DEF SaltsInv, Salt, NoSalt
  <2>2. SaltTypes'
    BY <1>2, <1>5, <2>1 DEF SaltsInv, SaltTypes, Salt0
  <2>3. OthersSame(l)
    BY <1>2, <1>5 DEF OthersSame, Same, SameChunk, SameSalts, SameHand, SaltsInv, SaltTypes
  <2>4. /\ pc'[l] = pc[l] /\ SameChunk(l) /\ told'[l] = told[l]
        /\ pending'[l] = pending[l] \ {s}
        /\ reporter'[l] = r /\ current'[l] = s /\ NoSalt' = NoSalt
    BY <1>2, <1>5 DEF SaltsInv, SaltTypes, SameChunk, NoSalt
  <2>5. LeaseInv(l)'
    BY <1>1, <2>1, <2>4 DEF SameChunk,
        LeaseInv, ToldOnce, Untold, PendingUntold, InHand, ReporterInScope,
      BetweenChunks, InProbe, Undecided, InDecide, InSolve
  <2>6. QED
    BY <2>2, <2>3, <2>5, StepKeeps
<1>6. QED
  BY <1>3, <1>4, <1>5

LEMMA RespondKeeps ==
    ASSUME SaltsInv, NEW l \in Lease, NEW s \in Salt, NEW o \in Outcome, Respond(l, s, o)
    PROVE  SaltsInv'
<1>1. UNCHANGED <<pc, screened, start, end, at, upto, pending, told, current, reporter>>
  BY DEF Respond, chunkVars, reporterVars
<1>2. Same(l) /\ OthersSame(l) /\ SaltTypes'
  BY <1>1 DEF OthersSame, Same, SameChunk, SameSalts, SameHand, SaltsInv, SaltTypes
<1>3. QED
  BY <1>2, SameKeeps, StepKeeps DEF SaltsInv

-----------------------------------------------------------------------------
LEMMA SaltsInvInit == Init => SaltsInv
<1> SUFFICES ASSUME Init PROVE SaltsInv
  OBVIOUS
<1>1. SaltTypes
  BY Assumption DEF Init, SaltTypes, Pc, Salt, Salt0, NoSalt, ToldKinds
<1>2. ASSUME NEW l \in Lease PROVE LeaseInv(l)
  BY Assumption DEF Init,
      LeaseInv, ToldOnce, Untold, PendingUntold, InHand, ReporterInScope,
      BetweenChunks, InProbe, Undecided, InDecide, InSolve
<1>3. QED
  BY <1>1, <1>2 DEF SaltsInv

LEMMA SaltsInvNext == SaltsInv /\ [Next]_vars => SaltsInv'
<1> SUFFICES ASSUME SaltsInv, [Next]_vars PROVE SaltsInv'
  OBVIOUS
<1>1. CASE UNCHANGED vars
  BY <1>1 DEF vars, chunkVars, reporterVars, SaltsInv, SaltTypes, Pc, Salt, Salt0, NoSalt,
      LeaseInv, ToldOnce, Untold, PendingUntold, InHand, ReporterInScope,
      BetweenChunks, InProbe, Undecided, InDecide, InSolve
<1>2. ASSUME NEW l \in Lease, WorkStep(l) PROVE SaltsInv'
  <2>1. SaltsInv /\ WorkStep(l)
    BY <1>2
  <2>2. QED
    BY <2>1, TooLargeKeeps, JoinKeeps, TakeTurnKeeps, GiveUpTurnKeeps, OpenScreenKeeps,
        NextChunkKeeps, LeaseOverKeeps, ProbeKeeps, DecideKeeps, ScreenRefusedKeeps,
        DecideStoppedKeeps, DecidedKeeps, NothingToSolveKeeps, DrawFailsKeeps,
        SolveStoppedKeeps, RunFullBatchKeeps, StreamReturnsKeeps, SolvedKeeps DEF WorkStep
<1>3. ASSUME NEW l \in Lease, ReportStep(l) PROVE SaltsInv'
  <2>1. SaltsInv /\ ReportStep(l)
    BY <1>3
  <2>2. QED
    BY <2>1, BuildRuntimeKeeps, NoticeKeeps, TimedOutKeeps, ReceiveKeeps,
        CheckStoppedKeeps, NoReadsKeeps, ReadyToPushKeeps, ConcludeKeeps DEF ReportStep
<1>4. QED
  BY <1>1, <1>2, <1>3, SinkStopsKeeps, SinkGoesKeeps, PushKeeps, WatchKeeps, RespondKeeps
  DEF Next

\* The invariant holds in every reachable state: a salt that was not told is
\* ahead of the decisions, waits in pending, is in the reporter's hand, or was
\* dropped by a lease that ends; in the first three places it was never told.
THEOREM SaltsAccounted == Spec => []SaltsInv
<1>1. QED
  BY SaltsInvInit, SaltsInvNext, PTL DEF Spec

\* No salt is accounted for twice: a reject that was screened is never solved
\* and pushed, and no result is pushed a second time, however the decisions,
\* the stream, the reporter and a stop interleave (admit, take_decision, work).
THEOREM EachSaltOnce == Spec => []AccountedOnce
<1>1. SaltsInv => AccountedOnce
  BY DEF SaltsInv, LeaseInv, ToldOnce, AccountedOnce
<1>2. QED
  BY <1>1, SaltsAccounted, PTL

-----------------------------------------------------------------------------
(***************************************************************************)
(* The result channel of a full solve.                                     *)
(***************************************************************************)
Response == [salt : Salt, outcome : Outcome]

\* Every job of the batch is unanswered, or its answer is in the channel or was
\* received; outside run_full_batch the channel is empty.
Fits(l) ==
    /\ jobs[l] \subseteq batch[l]
    /\ Len(out[l]) + Cardinality(jobs[l]) <= Cardinality(batch[l])
    /\ pc[l] \notin {"stream", "join"} => out[l] = <<>>

StreamTypes ==
    /\ batch \in [Lease -> SUBSET Salt] /\ jobs \in [Lease -> SUBSET Salt]
    /\ out \in [Lease -> Seq(Response)]

StreamInv == StreamTypes /\ \A l \in Lease : Fits(l)

LEMMA FiniteSalts ==
    ASSUME NEW S \in SUBSET Salt
    PROVE  IsFiniteSet(S) /\ Cardinality(S) \in Nat
<1>1. IsFiniteSet(Salt)
  BY Assumption, FS_Interval DEF Salt
<1>2. QED
  BY <1>1, FS_Subset, FS_CardinalityType

\* A step outside the stream, and one that does not move the lease's thread.
LEMMA OutsideKeeps ==
    ASSUME SaltsInv, StreamInv, NEW l \in Lease, NEW p,
           pc[l] \notin {"stream", "join"}, pc' = [pc EXCEPT ![l] = p],
           UNCHANGED <<batch, jobs, out>>
    PROVE  StreamInv'
BY DEF SaltsInv, SaltTypes, StreamInv, StreamTypes, Response, Fits

LEMMA UnmovedKeeps ==
    ASSUME StreamInv, UNCHANGED <<pc, batch, jobs, out>>
    PROVE  StreamInv'
BY DEF StreamInv, StreamTypes, Response, Fits

LEMMA BeforeStream ==
    ASSUME SaltsInv, StreamInv, NEW l \in Lease, WorkStep(l),
           ~RunFullBatch(l), ~StreamReturns(l), ~Solved(l)
    PROVE  StreamInv'
<1> USE OutsideKeeps DEF streamVars, Goto
<1>1. CASE TooLarge(l)
  BY <1>1 DEF TooLarge
<1>2. CASE Join(l)
  BY <1>2 DEF Join
<1>3. CASE TakeTurn(l)
  BY <1>3 DEF TakeTurn
<1>4. CASE GiveUpTurn(l)
  BY <1>4 DEF GiveUpTurn, Leave
<1>5. CASE OpenScreen(l)
  BY <1>5 DEF OpenScreen, Leave
<1>6. CASE NextChunk(l)
  BY <1>6 DEF NextChunk
<1>7. CASE LeaseOver(l)
  BY <1>7 DEF LeaseOver, Leave
<1>8. CASE Probe(l)
  BY <1>8 DEF Probe, Leave
<1>9. CASE ScreenRefused(l)
  BY <1>9 DEF ScreenRefused, Leave
<1>10. CASE DecideStopped(l)
  BY <1>10 DEF DecideStopped, Leave
<1>11. CASE Decided(l)
  BY <1>11 DEF Decided
<1>12. CASE NothingToSolve(l)
  BY <1>12 DEF NothingToSolve, Advance
<1>13. CASE DrawFails(l)
  BY <1>13 DEF DrawFails, Leave
<1>14. CASE SolveStopped(l)
  BY <1>14 DEF SolveStopped, Leave
<1>15. CASE Decide(l)
  BY <1>15, UnmovedKeeps DEF Decide
<1>16. QED
  BY <1>1, <1>2, <1>3, <1>4, <1>5, <1>6, <1>7, <1>8, <1>9, <1>10, <1>11, <1>12, <1>13, <1>14, <1>15 DEF WorkStep

LEMMA RunFullBatchFits ==
    ASSUME SaltsInv, StreamInv, NEW l \in Lease, RunFullBatch(l)
    PROVE  StreamInv'
<1>1. /\ pending[l] \in SUBSET Salt /\ out[l] = <<>>
      /\ pc' = [pc EXCEPT ![l] = "stream"] /\ UNCHANGED out
      /\ batch' = [batch EXCEPT ![l] = pending[l]] /\ jobs' = [jobs EXCEPT ![l] = pending[l]]
  BY LocalTypes DEF RunFullBatch, Goto, SaltsInv, StreamInv, Fits
<1>2. StreamTypes'
  BY <1>1 DEF StreamInv, StreamTypes, Response
<1>3. Cardinality(pending[l]) \in Nat
  BY <1>1, FiniteSalts
<1>4. Fits(l)'
  BY <1>1, <1>3 DEF SaltsInv, SaltTypes, StreamInv, StreamTypes, Fits
<1>5. ASSUME NEW m \in Lease \ {l} PROVE Fits(m)'
  BY <1>1 DEF SaltsInv, SaltTypes, StreamInv, StreamTypes, Fits
<1>6. QED
  BY <1>2, <1>4, <1>5 DEF StreamInv

LEMMA StreamReturnsFits ==
    ASSUME SaltsInv, StreamInv, NEW l \in Lease, StreamReturns(l)
    PROVE  StreamInv'
BY DEF StreamReturns, Goto, streamVars, SaltsInv, SaltTypes, StreamInv, StreamTypes,
    Response, Fits

LEMMA SolvedFits ==
    ASSUME SaltsInv, StreamInv, NEW l \in Lease, Solved(l)
    PROVE  StreamInv'
<1>1. /\ batch' = [batch EXCEPT ![l] = {}] /\ jobs' = [jobs EXCEPT ![l] = {}]
      /\ out' = [out EXCEPT ![l] = <<>>]
      /\ \E p : pc' = [pc EXCEPT ![l] = p]
  BY DEF Solved, DropSolve, Advance, Leave, Goto
<1>2. StreamTypes'
  <2>1. <<>> \in Seq(Response) /\ Response' = Response
    BY DEF Response
  <2>2. QED
    BY <1>1, <2>1 DEF StreamInv, StreamTypes
<1>3. Fits(l)'
  <2>1. batch'[l] = {} /\ jobs'[l] = {} /\ out'[l] = <<>>
    BY <1>1 DEF StreamInv, StreamTypes
  <2>2. Len(<<>>) = 0 /\ Cardinality({}) = 0
    BY FS_EmptySet
  <2>3. QED
    BY <2>1, <2>2 DEF Fits
<1>4. ASSUME NEW m \in Lease \ {l} PROVE Fits(m)'
  BY <1>1 DEF SaltsInv, SaltTypes, StreamInv, StreamTypes, Fits
<1>5. QED
  BY <1>2, <1>3, <1>4 DEF StreamInv

LEMMA RespondFits ==
    ASSUME SaltsInv, StreamInv, NEW l \in Lease, NEW s \in Salt, NEW o \in Outcome,
           Respond(l, s, o)
    PROVE  StreamInv'
<1> DEFINE r == [salt |-> s, outcome |-> o]
<1>1. /\ pc[l] = "stream" /\ s \in jobs[l] /\ UNCHANGED <<pc, batch>>
      /\ jobs' = [jobs EXCEPT ![l] = @ \ {s}] /\ out' = [out EXCEPT ![l] = Append(@, r)]
  BY DEF Respond
<1>2. /\ out[l] \in Seq(Response) /\ jobs[l] \in SUBSET Salt /\ batch[l] \in SUBSET Salt
      /\ Fits(l) /\ r \in Response
  BY DEF StreamInv, StreamTypes, Response
<1>3. /\ Cardinality(jobs[l] \ {s}) = Cardinality(jobs[l]) - 1
      /\ Cardinality(jobs[l]) \in Nat /\ Cardinality(batch[l]) \in Nat
  BY <1>1, <1>2, FiniteSalts, FS_RemoveElement
<1> HIDE DEF r
<1>4. Append(out[l], r) \in Seq(Response) /\ Len(Append(out[l], r)) = Len(out[l]) + 1
      /\ Len(out[l]) \in Nat
  BY <1>2
<1>5. StreamTypes'
  BY <1>1, <1>4 DEF StreamInv, StreamTypes, Response
<1>6. Fits(l)'
  <2>1. /\ out'[l] = Append(out[l], r) /\ jobs'[l] = jobs[l] \ {s} /\ batch'[l] = batch[l]
        /\ pc'[l] = "stream"
    BY <1>1 DEF StreamInv, StreamTypes
  <2>2. QED
    BY <1>2, <1>3, <1>4, <2>1 DEF Fits
<1>7. ASSUME NEW m \in Lease \ {l} PROVE Fits(m)'
  BY <1>1 DEF StreamInv, StreamTypes, Fits
<1>8. QED
  BY <1>5, <1>6, <1>7 DEF StreamInv

LEMMA ReceiveFits ==
    ASSUME SaltsInv, StreamInv, NEW l \in Lease, Receive(l)
    PROVE  StreamInv'
<1>1. /\ out[l] # <<>> /\ out' = [out EXCEPT ![l] = Tail(@)]
      /\ UNCHANGED <<pc, batch, jobs>>
  BY DEF Receive
<1>2. /\ out[l] \in Seq(Response) /\ jobs[l] \in SUBSET Salt /\ batch[l] \in SUBSET Salt
      /\ Fits(l)
  BY DEF StreamInv, StreamTypes
<1>3. Tail(out[l]) \in Seq(Response) /\ Len(Tail(out[l])) = Len(out[l]) - 1
      /\ Len(out[l]) \in Nat
  BY <1>1, <1>2, HeadTailProperties
<1>4. Cardinality(jobs[l]) \in Nat /\ Cardinality(batch[l]) \in Nat
  BY <1>2, FiniteSalts
<1>5. StreamTypes'
  BY <1>1, <1>3 DEF StreamInv, StreamTypes, Response
<1>6. Fits(l)'
  <2>1. /\ out'[l] = Tail(out[l]) /\ jobs'[l] = jobs[l] /\ batch'[l] = batch[l]
        /\ pc'[l] = pc[l]
    BY <1>1 DEF StreamInv, StreamTypes
  <2>2. QED
    BY <1>1, <1>2, <1>3, <1>4, <2>1 DEF Fits
<1>7. ASSUME NEW m \in Lease \ {l} PROVE Fits(m)'
  BY <1>1 DEF StreamInv, StreamTypes, Fits
<1>8. QED
  BY <1>5, <1>6, <1>7 DEF StreamInv

LEMMA StreamInvInit == Init => StreamInv
BY FS_EmptySet DEF Init, StreamInv, StreamTypes, Fits

LEMMA StreamInvNext == SaltsInv /\ StreamInv /\ [Next]_vars => StreamInv'
<1> SUFFICES ASSUME SaltsInv, StreamInv, [Next]_vars PROVE StreamInv'
  OBVIOUS
<1>1. CASE UNCHANGED vars
  BY <1>1, UnmovedKeeps DEF vars, streamVars
<1>2. ASSUME NEW l \in Lease, WorkStep(l) PROVE StreamInv'
  BY <1>2, BeforeStream, RunFullBatchFits, StreamReturnsFits, SolvedFits
<1>3. ASSUME NEW l \in Lease, ReportStep(l) PROVE StreamInv'
  <2>1. CASE Receive(l)
    BY <2>1, ReceiveFits
  <2>2. CASE ~Receive(l)
    BY <1>3, <2>2, UnmovedKeeps DEF ReportStep, BuildRuntime, Notice, TimedOut,
        CheckStopped, NoReads, ReadyToPush, Conclude, streamVars
  <2>3. QED
    BY <2>1, <2>2
<1>4. ASSUME NEW l \in Lease, SinkStops(l) \/ SinkGoes(l) \/ Push(l) \/ Watch(l)
      PROVE  StreamInv'
  BY <1>4, UnmovedKeeps DEF SinkStops, SinkGoes, Push, Watch, streamVars
<1>5. QED
  BY <1>1, <1>2, <1>3, <1>4, RespondFits DEF Next

\* While a job of a full solve is unanswered its answer fits the result
\* channel: the stream never waits for a reporter that is blocked in the core
\* (run_full_batch: "One result per job fits").
THEOREM NeverWaitsForReporter == Spec => []ResultFits
<1>1. ASSUME StreamInv PROVE ResultFits
  <2> SUFFICES ASSUME NEW l \in Lease, jobs[l] # {}
               PROVE  Len(out[l]) < Cardinality(batch[l])
    BY DEF ResultFits, OutCapacity
  <2>1. /\ jobs[l] \in SUBSET Salt /\ batch[l] \in SUBSET Salt /\ out[l] \in Seq(Response)
        /\ Len(out[l]) + Cardinality(jobs[l]) <= Cardinality(batch[l])
    BY <1>1 DEF StreamInv, StreamTypes, Fits
  <2>2. /\ Cardinality(jobs[l]) \in Nat /\ Cardinality(batch[l]) \in Nat
        /\ Cardinality(jobs[l]) # 0
    BY <2>1, FiniteSalts, FS_EmptySet
  <2>3. Len(out[l]) \in Nat
    BY <2>1
  <2>4. QED
    BY <2>1, <2>2, <2>3
<1>2. Init /\ [][Next]_vars => [](SaltsInv /\ StreamInv)
  BY SaltsInvInit, SaltsInvNext, StreamInvInit, StreamInvNext, PTL
<1>3. QED
  BY <1>1, <1>2, PTL DEF Spec

-----------------------------------------------------------------------------
(***************************************************************************)
(* Turns                                                                   *)
(***************************************************************************)
Helping(l) == watcher[l] = "watch" \/ reporter[l] # "off"

InQueue(l) == \E i \in 1..Len(waiting) : waiting[i] = l

TurnTypes ==
    /\ waiting \in Seq(Lease)
    /\ pc \in [Lease -> Pc]
    /\ watcher \in [Lease -> {"off", "watch"}]
    /\ reporter \in [Lease -> {"off", "build", "loop", "receive", "check", "empty",
                               "push"}]

\* A lease is in the queue once, exactly while it waits or works; it works at
\* the front, and has helpers only inside run_full_batch.
TurnInv ==
    /\ TurnTypes
    /\ \A i, k \in 1..Len(waiting) : waiting[i] = waiting[k] => i = k
    /\ \A i \in 1..Len(waiting) : pc[waiting[i]] \in Working \cup {"wait"}
    /\ \A l \in Lease : pc[l] = "wait" => InQueue(l)
    /\ \A l \in Lease : pc[l] \in Working => Len(waiting) > 0 /\ waiting[1] = l
    /\ \A l \in Lease : Helping(l) => pc[l] \in {"stream", "join"}

\* What is left of a queue when a lease leaves it.
LEMMA Left ==
    ASSUME NEW q \in Seq(Lease), NEW l \in Lease,
           \A i, k \in 1..Len(q) : q[i] = q[k] => i = k
    PROVE  /\ Without(q, l) \in Seq(Lease)
           /\ \A i, k \in 1..Len(Without(q, l)) : Without(q, l)[i] = Without(q, l)[k] => i = k
           /\ \A i \in 1..Len(Without(q, l)) :
                Without(q, l)[i] # l /\ \E k \in 1..Len(q) : Without(q, l)[i] = q[k]
           /\ \A k \in 1..Len(q) :
                q[k] # l => \E i \in 1..Len(Without(q, l)) : Without(q, l)[i] = q[k]
           /\ Len(q) > 0 /\ q[1] # l => Len(Without(q, l)) > 0 /\ Without(q, l)[1] = q[1]
<1>0. Len(q) \in Nat /\ DOMAIN q = 1..Len(q) /\ \A i \in 1..Len(q) : q[i] \in Lease
  OBVIOUS
<1>1. CASE ~\E i \in DOMAIN q : q[i] = l
  <2>1. Without(q, l) = q
    BY <1>1 DEF Without
  <2>2. QED
    BY <1>0, <1>1, <2>1
<1>2. CASE \E i \in DOMAIN q : q[i] = l
  <2> DEFINE place == CHOOSE i \in DOMAIN q : q[i] = l
             r == [i \in 1..(Len(q) - 1) |-> q[IF i < place THEN i ELSE i + 1]]
  <2>1. place \in 1..Len(q) /\ q[place] = l
    BY <1>0, <1>2
  <2>2. Without(q, l) = r
    BY <1>2 DEF Without
  <2> HIDE DEF place
  <2>3. Len(q) - 1 \in Nat
    BY <1>0, <2>1
  <2>4. \A i \in 1..(Len(q) - 1) : (IF i < place THEN i ELSE i + 1) \in 1..Len(q)
    BY <1>0, <2>1
  <2>5. r \in Seq(Lease) /\ Len(r) = Len(q) - 1
    <3>1. \A i \in 1..(Len(q) - 1) : q[IF i < place THEN i ELSE i + 1] \in Lease
      BY <1>0, <2>4
    <3>2. r \in [1..(Len(q) - 1) -> Lease]
      BY <3>1
    <3>3. QED
      BY <2>3, <3>2
  <2>6. \A i \in 1..(Len(q) - 1) : r[i] = q[IF i < place THEN i ELSE i + 1]
    OBVIOUS
  <2> HIDE DEF r
  <2>7. \A i, k \in 1..Len(r) : r[i] = r[k] => i = k
    <3> SUFFICES ASSUME NEW i \in 1..Len(r), NEW k \in 1..Len(r), r[i] = r[k] PROVE i = k
      OBVIOUS
    <3> DEFINE u == IF i < place THEN i ELSE i + 1
               v == IF k < place THEN k ELSE k + 1
    <3>1. u \in 1..Len(q) /\ v \in 1..Len(q) /\ q[u] = q[v]
      BY <2>4, <2>5, <2>6
    <3>2. u = v
      BY <3>1
    <3>3. QED
      BY <3>2, <1>0, <2>1, <2>3, <2>5
  <2>8. \A i \in 1..Len(r) : r[i] # l /\ \E k \in 1..Len(q) : r[i] = q[k]
    <3> SUFFICES ASSUME NEW i \in 1..Len(r)
                 PROVE  r[i] # l /\ \E k \in 1..Len(q) : r[i] = q[k]
      OBVIOUS
    <3> DEFINE u == IF i < place THEN i ELSE i + 1
    <3>1. u \in 1..Len(q) /\ r[i] = q[u]
      BY <2>4, <2>5, <2>6
    <3>2. u # place
      BY <2>1, <2>5
    <3>3. q[u] # q[place]
      BY <2>1, <3>1, <3>2
    <3>4. QED
      BY <2>1, <3>1, <3>3
  <2>9. \A k \in 1..Len(q) : q[k] # l => \E i \in 1..Len(r) : r[i] = q[k]
    <3> SUFFICES ASSUME NEW k \in 1..Len(q), q[k] # l
                 PROVE  \E i \in 1..Len(r) : r[i] = q[k]
      OBVIOUS
    <3>1. k # place
      BY <2>1
    <3>2. CASE k < place
      <4>1. k \in 1..Len(r)
        BY <1>0, <2>1, <2>5, <3>2
      <4>2. r[k] = q[k]
        BY <2>5, <2>6, <3>2, <4>1
      <4>3. QED
        BY <4>1, <4>2
    <3>3. CASE k > place
      <4>1. k - 1 \in 1..Len(r) /\ ~(k - 1 < place) /\ (k - 1) + 1 = k
        BY <1>0, <2>1, <2>5, <3>3
      <4>2. r[k - 1] = q[k]
        BY <2>5, <2>6, <4>1
      <4>3. QED
        BY <4>1, <4>2
    <3>4. QED
      BY <1>0, <2>1, <3>1, <3>2, <3>3
  <2>10. Len(q) > 0 /\ q[1] # l => Len(r) > 0 /\ r[1] = q[1]
    <3> SUFFICES ASSUME Len(q) > 0, q[1] # l PROVE Len(r) > 0 /\ r[1] = q[1]
      OBVIOUS
    <3>1. place > 1
      BY <2>1, <1>0
    <3>2. Len(r) > 0 /\ 1 \in 1..Len(r) /\ 1 < place
      BY <1>0, <2>1, <2>5, <3>1
    <3>3. QED
      BY <2>5, <2>6, <3>2
  <2>11. QED
    BY <2>2, <2>5, <2>7, <2>8, <2>9, <2>10
<1>3. QED
  BY <1>1, <1>2

\* A step of a helper, or of somebody else's.
LEMMA HelpersKeepTurn ==
    ASSUME TurnInv, UNCHANGED <<waiting, pc>>, TurnTypes',
           \A m \in Lease : Helping(m)' => Helping(m)
    PROVE  TurnInv'
BY DEF TurnInv, InQueue

\* The lease at the front goes on with its work.
LEMMA WorkKeepsTurn ==
    ASSUME TurnInv, NEW l \in Lease, NEW p \in Working, pc[l] \in Working,
           pc' = [pc EXCEPT ![l] = p], UNCHANGED waiting, TurnTypes',
           \A m \in Lease : Helping(m)' => IF m = l THEN p \in {"stream", "join"} ELSE Helping(m)
    PROVE  TurnInv'
<1>1. \A m \in Lease : pc'[m] = IF m = l THEN p ELSE pc[m]
  BY DEF TurnInv, TurnTypes
<1>2. \A i \in 1..Len(waiting) : waiting[i] \in Lease
  BY DEF TurnInv, TurnTypes
<1>3. p # "wait"
  BY DEF Working
<1>4. QED
  BY <1>1, <1>2, <1>3 DEF TurnInv, InQueue

\* Somebody joins at the back.
LEMMA JoinKeepsTurn ==
    ASSUME TurnInv, NEW l \in Lease, Join(l)
    PROVE  TurnInv'
<1>1. /\ pc[l] = "begin" /\ pc' = [pc EXCEPT ![l] = "wait"]
      /\ waiting' = Append(waiting, l) /\ UNCHANGED <<watcher, reporter>>
  BY DEF Join, Goto, reporterVars
<1>2. /\ waiting \in Seq(Lease) /\ waiting' \in Seq(Lease) /\ Len(waiting) \in Nat
      /\ Len(waiting') = Len(waiting) + 1
      /\ \A i \in 1..Len(waiting) : waiting'[i] = waiting[i]
      /\ waiting'[Len(waiting) + 1] = l
  BY <1>1, AppendProperties DEF TurnInv, TurnTypes
<1>3. \A m \in Lease : pc'[m] = IF m = l THEN "wait" ELSE pc[m]
  BY <1>1 DEF TurnInv, TurnTypes
<1>4. \A i \in 1..Len(waiting) : waiting[i] # l /\ waiting[i] \in Lease
  BY <1>1, <1>2 DEF TurnInv, Working
<1>5. TurnTypes'
  BY <1>1, <1>2 DEF TurnInv, TurnTypes, Pc
<1>6. \A i, k \in 1..Len(waiting') : waiting'[i] = waiting'[k] => i = k
  <2> SUFFICES ASSUME NEW i \in 1..Len(waiting'), NEW k \in 1..Len(waiting'),
                      waiting'[i] = waiting'[k]
               PROVE  i = k
    OBVIOUS
  <2>1. CASE i = Len(waiting) + 1 \/ k = Len(waiting) + 1
    BY <1>2, <1>4, <2>1
  <2>2. CASE i # Len(waiting) + 1 /\ k # Len(waiting) + 1
    <3>1. i \in 1..Len(waiting) /\ k \in 1..Len(waiting)
      BY <1>2, <2>2
    <3>2. QED
      BY <1>2, <3>1 DEF TurnInv
  <2>3. QED
    BY <2>1, <2>2
<1>7. \A i \in 1..Len(waiting') : pc'[waiting'[i]] \in Working \cup {"wait"}
  <2> SUFFICES ASSUME NEW i \in 1..Len(waiting')
               PROVE  pc'[waiting'[i]] \in Working \cup {"wait"}
    OBVIOUS
  <2>1. CASE i = Len(waiting) + 1
    BY <1>2, <1>3, <2>1
  <2>2. CASE i \in 1..Len(waiting)
    BY <1>2, <1>3, <1>4, <2>2 DEF TurnInv
  <2>3. QED
    BY <1>2, <2>1, <2>2
<1>8. ASSUME NEW m \in Lease, pc'[m] = "wait" PROVE InQueue(m)'
  <2>1. CASE m = l
    BY <1>2, <2>1 DEF InQueue
  <2>2. CASE m # l
    <3>1. PICK i \in 1..Len(waiting) : waiting[i] = m
      BY <1>3, <1>8, <2>2 DEF TurnInv, InQueue
    <3>2. i \in 1..Len(waiting') /\ waiting'[i] = m
      BY <1>2, <3>1
    <3>3. QED
      BY <3>2 DEF InQueue
  <2>3. QED
    BY <2>1, <2>2
<1>9. ASSUME NEW m \in Lease, pc'[m] \in Working PROVE Len(waiting') > 0 /\ waiting'[1] = m
  <2>1. pc[m] \in Working
    BY <1>3, <1>9 DEF Working
  <2>2. Len(waiting) > 0 /\ waiting[1] = m
    BY <2>1 DEF TurnInv
  <2>3. QED
    BY <1>2, <2>2
<1>10. ASSUME NEW m \in Lease, Helping(m)' PROVE pc'[m] \in {"stream", "join"}
  BY <1>1, <1>3, <1>10 DEF TurnInv, Helping
<1>11. QED
  BY <1>5, <1>6, <1>7, <1>8, <1>9, <1>10 DEF TurnInv

\* A lease that waits or works returns, and those behind it move up.
LEMMA LeaveKeepsTurn ==
    ASSUME TurnInv, NEW l \in Lease, NEW r, Leave(l, r), ~Helping(l),
           pc[l] \in Working \cup {"wait"}, UNCHANGED <<watcher, reporter>>
    PROVE  TurnInv'
<1>1. pc' = [pc EXCEPT ![l] = "done"] /\ waiting' = Without(waiting, l)
  BY DEF Leave, Goto
<1>2. \A m \in Lease : pc'[m] = IF m = l THEN "done" ELSE pc[m]
  BY <1>1 DEF TurnInv, TurnTypes
<1>3. /\ waiting' \in Seq(Lease)
      /\ \A i, k \in 1..Len(waiting') : waiting'[i] = waiting'[k] => i = k
      /\ \A i \in 1..Len(waiting') :
           waiting'[i] # l /\ \E k \in 1..Len(waiting) : waiting'[i] = waiting[k]
      /\ \A k \in 1..Len(waiting) :
           waiting[k] # l => \E i \in 1..Len(waiting') : waiting'[i] = waiting[k]
      /\ Len(waiting) > 0 /\ waiting[1] # l => Len(waiting') > 0 /\ waiting'[1] = waiting[1]
  <2>1. waiting \in Seq(Lease) /\ \A i, k \in 1..Len(waiting) : waiting[i] = waiting[k] => i = k
    BY DEF TurnInv, TurnTypes
  <2> HIDE DEF TurnInv
  <2> DEFINE w == Without(waiting, l)
  <2>2. waiting' = w
    BY <1>1
  <2> SUFFICES
        /\ w \in Seq(Lease)
        /\ \A i, k \in 1..Len(w) : w[i] = w[k] => i = k
        /\ \A i \in 1..Len(w) : w[i] # l /\ \E k \in 1..Len(waiting) : w[i] = waiting[k]
        /\ \A k \in 1..Len(waiting) : waiting[k] # l => \E i \in 1..Len(w) : w[i] = waiting[k]
        /\ Len(waiting) > 0 /\ waiting[1] # l => Len(w) > 0 /\ w[1] = waiting[1]
    BY <2>2
  <2>3. QED
    BY <2>1, Left
<1>4. TurnTypes'
  BY <1>1, <1>3 DEF TurnInv, TurnTypes, Pc
<1>5. ASSUME NEW i \in 1..Len(waiting') PROVE pc'[waiting'[i]] \in Working \cup {"wait"}
  <2>1. PICK k \in 1..Len(waiting) : waiting'[i] = waiting[k]
    BY <1>3, <1>5
  <2>2. waiting[k] \in Lease /\ waiting[k] # l /\ pc[waiting[k]] \in Working \cup {"wait"}
    BY <1>3, <1>5, <2>1 DEF TurnInv, TurnTypes
  <2>3. QED
    BY <1>2, <2>1, <2>2
<1>6. ASSUME NEW m \in Lease, pc'[m] = "wait" PROVE InQueue(m)'
  <2>1. m # l /\ pc[m] = "wait"
    BY <1>2, <1>6
  <2>2. PICK k \in 1..Len(waiting) : waiting[k] = m
    BY <2>1 DEF TurnInv, InQueue
  <2>3. QED
    BY <1>3, <2>1, <2>2 DEF InQueue
<1>7. ASSUME NEW m \in Lease, pc'[m] \in Working PROVE Len(waiting') > 0 /\ waiting'[1] = m
  <2>1. m # l /\ pc[m] \in Working
    BY <1>2, <1>7 DEF Working
  <2>2. QED
    BY <1>3, <2>1 DEF TurnInv
<1>8. ASSUME NEW m \in Lease, Helping(m)' PROVE pc'[m] \in {"stream", "join"}
  BY <1>2, <1>8 DEF TurnInv, Helping
<1>9. QED
  BY <1>3, <1>4, <1>5, <1>6, <1>7, <1>8 DEF TurnInv

LEMMA WorkStepKeepsTurn ==
    ASSUME TurnInv, NEW l \in Lease, WorkStep(l)
    PROVE  TurnInv'
<1> DEFINE Calm == UNCHANGED <<watcher, reporter>>
<1>0. \A m \in Lease : Helping(m) => pc[m] \in {"stream", "join"}
  BY DEF TurnInv
<1>1. CASE TooLarge(l)
  <2>1. pc[l] = "begin" /\ pc' = [pc EXCEPT ![l] = "done"] /\ UNCHANGED <<waiting, watcher, reporter>>
    BY <1>1 DEF TooLarge, Goto, queueVars, reporterVars
  <2>2. \A m \in Lease : pc'[m] = IF m = l THEN "done" ELSE pc[m]
    BY <2>1 DEF TurnInv, TurnTypes
  <2>3. TurnTypes'
    BY <2>1 DEF TurnInv, TurnTypes, Pc
  <2>4. \A i \in 1..Len(waiting) : waiting[i] \in Lease /\ waiting[i] # l
    BY <2>1 DEF TurnInv, TurnTypes, Working
  <2>5. QED
    BY <2>1, <2>2, <2>3, <2>4 DEF TurnInv, InQueue, Helping, Working
<1>2. CASE Join(l)
  BY <1>2, JoinKeepsTurn
<1>3. CASE TakeTurn(l)
  <2>1. /\ pc[l] = "wait" /\ pc' = [pc EXCEPT ![l] = "open"] /\ Head(waiting) = l
        /\ UNCHANGED <<waiting, watcher, reporter>>
    BY <1>3 DEF TakeTurn, Goto, queueVars, reporterVars
  <2>2. \A m \in Lease : pc'[m] = IF m = l THEN "open" ELSE pc[m]
    BY <2>1 DEF TurnInv, TurnTypes
  <2>3. TurnTypes'
    BY <2>1 DEF TurnInv, TurnTypes, Pc, Working
  <2>4. Len(waiting) > 0 /\ waiting[1] = l
    BY <2>1 DEF TurnInv, TurnTypes, InQueue
  <2>5. \A i \in 1..Len(waiting) : waiting[i] \in Lease
    BY DEF TurnInv, TurnTypes
  <2>6. "open" \in Working
    BY DEF Working
  <2>7. QED
    BY <2>1, <2>2, <2>3, <2>4, <2>5, <2>6 DEF TurnInv, InQueue, Helping
<1>4. CASE \E r : Leave(l, r) /\ pc[l] \in Working \cup {"wait"} /\ Calm /\ ~Helping(l)
  BY <1>4, LeaveKeepsTurn
<1>5. CASE \E p \in Working : /\ pc' = [pc EXCEPT ![l] = p] /\ pc[l] \in Working /\ UNCHANGED waiting
                              /\ Calm /\ (Helping(l) => p \in {"stream", "join"})
  <2>1. PICK p \in Working : /\ pc' = [pc EXCEPT ![l] = p] /\ pc[l] \in Working /\ UNCHANGED waiting
                             /\ Calm /\ (Helping(l) => p \in {"stream", "join"})
    BY <1>5
  <2>2. TurnTypes'
    BY <2>1 DEF TurnInv, TurnTypes, Pc
  <2>3. \A m \in Lease : Helping(m)' <=> Helping(m)
    BY <2>1 DEF Helping
  <2>4. QED
    BY <2>1, <2>2, <2>3, WorkKeepsTurn
<1>6. CASE GiveUpTurn(l)
  <2>1. Leave(l, "Ok") /\ pc[l] = "wait" /\ Calm
    BY <1>6 DEF GiveUpTurn, reporterVars
  <2>2. QED
    BY <1>0, <1>4, <2>1
<1>7. CASE OpenScreen(l)
  <2>1. pc[l] = "open" /\ Calm
    BY <1>7 DEF OpenScreen, reporterVars
  <2>2. Leave(l, "DeviceFault") \/ (pc' = [pc EXCEPT ![l] = "head"] /\ UNCHANGED waiting)
    BY <1>7 DEF OpenScreen, Goto, queueVars
  <2>3. "open" \in Working /\ "head" \in Working
    BY DEF Working
  <2>4. QED
    BY <1>0, <1>4, <1>5, <2>1, <2>2, <2>3
<1>8. CASE NextChunk(l)
  <2>1. /\ pc[l] = "head" /\ Calm /\ UNCHANGED waiting
        /\ pc' = [pc EXCEPT ![l] = IF screened[l] THEN "probe" ELSE "solve"]
    BY <1>8 DEF NextChunk, Goto, queueVars, reporterVars
  <2>2. "head" \in Working /\ (IF screened[l] THEN "probe" ELSE "solve") \in Working
    BY DEF Working
  <2>3. QED
    BY <1>0, <1>5, <2>1, <2>2
<1>9. CASE LeaseOver(l) \/ ScreenRefused(l) \/ DecideStopped(l) \/ DrawFails(l) \/ SolveStopped(l)
  <2>1. /\ \E r : Leave(l, r)
        /\ pc[l] \in {"head", "decide", "solve"} /\ Calm
    BY <1>9 DEF LeaseOver, ScreenRefused, DecideStopped, DrawFails, SolveStopped, reporterVars
  <2>2. {"head", "decide", "solve"} \subseteq Working
    BY DEF Working
  <2>3. QED
    BY <1>0, <1>4, <2>1, <2>2
<1>10. CASE Probe(l)
  <2>1. pc[l] = "probe" /\ Calm
    BY <1>10 DEF Probe, reporterVars
  <2>2. Leave(l, "DeviceFault") \/ (pc' = [pc EXCEPT ![l] = "decide"] /\ UNCHANGED waiting)
    BY <1>10 DEF Probe, Goto, queueVars
  <2>3. "probe" \in Working /\ "decide" \in Working
    BY DEF Working
  <2>4. QED
    BY <1>0, <1>4, <1>5, <2>1, <2>2, <2>3
<1>11. CASE Decide(l)
  <2>1. UNCHANGED <<waiting, pc, watcher, reporter>>
    BY <1>11 DEF Decide, queueVars, reporterVars
  <2>2. TurnTypes' /\ \A m \in Lease : Helping(m)' => Helping(m)
    BY <2>1 DEF TurnInv, TurnTypes, Helping
  <2>3. QED
    BY <2>1, <2>2, HelpersKeepTurn
<1>12. CASE Decided(l) \/ NothingToSolve(l)
  <2>1. /\ pc[l] \in {"decide", "solve"} /\ Calm /\ UNCHANGED waiting
        /\ \E p \in {"head", "solve"} : pc' = [pc EXCEPT ![l] = p]
    BY <1>12 DEF Decided, NothingToSolve, Advance, Goto, queueVars, reporterVars
  <2>2. {"decide", "head", "solve"} \subseteq Working
    BY DEF Working
  <2>3. QED
    BY <1>0, <1>5, <2>1, <2>2
<1>13. CASE RunFullBatch(l)
  <2>1. /\ pc[l] = "solve" /\ pc' = [pc EXCEPT ![l] = "stream"] /\ UNCHANGED waiting
        /\ watcher' = [watcher EXCEPT ![l] = "watch"]
        /\ reporter' = [reporter EXCEPT ![l] = "build"]
    BY <1>13 DEF RunFullBatch, Goto, queueVars
  <2>2. "solve" \in Working /\ "stream" \in Working
    BY DEF Working
  <2>3. TurnTypes'
    BY <2>1, <2>2 DEF TurnInv, TurnTypes, Pc
  <2>4. \A m \in Lease : m # l => (Helping(m)' <=> Helping(m))
    BY <2>1 DEF TurnInv, TurnTypes, Helping
  <2>5. QED
    BY <2>1, <2>2, <2>3, <2>4, WorkKeepsTurn
<1>14. CASE StreamReturns(l)
  <2>1. pc[l] = "stream" /\ Calm /\ UNCHANGED waiting /\ pc' = [pc EXCEPT ![l] = "join"]
    BY <1>14 DEF StreamReturns, Goto, queueVars, reporterVars
  <2>2. "stream" \in Working /\ "join" \in Working
    BY DEF Working
  <2>3. QED
    BY <1>5, <2>1, <2>2
<1>15. CASE Solved(l)
  <2>1. pc[l] = "join" /\ Calm /\ ~Helping(l)
    BY <1>15 DEF Solved, HelpersJoined, Helping
  <2>2. \/ \E r : Leave(l, r)
        \/ pc' = [pc EXCEPT ![l] = "head"] /\ UNCHANGED waiting
    BY <1>15 DEF Solved, Advance, Goto, queueVars
  <2>3. "join" \in Working /\ "head" \in Working
    BY DEF Working
  <2>4. QED
    BY <1>4, <1>5, <2>1, <2>2, <2>3
<1>16. QED
  BY <1>1, <1>2, <1>3, <1>6, <1>7, <1>8, <1>9, <1>10, <1>11, <1>12, <1>13, <1>14, <1>15 DEF WorkStep

LEMMA TurnStep == TurnInv /\ [Next]_vars => TurnInv'
<1> SUFFICES ASSUME TurnInv, [Next]_vars PROVE TurnInv'
  OBVIOUS
<1>1. CASE UNCHANGED vars
  <2>1. UNCHANGED <<waiting, pc, watcher, reporter>>
    BY <1>1 DEF vars, queueVars, reporterVars
  <2>2. TurnTypes' /\ \A m \in Lease : Helping(m)' => Helping(m)
    BY <2>1 DEF TurnInv, TurnTypes, Helping
  <2>3. QED
    BY <2>1, <2>2, HelpersKeepTurn
<1>2. ASSUME NEW l \in Lease, ReportStep(l) \/ Push(l) PROVE TurnInv'
  <2>1. UNCHANGED <<waiting, pc, watcher>> /\ reporter[l] # "off"
    BY <1>2 DEF ReportStep, BuildRuntime, Notice, TimedOut, Receive, CheckStopped, NoReads,
        ReadyToPush, Conclude, Push, queueVars
  <2>2. \E r \in {"off", "loop", "receive", "check", "empty", "push"} :
            reporter' = [reporter EXCEPT ![l] = r]
    BY <1>2 DEF ReportStep, BuildRuntime, Notice, TimedOut, Receive, CheckStopped, NoReads,
        ReadyToPush, Conclude, Push, Take, Return, Reporter
  <2>3. TurnTypes' /\ \A m \in Lease : Helping(m)' => Helping(m)
    BY <2>1, <2>2 DEF TurnInv, TurnTypes, Helping
  <2>4. QED
    BY <2>1, <2>3, HelpersKeepTurn
<1>3. ASSUME NEW l \in Lease, SinkStops(l) \/ SinkGoes(l) \/ \E s \in Salt, o \in Outcome : Respond(l, s, o)
      PROVE TurnInv'
  <2>1. UNCHANGED <<waiting, pc, watcher, reporter>>
    BY <1>3 DEF SinkStops, SinkGoes, Respond, queueVars, reporterVars
  <2>2. TurnTypes' /\ \A m \in Lease : Helping(m)' => Helping(m)
    BY <2>1 DEF TurnInv, TurnTypes, Helping
  <2>3. QED
    BY <2>1, <2>2, HelpersKeepTurn
<1>4. ASSUME NEW l \in Lease, Watch(l) PROVE TurnInv'
  <2>1. UNCHANGED <<waiting, pc, reporter>> /\ watcher' = [watcher EXCEPT ![l] = "off"]
    BY <1>4 DEF Watch, queueVars, reporterVars
  <2>2. TurnTypes' /\ \A m \in Lease : Helping(m)' => Helping(m)
    BY <2>1 DEF TurnInv, TurnTypes, Helping
  <2>3. QED
    BY <2>1, <2>2, HelpersKeepTurn
<1>5. QED
  BY <1>1, <1>2, <1>3, <1>4, WorkStepKeepsTurn DEF Next

LEMMA TurnInit == Init => TurnInv
BY DEF Init, TurnInv, TurnTypes, InQueue, Helping, Pc, Working

\* One lease at a time uses the device, and none while a helper thread of
\* another is left: the Turn is dropped after run_full_batch joined both.
THEOREM OneAtATime == Spec => []HoldsTurn
<1>1. ASSUME TurnInv PROVE HoldsTurn
  <2>1. ASSUME NEW l \in Lease, Busy(l) PROVE waiting # <<>> /\ Head(waiting) = l
    <3>1. pc[l] \in Working
      BY <1>1, <2>1 DEF Busy, TurnInv, Helping, Working
    <3>2. QED
      BY <1>1, <3>1 DEF TurnInv, TurnTypes
  <2>2. \A i \in DOMAIN waiting : pc[waiting[i]] \in Working \cup {"wait"}
    BY <1>1 DEF TurnInv, TurnTypes
  <2>3. QED
    BY <2>1, <2>2 DEF HoldsTurn
<1>2. QED
  BY <1>1, TurnInit, TurnStep, PTL DEF Spec

-----------------------------------------------------------------------------
(***************************************************************************)
(* What sample returns                                                     *)
(***************************************************************************)
Solving(l) == pc[l] \in {"stream", "join"}
Trouble == faults + busies > 0

\* The sink, or an error, is why not everything was told.
Excused(l) ==
    sink[l] # "open" \/ failure[l] # "none" \/ verdict[l] \in {"Capacity", "DeviceFault"}

\* A full solve starts with nothing of the last one.
FreshSolve(l) ==
    ~Solving(l) => ~stopped[l] /\ ~cancel[l] /\ failure[l] = "none" /\ verdict[l] = "none"

\* A salt is unanswered, or its one answer is in the channel, until it is
\* received; an answer tells of trouble only if there was some.
InOut(l, s) == \E i \in 1..Len(out[l]) : out[l][i].salt = s

Outstanding(l) ==
    Solving(l) =>
        /\ jobs[l] \subseteq pending[l]
        /\ pc[l] = "join" => jobs[l] = {}
        /\ \A i \in 1..Len(out[l]) : out[l][i].salt \in pending[l] \ jobs[l]
        /\ \A i, k \in 1..Len(out[l]) : out[l][i].salt = out[l][k].salt => i = k
        /\ ~stopped[l] /\ failure[l] = "none" =>
             \A s \in pending[l] : s \in jobs[l] \/ InOut(l, s)

TrueAnswers(l) ==
    \A i \in 1..Len(out[l]) :
        /\ out[l][i].outcome \notin {"reads", "cancelled"} => Trouble
        /\ out[l][i].outcome = "cancelled" => Excused(l)

\* Why the reporter stopped, and what it says at its end.
TrueReport(l) ==
    /\ reporter[l] # "off" => verdict[l] = "none"
    /\ pc[l] = "stream" /\ reporter[l] = "off" => verdict[l] = "DeviceFault"
    /\ stopped[l] \/ cancel[l] => Excused(l)
    /\ verdict[l] = "Ok" => sink[l] # "open"
    /\ verdict[l] = "more" =>
         failure[l] = "none" /\ (sink[l] = "open" => pending[l] = {} /\ current[l] = NoSalt)

\* A device fault is reported only of a device, or a thread, that failed.
TrueFault(l) ==
    /\ failure[l] \in {"none", "Capacity", "DeviceFault"}
    /\ "DeviceFault" \in {failure[l], verdict[l], result[l]} => Trouble
    /\ reporter[l] = "empty" => Trouble

\* While the sink takes everything, a salt behind the work was told, and one
\* of the chunk was told or is in somebody's hands.
Reached(l, s) == ~(told[l][s] = "nothing") \/ s \in pending[l]

ToldBehind(l) ==
    sink[l] = "open" =>
        /\ \A s \in Salt : s < start[l] => told[l][s] # "nothing"
        /\ result[l] = "Ok" => \A s \in Salt : s < Salts[l] => told[l][s] # "nothing"
        /\ pc[l] = "decide" => upto[l] = end[l] /\ \A s \in Salt : s < at[l] => Reached(l, s)
        /\ pc[l] = "solve" => \A s \in Salt : s < end[l] => Reached(l, s)
        /\ Solving(l) /\ ~Excused(l) =>
             \A s \in Salt : s < end[l] => Reached(l, s) \/ s = current[l]

Honest(l) ==
    /\ FreshSolve(l) /\ Outstanding(l) /\ TrueAnswers(l)
    /\ TrueReport(l) /\ TrueFault(l) /\ ToldBehind(l)

VerdictInv == \A l \in Lease : Honest(l)

\* The types of the variables that the invariants above do not speak of.
OutcomeTypes ==
    /\ sink \in [Lease -> {"open", "stopped", "gone"}]
    /\ result \in [Lease -> Result \cup {"none"}]
    /\ cancel \in [Lease -> BOOLEAN] /\ stopped \in [Lease -> BOOLEAN]
    /\ failure \in [Lease -> Result \cup {"none"}]
    /\ verdict \in [Lease -> Result \cup {"none", "more"}]
    /\ faults \in 0..MaxFaults /\ busies \in 0..MaxFaults

\* Nothing of a lease changes but what its own steps change.
SameSolve(m) ==
    /\ out'[m] = out[m] /\ jobs'[m] = jobs[m] /\ cancel'[m] = cancel[m]
    /\ stopped'[m] = stopped[m] /\ failure'[m] = failure[m] /\ verdict'[m] = verdict[m]

Steady(m) == Same(m) /\ SameSolve(m) /\ sink'[m] = sink[m] /\ result'[m] = result[m]

Framed(l) ==
    /\ OutcomeTypes'
    /\ \A m \in Lease \ {l} : Steady(m)
    /\ faults' >= faults /\ busies' >= busies

LEMMA SteadyStaysHonest ==
    ASSUME NEW m \in Lease, Honest(m), Steady(m), Trouble => Trouble'
    PROVE  Honest(m)'
<1> USE DEF Steady, Same, SameChunk, SameSalts, SameHand, SameSolve
<1>1. Excused(m)' <=> Excused(m)
  BY DEF Excused
<1>2. FreshSolve(m)' /\ Outstanding(m)' /\ TrueReport(m)'
  BY <1>1 DEF Honest, FreshSolve, Solving, Outstanding, InOut, TrueReport
<1>3. TrueAnswers(m)' /\ TrueFault(m)'
  BY <1>1 DEF Honest, TrueAnswers, TrueFault
<1>4. ToldBehind(m)'
  BY <1>1 DEF Honest, ToldBehind, Reached, Solving
<1>5. QED
  BY <1>2, <1>3, <1>4 DEF Honest

\* One failed call more is within the bound.
LEMMA FailTypes ==
    ASSUME TypeOK
    PROVE  /\ faults \in Nat /\ busies \in Nat
           /\ Fail => faults' \in 0..MaxFaults /\ busies' = busies /\ faults' > faults
           /\ MayFail => busies + 1 \in 0..MaxFaults
BY Assumption DEF TypeOK, Fail, MayFail

LEMMA StepsAreFramed ==
    ASSUME TypeOK, NEW l \in Lease
    PROVE  /\ SinkStops(l) \/ SinkGoes(l) \/ Push(l) \/ Watch(l) => Framed(l)
           /\ WorkStep(l) => Framed(l)
           /\ ReportStep(l) => Framed(l)
           /\ \A s \in Salt, o \in Outcome : Respond(l, s, o) => Framed(l)
<1> USE DEF queueVars, chunkVars, streamVars, reporterVars, troubleVars
<1>0. /\ faults \in Nat /\ busies \in Nat
      /\ Fail => faults' \in 0..MaxFaults /\ busies' = busies /\ faults' > faults
      /\ MayFail => busies + 1 \in 0..MaxFaults
  BY FailTypes
<1>1. SinkStops(l) => Framed(l)
  <2> SUFFICES ASSUME SinkStops(l) PROVE Framed(l)
    OBVIOUS
  <2>1. OutcomeTypes'
    BY <1>0 DEF OutcomeTypes, TypeOK, Result, SinkStops
  <2>2. faults' >= faults /\ busies' >= busies
    BY <1>0 DEF SinkStops
  <2>3. ASSUME NEW m \in Lease \ {l} PROVE Same(m)
    BY DEF TypeOK, Same, SameChunk, SameSalts, SameHand, SinkStops
  <2>4. ASSUME NEW m \in Lease \ {l} PROVE SameSolve(m) /\ sink'[m] = sink[m] /\ result'[m] = result[m]
    BY DEF TypeOK, SameSolve, SinkStops
  <2>5. QED
    BY <2>1, <2>2, <2>3, <2>4 DEF Framed, Steady
<1>2. SinkGoes(l) => Framed(l)
  <2> SUFFICES ASSUME SinkGoes(l) PROVE Framed(l)
    OBVIOUS
  <2>1. OutcomeTypes'
    BY <1>0 DEF OutcomeTypes, TypeOK, Result, SinkGoes
  <2>2. faults' >= faults /\ busies' >= busies
    BY <1>0 DEF SinkGoes
  <2>3. ASSUME NEW m \in Lease \ {l} PROVE Same(m)
    BY DEF TypeOK, Same, SameChunk, SameSalts, SameHand, SinkGoes
  <2>4. ASSUME NEW m \in Lease \ {l} PROVE SameSolve(m) /\ sink'[m] = sink[m] /\ result'[m] = result[m]
    BY DEF TypeOK, SameSolve, SinkGoes
  <2>5. QED
    BY <2>1, <2>2, <2>3, <2>4 DEF Framed, Steady
<1>3. TooLarge(l) => Framed(l)
  <2> SUFFICES ASSUME TooLarge(l) PROVE Framed(l)
    OBVIOUS
  <2>1. OutcomeTypes'
    BY <1>0 DEF OutcomeTypes, TypeOK, Result, TooLarge, Goto
  <2>2. faults' >= faults /\ busies' >= busies
    BY <1>0 DEF TooLarge, Goto
  <2>3. ASSUME NEW m \in Lease \ {l} PROVE Same(m)
    BY DEF TypeOK, Same, SameChunk, SameSalts, SameHand, TooLarge, Goto
  <2>4. ASSUME NEW m \in Lease \ {l} PROVE SameSolve(m) /\ sink'[m] = sink[m] /\ result'[m] = result[m]
    BY DEF TypeOK, SameSolve, TooLarge, Goto
  <2>5. QED
    BY <2>1, <2>2, <2>3, <2>4 DEF Framed, Steady
<1>4. Join(l) => Framed(l)
  <2> SUFFICES ASSUME Join(l) PROVE Framed(l)
    OBVIOUS
  <2>1. OutcomeTypes'
    BY <1>0 DEF OutcomeTypes, TypeOK, Result, Join, Goto
  <2>2. faults' >= faults /\ busies' >= busies
    BY <1>0 DEF Join, Goto
  <2>3. ASSUME NEW m \in Lease \ {l} PROVE Same(m)
    BY DEF TypeOK, Same, SameChunk, SameSalts, SameHand, Join, Goto
  <2>4. ASSUME NEW m \in Lease \ {l} PROVE SameSolve(m) /\ sink'[m] = sink[m] /\ result'[m] = result[m]
    BY DEF TypeOK, SameSolve, Join, Goto
  <2>5. QED
    BY <2>1, <2>2, <2>3, <2>4 DEF Framed, Steady
<1>5. TakeTurn(l) => Framed(l)
  <2> SUFFICES ASSUME TakeTurn(l) PROVE Framed(l)
    OBVIOUS
  <2>1. OutcomeTypes'
    BY <1>0 DEF OutcomeTypes, TypeOK, Result, TakeTurn, Goto
  <2>2. faults' >= faults /\ busies' >= busies
    BY <1>0 DEF TakeTurn, Goto
  <2>3. ASSUME NEW m \in Lease \ {l} PROVE Same(m)
    BY DEF TypeOK, Same, SameChunk, SameSalts, SameHand, TakeTurn, Goto
  <2>4. ASSUME NEW m \in Lease \ {l} PROVE SameSolve(m) /\ sink'[m] = sink[m] /\ result'[m] = result[m]
    BY DEF TypeOK, SameSolve, TakeTurn, Goto
  <2>5. QED
    BY <2>1, <2>2, <2>3, <2>4 DEF Framed, Steady
<1>6. GiveUpTurn(l) => Framed(l)
  <2> SUFFICES ASSUME GiveUpTurn(l) PROVE Framed(l)
    OBVIOUS
  <2>1. OutcomeTypes'
    BY <1>0 DEF OutcomeTypes, TypeOK, Result, GiveUpTurn, Leave, DropChunk, Goto
  <2>2. faults' >= faults /\ busies' >= busies
    BY <1>0 DEF GiveUpTurn, Leave, DropChunk, Goto
  <2>3. ASSUME NEW m \in Lease \ {l} PROVE Same(m)
    BY DEF TypeOK, Same, SameChunk, SameSalts, SameHand, GiveUpTurn, Leave, DropChunk, Goto
  <2>4. ASSUME NEW m \in Lease \ {l} PROVE SameSolve(m) /\ sink'[m] = sink[m] /\ result'[m] = result[m]
    BY DEF TypeOK, SameSolve, GiveUpTurn, Leave, DropChunk, Goto
  <2>5. QED
    BY <2>1, <2>2, <2>3, <2>4 DEF Framed, Steady
<1>7. OpenScreen(l) => Framed(l)
  <2> SUFFICES ASSUME OpenScreen(l) PROVE Framed(l)
    OBVIOUS
  <2>1. OutcomeTypes'
    <3>1. UNCHANGED <<sink, cancel, stopped, failure, verdict>>
      BY DEF OpenScreen, reporterVars
    <3>2. result' \in [Lease -> Result \cup {"none"}]
      BY DEF TypeOK, Result, OpenScreen, Leave
    <3>3. faults' \in 0..MaxFaults /\ busies' \in 0..MaxFaults
      BY <1>0 DEF TypeOK, OpenScreen
    <3>4. QED
      BY <3>1, <3>2, <3>3 DEF OutcomeTypes, TypeOK
  <2>2. faults' >= faults /\ busies' >= busies
    BY <1>0 DEF OpenScreen, Goto, Leave, DropChunk
  <2>3. ASSUME NEW m \in Lease \ {l} PROVE Same(m)
    BY DEF TypeOK, Same, SameChunk, SameSalts, SameHand, OpenScreen, Goto, Leave, DropChunk
  <2>4. ASSUME NEW m \in Lease \ {l} PROVE SameSolve(m) /\ sink'[m] = sink[m] /\ result'[m] = result[m]
    BY DEF TypeOK, SameSolve, OpenScreen, Goto, Leave, DropChunk
  <2>5. QED
    BY <2>1, <2>2, <2>3, <2>4 DEF Framed, Steady
<1>8. NextChunk(l) => Framed(l)
  <2> SUFFICES ASSUME NextChunk(l) PROVE Framed(l)
    OBVIOUS
  <2>1. OutcomeTypes'
    BY <1>0 DEF OutcomeTypes, TypeOK, Result, NextChunk, Goto
  <2>2. faults' >= faults /\ busies' >= busies
    BY <1>0 DEF NextChunk, Goto
  <2>3. ASSUME NEW m \in Lease \ {l} PROVE Same(m)
    BY DEF TypeOK, Same, SameChunk, SameSalts, SameHand, NextChunk, Goto
  <2>4. ASSUME NEW m \in Lease \ {l} PROVE SameSolve(m) /\ sink'[m] = sink[m] /\ result'[m] = result[m]
    BY DEF TypeOK, SameSolve, NextChunk, Goto
  <2>5. QED
    BY <2>1, <2>2, <2>3, <2>4 DEF Framed, Steady
<1>9. LeaseOver(l) => Framed(l)
  <2> SUFFICES ASSUME LeaseOver(l) PROVE Framed(l)
    OBVIOUS
  <2>1. OutcomeTypes'
    BY <1>0 DEF OutcomeTypes, TypeOK, Result, LeaseOver, Leave, DropChunk, Goto
  <2>2. faults' >= faults /\ busies' >= busies
    BY <1>0 DEF LeaseOver, Leave, DropChunk, Goto
  <2>3. ASSUME NEW m \in Lease \ {l} PROVE Same(m)
    BY DEF TypeOK, Same, SameChunk, SameSalts, SameHand, LeaseOver, Leave, DropChunk, Goto
  <2>4. ASSUME NEW m \in Lease \ {l} PROVE SameSolve(m) /\ sink'[m] = sink[m] /\ result'[m] = result[m]
    BY DEF TypeOK, SameSolve, LeaseOver, Leave, DropChunk, Goto
  <2>5. QED
    BY <2>1, <2>2, <2>3, <2>4 DEF Framed, Steady
<1>10. Probe(l) => Framed(l)
  <2> SUFFICES ASSUME Probe(l) PROVE Framed(l)
    OBVIOUS
  <2>1. OutcomeTypes'
    <3>1. UNCHANGED <<sink, cancel, stopped, failure, verdict>>
      BY DEF Probe, reporterVars
    <3>2. result' \in [Lease -> Result \cup {"none"}]
      BY DEF TypeOK, Result, Probe, Leave
    <3>3. faults' \in 0..MaxFaults /\ busies' \in 0..MaxFaults
      BY <1>0 DEF TypeOK, Probe
    <3>4. QED
      BY <3>1, <3>2, <3>3 DEF OutcomeTypes, TypeOK
  <2>2. faults' >= faults /\ busies' >= busies
    BY <1>0 DEF Probe, Goto, Leave, DropChunk
  <2>3. ASSUME NEW m \in Lease \ {l} PROVE Same(m)
    BY DEF TypeOK, Same, SameChunk, SameSalts, SameHand, Probe, Goto, Leave, DropChunk
  <2>4. ASSUME NEW m \in Lease \ {l} PROVE SameSolve(m) /\ sink'[m] = sink[m] /\ result'[m] = result[m]
    BY DEF TypeOK, SameSolve, Probe, Goto, Leave, DropChunk
  <2>5. QED
    BY <2>1, <2>2, <2>3, <2>4 DEF Framed, Steady
<1>11. Decide(l) => Framed(l)
  <2> SUFFICES ASSUME Decide(l) PROVE Framed(l)
    OBVIOUS
  <2>1. OutcomeTypes'
    BY <1>0 DEF OutcomeTypes, TypeOK, Result, Decide, Admit, Tell
  <2>2. faults' >= faults /\ busies' >= busies
    BY <1>0 DEF Decide, Admit, Tell
  <2>3. ASSUME NEW m \in Lease \ {l} PROVE Same(m)
    BY DEF TypeOK, Same, SameChunk, SameSalts, SameHand, Decide, Admit, Tell
  <2>4. ASSUME NEW m \in Lease \ {l} PROVE SameSolve(m) /\ sink'[m] = sink[m] /\ result'[m] = result[m]
    BY DEF TypeOK, SameSolve, Decide, Admit, Tell
  <2>5. QED
    BY <2>1, <2>2, <2>3, <2>4 DEF Framed, Steady
<1>12. ScreenRefused(l) => Framed(l)
  <2> SUFFICES ASSUME ScreenRefused(l) PROVE Framed(l)
    OBVIOUS
  <2>1. OutcomeTypes'
    BY <1>0 DEF OutcomeTypes, TypeOK, Result, ScreenRefused, Leave, DropChunk, Goto
  <2>2. faults' >= faults /\ busies' >= busies
    BY <1>0 DEF ScreenRefused, Leave, DropChunk, Goto
  <2>3. ASSUME NEW m \in Lease \ {l} PROVE Same(m)
    BY DEF TypeOK, Same, SameChunk, SameSalts, SameHand, ScreenRefused, Leave, DropChunk, Goto
  <2>4. ASSUME NEW m \in Lease \ {l} PROVE SameSolve(m) /\ sink'[m] = sink[m] /\ result'[m] = result[m]
    BY DEF TypeOK, SameSolve, ScreenRefused, Leave, DropChunk, Goto
  <2>5. QED
    BY <2>1, <2>2, <2>3, <2>4 DEF Framed, Steady
<1>13. DecideStopped(l) => Framed(l)
  <2> SUFFICES ASSUME DecideStopped(l) PROVE Framed(l)
    OBVIOUS
  <2>1. OutcomeTypes'
    BY <1>0 DEF OutcomeTypes, TypeOK, Result, DecideStopped, Leave, DropChunk, Goto
  <2>2. faults' >= faults /\ busies' >= busies
    BY <1>0 DEF DecideStopped, Leave, DropChunk, Goto
  <2>3. ASSUME NEW m \in Lease \ {l} PROVE Same(m)
    BY DEF TypeOK, Same, SameChunk, SameSalts, SameHand, DecideStopped, Leave, DropChunk, Goto
  <2>4. ASSUME NEW m \in Lease \ {l} PROVE SameSolve(m) /\ sink'[m] = sink[m] /\ result'[m] = result[m]
    BY DEF TypeOK, SameSolve, DecideStopped, Leave, DropChunk, Goto
  <2>5. QED
    BY <2>1, <2>2, <2>3, <2>4 DEF Framed, Steady
<1>14. Decided(l) => Framed(l)
  <2> SUFFICES ASSUME Decided(l) PROVE Framed(l)
    OBVIOUS
  <2>1. OutcomeTypes'
    BY <1>0 DEF OutcomeTypes, TypeOK, Result, Decided, Goto
  <2>2. faults' >= faults /\ busies' >= busies
    BY <1>0 DEF Decided, Goto
  <2>3. ASSUME NEW m \in Lease \ {l} PROVE Same(m)
    BY DEF TypeOK, Same, SameChunk, SameSalts, SameHand, Decided, Goto
  <2>4. ASSUME NEW m \in Lease \ {l} PROVE SameSolve(m) /\ sink'[m] = sink[m] /\ result'[m] = result[m]
    BY DEF TypeOK, SameSolve, Decided, Goto
  <2>5. QED
    BY <2>1, <2>2, <2>3, <2>4 DEF Framed, Steady
<1>15. NothingToSolve(l) => Framed(l)
  <2> SUFFICES ASSUME NothingToSolve(l) PROVE Framed(l)
    OBVIOUS
  <2>1. OutcomeTypes'
    BY <1>0 DEF OutcomeTypes, TypeOK, Result, NothingToSolve, Advance, DropChunk, Goto
  <2>2. faults' >= faults /\ busies' >= busies
    BY <1>0 DEF NothingToSolve, Advance, DropChunk, Goto
  <2>3. ASSUME NEW m \in Lease \ {l} PROVE Same(m)
    BY DEF TypeOK, Same, SameChunk, SameSalts, SameHand, NothingToSolve, Advance, DropChunk, Goto
  <2>4. ASSUME NEW m \in Lease \ {l} PROVE SameSolve(m) /\ sink'[m] = sink[m] /\ result'[m] = result[m]
    BY DEF TypeOK, SameSolve, NothingToSolve, Advance, DropChunk, Goto
  <2>5. QED
    BY <2>1, <2>2, <2>3, <2>4 DEF Framed, Steady
<1>16. DrawFails(l) => Framed(l)
  <2> SUFFICES ASSUME DrawFails(l) PROVE Framed(l)
    OBVIOUS
  <2>1. OutcomeTypes'
    BY <1>0 DEF OutcomeTypes, TypeOK, Result, DrawFails, Leave, DropChunk, Goto
  <2>2. faults' >= faults /\ busies' >= busies
    BY <1>0 DEF DrawFails, Leave, DropChunk, Goto
  <2>3. ASSUME NEW m \in Lease \ {l} PROVE Same(m)
    BY DEF TypeOK, Same, SameChunk, SameSalts, SameHand, DrawFails, Leave, DropChunk, Goto
  <2>4. ASSUME NEW m \in Lease \ {l} PROVE SameSolve(m) /\ sink'[m] = sink[m] /\ result'[m] = result[m]
    BY DEF TypeOK, SameSolve, DrawFails, Leave, DropChunk, Goto
  <2>5. QED
    BY <2>1, <2>2, <2>3, <2>4 DEF Framed, Steady
<1>17. SolveStopped(l) => Framed(l)
  <2> SUFFICES ASSUME SolveStopped(l) PROVE Framed(l)
    OBVIOUS
  <2>1. OutcomeTypes'
    BY <1>0 DEF OutcomeTypes, TypeOK, Result, SolveStopped, Leave, DropChunk, Goto
  <2>2. faults' >= faults /\ busies' >= busies
    BY <1>0 DEF SolveStopped, Leave, DropChunk, Goto
  <2>3. ASSUME NEW m \in Lease \ {l} PROVE Same(m)
    BY DEF TypeOK, Same, SameChunk, SameSalts, SameHand, SolveStopped, Leave, DropChunk, Goto
  <2>4. ASSUME NEW m \in Lease \ {l} PROVE SameSolve(m) /\ sink'[m] = sink[m] /\ result'[m] = result[m]
    BY DEF TypeOK, SameSolve, SolveStopped, Leave, DropChunk, Goto
  <2>5. QED
    BY <2>1, <2>2, <2>3, <2>4 DEF Framed, Steady
<1>18. RunFullBatch(l) => Framed(l)
  <2> SUFFICES ASSUME RunFullBatch(l) PROVE Framed(l)
    OBVIOUS
  <2>1. OutcomeTypes'
    BY <1>0 DEF OutcomeTypes, TypeOK, Result, RunFullBatch, Goto
  <2>2. faults' >= faults /\ busies' >= busies
    BY <1>0 DEF RunFullBatch, Goto
  <2>3. ASSUME NEW m \in Lease \ {l} PROVE Same(m)
    BY DEF TypeOK, Same, SameChunk, SameSalts, SameHand, RunFullBatch, Goto
  <2>4. ASSUME NEW m \in Lease \ {l} PROVE SameSolve(m) /\ sink'[m] = sink[m] /\ result'[m] = result[m]
    BY DEF TypeOK, SameSolve, RunFullBatch, Goto
  <2>5. QED
    BY <2>1, <2>2, <2>3, <2>4 DEF Framed, Steady
<1>19. StreamReturns(l) => Framed(l)
  <2> SUFFICES ASSUME StreamReturns(l) PROVE Framed(l)
    OBVIOUS
  <2>1. OutcomeTypes'
    BY <1>0 DEF OutcomeTypes, TypeOK, Result, StreamReturns, Goto
  <2>2. faults' >= faults /\ busies' >= busies
    BY <1>0 DEF StreamReturns, Goto
  <2>3. ASSUME NEW m \in Lease \ {l} PROVE Same(m)
    BY DEF TypeOK, Same, SameChunk, SameSalts, SameHand, StreamReturns, Goto
  <2>4. ASSUME NEW m \in Lease \ {l} PROVE SameSolve(m) /\ sink'[m] = sink[m] /\ result'[m] = result[m]
    BY DEF TypeOK, SameSolve, StreamReturns, Goto
  <2>5. QED
    BY <2>1, <2>2, <2>3, <2>4 DEF Framed, Steady
<1>20. Solved(l) => Framed(l)
  <2> SUFFICES ASSUME Solved(l) PROVE Framed(l)
    OBVIOUS
  <2>1. OutcomeTypes'
    <3>1. result' \in [Lease -> Result \cup {"none"}]
      <4>1. verdict[l] \in Result \cup {"none", "more"}
        BY DEF TypeOK
      <4>2. CASE verdict[l] = "more"
        BY <4>2 DEF TypeOK, Solved, Advance
      <4>3. CASE verdict[l] # "more"
        BY <4>1, <4>3 DEF TypeOK, Solved, Leave
      <4>4. QED
        BY <4>2, <4>3
    <3>2. UNCHANGED <<sink, faults, busies>>
      BY DEF Solved
    <3>3. QED
      BY <3>1, <3>2 DEF OutcomeTypes, TypeOK, Result, Solved, DropSolve
  <2>2. faults' >= faults /\ busies' >= busies
    BY <1>0 DEF Solved, Leave, DropChunk, Goto, Advance, DropSolve
  <2>3. ASSUME NEW m \in Lease \ {l} PROVE Same(m)
    BY DEF TypeOK, Same, SameChunk, SameSalts, SameHand, Solved, Leave, DropChunk, Goto, Advance, DropSolve
  <2>4. ASSUME NEW m \in Lease \ {l} PROVE SameSolve(m) /\ sink'[m] = sink[m] /\ result'[m] = result[m]
    BY DEF TypeOK, SameSolve, Solved, Leave, DropChunk, Goto, Advance, DropSolve
  <2>5. QED
    BY <2>1, <2>2, <2>3, <2>4 DEF Framed, Steady
<1>21. BuildRuntime(l) => Framed(l)
  <2> SUFFICES ASSUME BuildRuntime(l) PROVE Framed(l)
    OBVIOUS
  <2>1. OutcomeTypes'
    BY <1>0 DEF OutcomeTypes, TypeOK, Result, BuildRuntime, Reporter, Return
  <2>2. faults' >= faults /\ busies' >= busies
    BY <1>0 DEF BuildRuntime, Reporter, Return
  <2>3. ASSUME NEW m \in Lease \ {l} PROVE Same(m)
    BY DEF TypeOK, Same, SameChunk, SameSalts, SameHand, BuildRuntime, Reporter, Return
  <2>4. ASSUME NEW m \in Lease \ {l} PROVE SameSolve(m) /\ sink'[m] = sink[m] /\ result'[m] = result[m]
    BY DEF TypeOK, SameSolve, BuildRuntime, Reporter, Return
  <2>5. QED
    BY <2>1, <2>2, <2>3, <2>4 DEF Framed, Steady
<1>22. Notice(l) => Framed(l)
  <2> SUFFICES ASSUME Notice(l) PROVE Framed(l)
    OBVIOUS
  <2>1. OutcomeTypes'
    BY <1>0 DEF OutcomeTypes, TypeOK, Result, Notice, Reporter
  <2>2. faults' >= faults /\ busies' >= busies
    BY <1>0 DEF Notice, Reporter
  <2>3. ASSUME NEW m \in Lease \ {l} PROVE Same(m)
    BY DEF TypeOK, Same, SameChunk, SameSalts, SameHand, Notice, Reporter
  <2>4. ASSUME NEW m \in Lease \ {l} PROVE SameSolve(m) /\ sink'[m] = sink[m] /\ result'[m] = result[m]
    BY DEF TypeOK, SameSolve, Notice, Reporter
  <2>5. QED
    BY <2>1, <2>2, <2>3, <2>4 DEF Framed, Steady
<1>23. TimedOut(l) => Framed(l)
  <2> SUFFICES ASSUME TimedOut(l) PROVE Framed(l)
    OBVIOUS
  <2>1. OutcomeTypes'
    BY <1>0 DEF OutcomeTypes, TypeOK, Result, TimedOut, Reporter
  <2>2. faults' >= faults /\ busies' >= busies
    BY <1>0 DEF TimedOut, Reporter
  <2>3. ASSUME NEW m \in Lease \ {l} PROVE Same(m)
    BY DEF TypeOK, Same, SameChunk, SameSalts, SameHand, TimedOut, Reporter
  <2>4. ASSUME NEW m \in Lease \ {l} PROVE SameSolve(m) /\ sink'[m] = sink[m] /\ result'[m] = result[m]
    BY DEF TypeOK, SameSolve, TimedOut, Reporter
  <2>5. QED
    BY <2>1, <2>2, <2>3, <2>4 DEF Framed, Steady
<1>24. Receive(l) => Framed(l)
  <2> SUFFICES ASSUME Receive(l) PROVE Framed(l)
    OBVIOUS
  <2>1. OutcomeTypes'
    <3>1. failure' = failure \/ \E f \in Result : failure' = [failure EXCEPT ![l] = f]
      BY DEF Receive, Take, FailureOf, Result
    <3>2. cancel' = cancel \/ cancel' = [cancel EXCEPT ![l] = TRUE]
      BY DEF Receive, Take
    <3>3. stopped' \in [Lease -> BOOLEAN]
      BY DEF TypeOK, Receive, Take
    <3>4. UNCHANGED <<sink, result, verdict, faults, busies>>
      BY DEF Receive
    <3>5. failure' \in [Lease -> Result \cup {"none"}]
      <4>1. failure \in [Lease -> Result \cup {"none"}]
        BY DEF TypeOK
      <4>2. QED
        BY <3>1, <4>1
    <3>6. cancel' \in [Lease -> BOOLEAN]
      <4>1. cancel \in [Lease -> BOOLEAN]
        BY DEF TypeOK
      <4>2. QED
        BY <3>2, <4>1
    <3>7. QED
      BY <3>3, <3>4, <3>5, <3>6 DEF OutcomeTypes, TypeOK, Result
  <2>2. faults' >= faults /\ busies' >= busies
    BY <1>0 DEF Receive, Reporter, Take, FailureOf
  <2>3. ASSUME NEW m \in Lease \ {l} PROVE Same(m)
    BY DEF TypeOK, Same, SameChunk, SameSalts, SameHand, Receive, Reporter, Take, FailureOf
  <2>4. ASSUME NEW m \in Lease \ {l} PROVE SameSolve(m) /\ sink'[m] = sink[m] /\ result'[m] = result[m]
    BY DEF TypeOK, SameSolve, Receive, Reporter, Take, FailureOf
  <2>5. QED
    BY <2>1, <2>2, <2>3, <2>4 DEF Framed, Steady
<1>25. CheckStopped(l) => Framed(l)
  <2> SUFFICES ASSUME CheckStopped(l) PROVE Framed(l)
    OBVIOUS
  <2>1. OutcomeTypes'
    BY <1>0 DEF OutcomeTypes, TypeOK, Result, CheckStopped, Reporter
  <2>2. faults' >= faults /\ busies' >= busies
    BY <1>0 DEF CheckStopped, Reporter
  <2>3. ASSUME NEW m \in Lease \ {l} PROVE Same(m)
    BY DEF TypeOK, Same, SameChunk, SameSalts, SameHand, CheckStopped, Reporter
  <2>4. ASSUME NEW m \in Lease \ {l} PROVE SameSolve(m) /\ sink'[m] = sink[m] /\ result'[m] = result[m]
    BY DEF TypeOK, SameSolve, CheckStopped, Reporter
  <2>5. QED
    BY <2>1, <2>2, <2>3, <2>4 DEF Framed, Steady
<1>26. NoReads(l) => Framed(l)
  <2> SUFFICES ASSUME NoReads(l) PROVE Framed(l)
    OBVIOUS
  <2>1. OutcomeTypes'
    BY <1>0 DEF OutcomeTypes, TypeOK, Result, NoReads, Reporter
  <2>2. faults' >= faults /\ busies' >= busies
    BY <1>0 DEF NoReads, Reporter
  <2>3. ASSUME NEW m \in Lease \ {l} PROVE Same(m)
    BY DEF TypeOK, Same, SameChunk, SameSalts, SameHand, NoReads, Reporter
  <2>4. ASSUME NEW m \in Lease \ {l} PROVE SameSolve(m) /\ sink'[m] = sink[m] /\ result'[m] = result[m]
    BY DEF TypeOK, SameSolve, NoReads, Reporter
  <2>5. QED
    BY <2>1, <2>2, <2>3, <2>4 DEF Framed, Steady
<1>27. ReadyToPush(l) => Framed(l)
  <2> SUFFICES ASSUME ReadyToPush(l) PROVE Framed(l)
    OBVIOUS
  <2>1. OutcomeTypes'
    BY <1>0 DEF OutcomeTypes, TypeOK, Result, ReadyToPush, Reporter
  <2>2. faults' >= faults /\ busies' >= busies
    BY <1>0 DEF ReadyToPush, Reporter
  <2>3. ASSUME NEW m \in Lease \ {l} PROVE Same(m)
    BY DEF TypeOK, Same, SameChunk, SameSalts, SameHand, ReadyToPush, Reporter
  <2>4. ASSUME NEW m \in Lease \ {l} PROVE SameSolve(m) /\ sink'[m] = sink[m] /\ result'[m] = result[m]
    BY DEF TypeOK, SameSolve, ReadyToPush, Reporter
  <2>5. QED
    BY <2>1, <2>2, <2>3, <2>4 DEF Framed, Steady
<1>28. Conclude(l) => Framed(l)
  <2> SUFFICES ASSUME Conclude(l) PROVE Framed(l)
    OBVIOUS
  <2>1. OutcomeTypes'
    BY <1>0 DEF OutcomeTypes, TypeOK, Result, Conclude, Reporter, Return, Verdict
  <2>2. faults' >= faults /\ busies' >= busies
    BY <1>0 DEF Conclude, Reporter, Return, Verdict
  <2>3. ASSUME NEW m \in Lease \ {l} PROVE Same(m)
    BY DEF TypeOK, Same, SameChunk, SameSalts, SameHand, Conclude, Reporter, Return, Verdict
  <2>4. ASSUME NEW m \in Lease \ {l} PROVE SameSolve(m) /\ sink'[m] = sink[m] /\ result'[m] = result[m]
    BY DEF TypeOK, SameSolve, Conclude, Reporter, Return, Verdict
  <2>5. QED
    BY <2>1, <2>2, <2>3, <2>4 DEF Framed, Steady
<1>29. Push(l) => Framed(l)
  <2> SUFFICES ASSUME Push(l) PROVE Framed(l)
    OBVIOUS
  <2>1. OutcomeTypes'
    BY <1>0 DEF OutcomeTypes, TypeOK, Result, Push, Reporter, Tell
  <2>2. faults' >= faults /\ busies' >= busies
    BY <1>0 DEF Push, Reporter, Tell
  <2>3. ASSUME NEW m \in Lease \ {l} PROVE Same(m)
    BY DEF TypeOK, Same, SameChunk, SameSalts, SameHand, Push, Reporter, Tell
  <2>4. ASSUME NEW m \in Lease \ {l} PROVE SameSolve(m) /\ sink'[m] = sink[m] /\ result'[m] = result[m]
    BY DEF TypeOK, SameSolve, Push, Reporter, Tell
  <2>5. QED
    BY <2>1, <2>2, <2>3, <2>4 DEF Framed, Steady
<1>30. Watch(l) => Framed(l)
  <2> SUFFICES ASSUME Watch(l) PROVE Framed(l)
    OBVIOUS
  <2>1. OutcomeTypes'
    BY <1>0 DEF OutcomeTypes, TypeOK, Result, Watch
  <2>2. faults' >= faults /\ busies' >= busies
    BY <1>0 DEF Watch
  <2>3. ASSUME NEW m \in Lease \ {l} PROVE Same(m)
    BY DEF TypeOK, Same, SameChunk, SameSalts, SameHand, Watch
  <2>4. ASSUME NEW m \in Lease \ {l} PROVE SameSolve(m) /\ sink'[m] = sink[m] /\ result'[m] = result[m]
    BY DEF TypeOK, SameSolve, Watch
  <2>5. QED
    BY <2>1, <2>2, <2>3, <2>4 DEF Framed, Steady
<1>31. ASSUME NEW s \in Salt, NEW o \in Outcome, Respond(l, s, o) PROVE Framed(l)
  <2>1. OutcomeTypes' /\ faults' >= faults /\ busies' >= busies
    BY <1>0, <1>31 DEF OutcomeTypes, TypeOK, Result, Respond, CanAnswer
  <2>2. ASSUME NEW m \in Lease \ {l} PROVE Steady(m)
    BY <1>31 DEF TypeOK, Steady, Same, SameChunk, SameSalts, SameHand, SameSolve, Respond
  <2>3. QED
    BY <2>1, <2>2 DEF Framed
<1>32. WorkStep(l) => Framed(l)
  BY <1>3, <1>4, <1>5, <1>6, <1>7, <1>8, <1>9, <1>10, <1>11, <1>12, <1>13, <1>14, <1>15, <1>16, <1>17, <1>18, <1>19, <1>20 DEF WorkStep
<1>33. ReportStep(l) => Framed(l)
  BY <1>21, <1>22, <1>23, <1>24, <1>25, <1>26, <1>27, <1>28 DEF ReportStep
<1>34. QED
  BY <1>1, <1>2, <1>29, <1>30, <1>31, <1>32, <1>33

-----------------------------------------------------------------------------
(***************************************************************************)
(* Outside run_full_batch                                                  *)
(***************************************************************************)
Safe == SaltsInv /\ StreamInv /\ TurnInv /\ TypeOK /\ VerdictInv

Untroubled(l) ==
    SameSolve(l) /\ SameHand(l) /\ sink'[l] = sink[l] /\ (Trouble => Trouble')

\* What is known of one lease.
LEMMA AtLease ==
    ASSUME Safe, NEW l \in Lease
    PROVE  /\ start[l] \in Nat /\ end[l] \in Nat /\ at[l] \in Nat /\ upto[l] \in Nat
           /\ Salts[l] \in Nat /\ MaxSalts \in Nat /\ Salts[l] <= MaxSalts
           /\ pending[l] \in SUBSET Salt /\ jobs[l] \in SUBSET Salt
           /\ out[l] \in Seq(Response) /\ Honest(l) /\ LeaseInv(l) /\ Fits(l)
           /\ (Solving(l) \/ reporter[l] = "off")
           /\ (Solving(l) \/ out[l] = <<>>)
<1>1. /\ start[l] \in 0..MaxSalts /\ end[l] \in 0..MaxSalts /\ at[l] \in 0..MaxSalts
      /\ upto[l] \in 0..MaxSalts /\ Salts[l] \in 1..MaxSalts /\ MaxSalts \in Nat
      /\ pending[l] \in SUBSET Salt
  BY LocalTypes DEF Safe, SaltsInv
<1>2. jobs[l] \in SUBSET Salt /\ out[l] \in Seq(Response) /\ Fits(l)
  BY DEF Safe, StreamInv, StreamTypes
<1>3. Honest(l) /\ LeaseInv(l)
  BY DEF Safe, VerdictInv, SaltsInv
<1>4. QED
  BY <1>1, <1>2, <1>3 DEF LeaseInv, ReporterInScope, Solving, Fits

LEMMA OutsideStaysHonest ==
    ASSUME Safe, NEW l \in Lease, ~Solving(l), ~Solving(l)', Untroubled(l), ToldBehind(l)',
           result'[l] = "DeviceFault" => result[l] = "DeviceFault" \/ Trouble'
    PROVE  Honest(l)'
<1>1. /\ Honest(l) /\ reporter'[l] = "off" /\ out'[l] = <<>>
      /\ stopped'[l] = stopped[l] /\ cancel'[l] = cancel[l] /\ failure'[l] = failure[l]
      /\ verdict'[l] = verdict[l] /\ Len(<<>>) = 0
  BY AtLease DEF Untroubled, SameSolve, SameHand
<1>2. ~stopped'[l] /\ ~cancel'[l] /\ failure'[l] = "none" /\ verdict'[l] = "none"
  BY <1>1 DEF Honest, FreshSolve
<1>3. FreshSolve(l)' /\ Outstanding(l)' /\ TrueAnswers(l)'
  BY <1>1, <1>2 DEF FreshSolve, Outstanding, TrueAnswers
<1>4. TrueReport(l)'
  BY <1>1, <1>2 DEF TrueReport, Solving
<1>5. TrueFault(l)'
  BY <1>1, <1>2 DEF Honest, TrueFault, Untroubled
<1>6. QED
  BY <1>3, <1>4, <1>5 DEF Honest

\* Returning before a full solve: everything was told, or the sink knows why not.
LEMMA LeaveStaysHonest ==
    ASSUME Safe, NEW l \in Lease, NEW r, Leave(l, r), ~Solving(l), Untroubled(l),
           UNCHANGED <<start, told>>,
           r = "Ok" => sink[l] # "open" \/ start[l] = Salts[l],
           r = "DeviceFault" => Trouble'
    PROVE  Honest(l)'
<1>1. pc'[l] = "done" /\ result'[l] = r
  BY DEF Safe, TypeOK, Leave, Goto
<1>2. ToldBehind(l)
  BY AtLease DEF Honest
<1>3. ToldBehind(l)'
  BY <1>1, <1>2 DEF ToldBehind, Solving, Untroubled
<1>4. QED
  BY <1>1, <1>3, OutsideStaysHonest DEF Solving

\* A step that moves the thread on, and touches nothing else of its lease.
LEMMA MoveStaysHonest ==
    ASSUME Safe, NEW l \in Lease, NEW p, ~Solving(l), pc' = [pc EXCEPT ![l] = p],
           p \notin {"stream", "join", "decide", "solve"}, Untroubled(l),
           UNCHANGED <<start, told, result>>
    PROVE  Honest(l)'
<1>1. pc'[l] = p
  BY DEF Safe, TypeOK
<1>2. ToldBehind(l)
  BY AtLease DEF Honest
<1>3. ToldBehind(l)'
  BY <1>1, <1>2 DEF ToldBehind, Solving, Untroubled
<1>4. QED
  BY <1>1, <1>3, OutsideStaysHonest DEF Solving

LEMMA NextChunkHonest ==
    ASSUME Safe, NEW l \in Lease, NextChunk(l), Untroubled(l)
    PROVE  Honest(l)'
<1>1. PICK n \in ChunkSize(l) :
         /\ end' = [end EXCEPT ![l] = start[l] + n]
         /\ pending' = [pending EXCEPT ![l] =
                          IF screened[l] THEN {} ELSE start[l]..(start[l] + n - 1)]
  BY DEF NextChunk
<1> DEFINE p == IF screened[l] THEN "probe" ELSE "solve"
<1>2. /\ pc[l] = "head" /\ pc'[l] = p /\ UNCHANGED <<start, told, result>>
      /\ end'[l] = start[l] + n
      /\ p = "solve" => pending'[l] = start[l]..(start[l] + n - 1)
  BY <1>1 DEF NextChunk, Goto, Safe, TypeOK
<1>3. p \in {"probe", "solve"}
  OBVIOUS
<1> HIDE DEF p
<1>4. n \in Int
  BY <1>1, <1>2, AtLease, Assumption DEF ChunkSize, NextChunk
<1>5. ToldBehind(l)
  BY AtLease DEF Honest
<1>6. ToldBehind(l)'
  <2> SUFFICES ASSUME sink'[l] = "open", p = "solve", NEW s \in Salt, s < end'[l]
               PROVE  told[l][s] # "nothing" \/ s \in pending'[l]
    BY <1>2, <1>3, <1>5 DEF ToldBehind, Reached, Solving, Untroubled
  <2>1. CASE s < start[l]
    BY <1>5, <2>1 DEF ToldBehind, Untroubled
  <2>2. CASE ~(s < start[l])
    <3>1. s \in Int /\ start[l] \in Int
      BY AtLease DEF Salt
    <3>2. s \in start[l]..(start[l] + n - 1)
      BY <1>2, <1>4, <2>2, <3>1
    <3>3. QED
      BY <1>2, <3>2
  <2>3. QED
    BY <2>1, <2>2
<1>7. QED
  BY <1>2, <1>3, <1>6, OutsideStaysHonest DEF Solving

LEMMA ProbeHonest ==
    ASSUME Safe, NEW l \in Lease, Probe(l), Untroubled(l), Trouble' \/ ~Leave(l, "DeviceFault")
    PROVE  Honest(l)'
<1>1. pc[l] = "probe" /\ UNCHANGED <<start, end, told, sink>>
  BY DEF Probe
<1>2. CASE Leave(l, "DeviceFault")
  BY <1>1, <1>2, LeaveStaysHonest DEF Solving
<1>3. CASE ~Leave(l, "DeviceFault")
  <2>1. PICK k \in start[l]..end[l] : /\ k < end[l] => IsStopped(l)
                                      /\ upto' = [upto EXCEPT ![l] = k]
    BY <1>3 DEF Probe
  <2>2. at' = [at EXCEPT ![l] = start[l]] /\ pc' = [pc EXCEPT ![l] = "decide"] /\ UNCHANGED result
    BY <1>3 DEF Probe, Goto
  <2>3. at'[l] = start[l] /\ pc'[l] = "decide" /\ upto'[l] = k /\ end'[l] = end[l]
    BY <1>1, <2>1, <2>2 DEF Safe, TypeOK
  <2>4. sink'[l] = "open" => k = end[l]
    BY <1>1, <2>1, AtLease DEF IsStopped
  <2>5. ToldBehind(l)
    BY AtLease DEF Honest
  <2>6. ToldBehind(l)'
    BY <1>1, <2>2, <2>3, <2>4, <2>5 DEF ToldBehind, Reached, Solving, Untroubled
  <2>7. QED
    BY <1>1, <2>2, <2>3, <2>6, OutsideStaysHonest DEF Solving
<1>4. QED
  BY <1>2, <1>3

\* Whoever is told of a salt has been told of it.
LEMMA Telling ==
    ASSUME TypeOK, NEW l \in Lease, NEW s \in Salt, NEW kind \in {"screened", "pushed"},
           Tell(l, s, kind)
    PROVE  told'[l][s] # "nothing" /\ \A x \in Salt : x # s => told'[l][x] = told[l][x]
<1> DEFINE k == IF told[l][s] = "nothing" THEN kind ELSE "twice"
<1>1. told' = [told EXCEPT ![l][s] = k]
  BY DEF Tell
<1>2. k \in ToldKinds /\ k # "nothing" /\ told \in [Lease -> [Salt -> ToldKinds]]
  BY DEF TypeOK, ToldKinds
<1> HIDE DEF k
<1>3. QED
  BY <1>1, <1>2, TellOne

LEMMA DecideHonest ==
    ASSUME Safe, NEW l \in Lease, Decide(l), Untroubled(l)
    PROVE  Honest(l)'
<1>1. /\ pc[l] = "decide" /\ at[l] < upto[l] /\ UNCHANGED <<pc, result, start, end, upto>>
      /\ at' = [at EXCEPT ![l] = @ + 1]
  BY DEF Decide, Admit
<1>2. at'[l] = at[l] + 1 /\ at[l] \in Salt
  <2>1. upto[l] <= MaxSalts /\ at \in [Lease -> 0..MaxSalts]
    BY DEF Safe, TypeOK
  <2>2. at[l] \in Nat /\ upto[l] \in Nat /\ MaxSalts \in Nat
    BY AtLease
  <2>3. at[l] \in Salt
    BY <1>1, <2>1, <2>2 DEF Salt
  <2>4. QED
    BY <1>1, <2>1, <2>3
<1>3. \A s \in Salt :
        /\ told[l][s] # "nothing" => told'[l][s] # "nothing"
        /\ Reached(l, s) => told'[l][s] # "nothing" \/ s \in pending'[l]
  <2>1. told \in [Lease -> [Salt -> ToldKinds]] /\ pending \in [Lease -> SUBSET Salt]
    BY DEF Safe, TypeOK
  <2>2. CASE Tell(l, at[l], "screened") /\ UNCHANGED pending
    BY <1>2, <2>2, Telling DEF Safe, Reached
  <2>3. CASE pending' = [pending EXCEPT ![l] = @ \cup {at[l]}] /\ UNCHANGED told
    BY <2>1, <2>3 DEF Reached
  <2>4. QED
    BY <2>2, <2>3 DEF Decide, Admit
<1>4. told'[l][at[l]] # "nothing" \/ at[l] \in pending'[l]
  <2>1. told \in [Lease -> [Salt -> ToldKinds]] /\ pending \in [Lease -> SUBSET Salt]
    BY DEF Safe, TypeOK
  <2>2. CASE Tell(l, at[l], "screened")
    BY <1>2, <2>2, Telling DEF Safe
  <2>3. CASE pending' = [pending EXCEPT ![l] = @ \cup {at[l]}]
    BY <2>1, <2>3
  <2>4. QED
    BY <2>2, <2>3 DEF Decide, Admit
<1>5. ToldBehind(l)
  BY AtLease DEF Honest
<1>6. ToldBehind(l)'
  <2> SUFFICES ASSUME sink'[l] = "open"
               PROVE  /\ \A s \in Salt : s < start[l] => told'[l][s] # "nothing"
                      /\ result[l] = "Ok" => \A s \in Salt : s < Salts[l] => told'[l][s] # "nothing"
                      /\ upto[l] = end[l] /\ \A s \in Salt : s < at[l] + 1 => Reached(l, s)'
    BY <1>1, <1>2 DEF ToldBehind, Solving
  <2>1. sink[l] = "open"
    BY DEF Untroubled
  <2>2. ASSUME NEW s \in Salt, s < at[l] + 1 PROVE Reached(l, s)'
    <3>1. CASE s = at[l]
      BY <1>4, <3>1 DEF Reached
    <3>2. CASE s # at[l]
      <4>1. s < at[l]
        BY <1>2, <2>2, <3>2 DEF Salt
      <4>2. QED
        BY <1>1, <1>3, <1>5, <2>1, <4>1 DEF ToldBehind, Reached
    <3>3. QED
      BY <3>1, <3>2
  <2>3. QED
    BY <1>1, <1>3, <1>5, <2>1, <2>2 DEF ToldBehind
<1>7. QED
  BY <1>1, <1>6, OutsideStaysHonest DEF Solving

LEMMA DecidedHonest ==
    ASSUME Safe, NEW l \in Lease, Decided(l), Untroubled(l)
    PROVE  Honest(l)'
<1>1. /\ pc[l] = "decide" /\ at[l] = upto[l] /\ pc'[l] = "solve"
      /\ UNCHANGED <<result, start, end, pending, told>>
  BY DEF Decided, Goto, chunkVars, Safe, TypeOK
<1>2. ToldBehind(l)
  BY AtLease DEF Honest
<1>3. ToldBehind(l)'
  BY <1>1, <1>2 DEF ToldBehind, Reached, Solving, Untroubled
<1>4. QED
  BY <1>1, <1>3, OutsideStaysHonest DEF Solving

\* Going on to the next chunk, with every salt of this one told.
LEMMA AdvanceTold ==
    ASSUME Safe, NEW l \in Lease, Advance(l), UNCHANGED <<sink, told>>,
           sink[l] = "open" => \A s \in Salt : s < end[l] => told[l][s] # "nothing"
    PROVE  ToldBehind(l)'
<1>1. pc'[l] = "head" /\ start'[l] = end[l] /\ result'[l] = result[l]
  BY DEF Advance, Goto, Safe, TypeOK
<1>2. ToldBehind(l)
  BY AtLease DEF Honest
<1>3. QED
  BY <1>1, <1>2 DEF ToldBehind, Solving

LEMMA NothingToSolveHonest ==
    ASSUME Safe, NEW l \in Lease, NothingToSolve(l), Untroubled(l)
    PROVE  Honest(l)'
<1>1. /\ pc[l] = "solve" /\ Advance(l) /\ UNCHANGED <<sink, told>>
      /\ pending[l] = {} \/ sink[l] # "open"
      /\ pc'[l] = "head" /\ result'[l] = result[l]
  BY DEF NothingToSolve, IsStopped, Advance, Goto, Safe, TypeOK
<1>2. ToldBehind(l)
  BY AtLease DEF Honest
<1>3. sink[l] = "open" => \A s \in Salt : s < end[l] => told[l][s] # "nothing"
  BY <1>1, <1>2 DEF ToldBehind, Reached
<1>4. QED
  BY <1>1, <1>3, AdvanceTold, OutsideStaysHonest DEF Solving

LEMMA MoreTrouble ==
    ASSUME NEW f \in Nat, NEW b \in Nat, NEW g \in Nat, NEW c \in Nat, g >= f, c >= b
    PROVE  (f + b > 0 => g + c > 0) /\ (g > f => g + c > 0) /\ (c > b => g + c > 0)
OBVIOUS

LEMMA TroubleGrows ==
    ASSUME Safe, NEW l \in Lease, Framed(l)
    PROVE  /\ Trouble => Trouble'
           /\ Fail => Trouble'
           /\ busies' > busies => Trouble'
<1>1. faults' \in Nat /\ busies' \in Nat /\ faults' >= faults /\ busies' >= busies
  BY Assumption DEF Framed, OutcomeTypes
<1>2. faults \in Nat /\ busies \in Nat /\ (Fail => faults' > faults)
  BY FailTypes DEF Safe
<1>3. /\ faults + busies > 0 => faults' + busies' > 0
      /\ faults' > faults => faults' + busies' > 0
      /\ busies' > busies => faults' + busies' > 0
  BY <1>1, <1>2, MoreTrouble
<1>4. QED
  BY <1>2, <1>3 DEF Trouble

LEMMA OutsideHonest ==
    ASSUME Safe, NEW l \in Lease, WorkStep(l), Framed(l),
           ~RunFullBatch(l), ~StreamReturns(l), ~Solved(l)
    PROVE  Honest(l)'
<1>0. (Trouble => Trouble') /\ (Fail => Trouble')
  BY TroubleGrows
<1>1. UNCHANGED <<sink, jobs, out, cancel, stopped, failure, verdict, reporter, current>>
  BY DEF WorkStep, TooLarge, Join, TakeTurn, GiveUpTurn, OpenScreen, NextChunk, LeaseOver, Probe,
      Decide, ScreenRefused, DecideStopped, Decided, NothingToSolve, DrawFails, SolveStopped,
      streamVars, reporterVars
<1>2. Untroubled(l)
  BY <1>0, <1>1 DEF Untroubled, SameSolve, SameHand
<1>3. CASE TooLarge(l)
  <2>1. /\ pc[l] = "begin" /\ pc'[l] = "done" /\ result'[l] = "Capacity"
        /\ UNCHANGED <<start, told>>
    BY <1>3 DEF TooLarge, Goto, chunkVars, Safe, TypeOK
  <2>2. ToldBehind(l)
    BY AtLease DEF Honest
  <2>3. ToldBehind(l)'
    BY <1>2, <2>1, <2>2 DEF ToldBehind, Solving, Untroubled
  <2>4. QED
    BY <1>2, <2>1, <2>3, OutsideStaysHonest DEF Solving
<1>4. CASE Join(l) \/ TakeTurn(l)
  <2>1. /\ pc[l] \in {"begin", "wait"} /\ UNCHANGED <<start, told, result>>
        /\ \E p \in {"wait", "open"} : pc' = [pc EXCEPT ![l] = p]
    BY <1>4 DEF Join, TakeTurn, Goto, chunkVars
  <2>2. QED
    BY <1>2, <2>1, MoveStaysHonest DEF Solving
<1>5. CASE OpenScreen(l)
  <2>1. pc[l] = "open" /\ UNCHANGED <<start, told>>
    BY <1>5 DEF OpenScreen
  <2>2. CASE Fail /\ Leave(l, "DeviceFault")
    BY <1>0, <1>2, <2>1, <2>2, LeaveStaysHonest DEF Solving
  <2>3. CASE pc' = [pc EXCEPT ![l] = "head"] /\ UNCHANGED result
    BY <1>2, <2>1, <2>3, MoveStaysHonest DEF Solving
  <2>4. QED
    BY <1>5, <2>2, <2>3 DEF OpenScreen, Goto
<1>6. CASE GiveUpTurn(l) \/ ScreenRefused(l) \/ DecideStopped(l) \/ SolveStopped(l)
  <2>1. /\ pc[l] \in {"wait", "decide", "solve"} /\ sink[l] # "open" /\ UNCHANGED <<start, told>>
        /\ Leave(l, "Ok")
    BY <1>6 DEF GiveUpTurn, ScreenRefused, DecideStopped, SolveStopped, IsStopped
  <2>2. QED
    BY <1>2, <2>1, LeaveStaysHonest DEF Solving
<1>7. CASE LeaseOver(l)
  <2>1. /\ pc[l] = "head" /\ (sink[l] # "open" \/ start[l] = Salts[l]) /\ UNCHANGED <<start, told>>
        /\ Leave(l, "Ok")
    BY <1>7 DEF LeaseOver, IsStopped
  <2>2. QED
    BY <1>2, <2>1, LeaveStaysHonest DEF Solving
<1>8. CASE DrawFails(l)
  <2>1. pc[l] = "solve" /\ Fail /\ Leave(l, "DeviceFault") /\ UNCHANGED <<start, told>>
    BY <1>8 DEF DrawFails
  <2>2. QED
    BY <1>0, <1>2, <2>1, LeaveStaysHonest DEF Solving
<1>9. CASE Probe(l)
  <2>1. Trouble' \/ ~Leave(l, "DeviceFault")
    <3>1. CASE Fail
      BY <1>0, <3>1
    <3>2. CASE ~Fail
      <4>1. pc' = [pc EXCEPT ![l] = "decide"]
        BY <1>9, <3>2 DEF Probe, Goto
      <4>2. pc'[l] # "done"
        BY <4>1 DEF Safe, TypeOK
      <4>3. QED
        BY <4>2 DEF Leave, Goto, Safe, TypeOK
    <3>3. QED
      BY <3>1, <3>2
  <2>2. QED
    BY <1>2, <1>9, <2>1, ProbeHonest
<1>10. QED
  BY <1>2, <1>3, <1>4, <1>5, <1>6, <1>7, <1>8, <1>9, NextChunkHonest, DecideHonest, DecidedHonest,
     NothingToSolveHonest DEF WorkStep

-----------------------------------------------------------------------------
(***************************************************************************)
(* Inside run_full_batch                                                   *)
(***************************************************************************)
\* A step that neither answers nor receives.
LEMMA QuietStaysHonest ==
    ASSUME Safe, NEW l \in Lease, Solving(l), Trouble => Trouble',
           UNCHANGED <<pc, jobs, out, pending, start, end, at, upto, result>>,
           Excused(l) => Excused(l)',
           stopped[l] => stopped'[l], failure[l] # "none" => failure'[l] # "none",
           sink'[l] = "open" => sink[l] = "open",
           \A s \in Salt : told[l][s] # "nothing" => told'[l][s] # "nothing",
           ~Excused(l)' => current[l] \in {NoSalt, current'[l]} \/ told'[l][current[l]] # "nothing",
           TrueReport(l)', TrueFault(l)'
    PROVE  Honest(l)'
<1>1. Honest(l) /\ Solving(l)' /\ NoSalt \notin Salt
  BY AtLease DEF Solving, NoSalt, Salt
<1>2. stopped[l] \in BOOLEAN /\ stopped'[l] = FALSE => stopped[l] = FALSE
  BY DEF Safe, TypeOK
<1>3. FreshSolve(l)' /\ Outstanding(l)'
  BY <1>1, <1>2 DEF Honest, FreshSolve, Outstanding, InOut, Solving
<1>4. TrueAnswers(l)'
  BY <1>1 DEF Honest, TrueAnswers
<1>5. ToldBehind(l)'
  BY <1>1 DEF Honest, ToldBehind, Reached, Solving
<1>6. QED
  BY <1>3, <1>4, <1>5 DEF Honest

\* The reporter runs only inside run_full_batch, with no verdict yet.
LEMMA WhileReporting ==
    ASSUME Safe, NEW l \in Lease, reporter[l] # "off"
    PROVE  /\ Solving(l) /\ verdict[l] = "none" /\ Honest(l)
           /\ stopped[l] \/ cancel[l] => Excused(l)
           /\ Excused(l) <=> sink[l] # "open" \/ failure[l] # "none"
BY AtLease DEF Honest, TrueReport, Excused

LEMMA SinkHonest ==
    ASSUME Safe, NEW l \in Lease, SinkStops(l) \/ SinkGoes(l)
    PROVE  Honest(l)'
<1>1. /\ sink'[l] # "open" /\ Honest(l)
      /\ UNCHANGED <<pc, result, start, end, at, upto, pending, told, jobs, out, cancel,
                     reporter, current, stopped, failure, verdict, faults, busies>>
  BY AtLease DEF SinkStops, SinkGoes, chunkVars, streamVars, reporterVars, troubleVars, Safe, TypeOK
<1>2. Excused(l)'
  BY <1>1 DEF Excused
<1>3. FreshSolve(l)' /\ Outstanding(l)'
  BY <1>1 DEF Honest, FreshSolve, Outstanding, InOut, Solving
<1>4. TrueAnswers(l)' /\ TrueReport(l)'
  BY <1>1, <1>2 DEF Honest, TrueAnswers, TrueReport, Trouble
<1>5. TrueFault(l)' /\ ToldBehind(l)'
  BY <1>1 DEF Honest, TrueFault, ToldBehind, Trouble
<1>6. QED
  BY <1>3, <1>4, <1>5 DEF Honest

LEMMA WatchHonest ==
    ASSUME Safe, NEW l \in Lease, Watch(l)
    PROVE  Honest(l)'
<1>1. /\ UNCHANGED <<pc, result, sink, start, end, at, upto, pending, told, jobs, out,
                     reporter, current, stopped, failure, verdict, faults, busies>>
      /\ watcher[l] = "watch"
  BY DEF Watch, chunkVars, streamVars, reporterVars, troubleVars
<1>2. cancel'[l] => cancel[l] \/ sink[l] # "open"
  BY DEF Watch, IsStopped, Safe, TypeOK
<1>3. Solving(l) /\ Honest(l)
  BY <1>1, AtLease DEF Safe, TurnInv, Helping, Solving
<1>4. Excused(l)' <=> Excused(l)
  BY <1>1 DEF Excused
<1>5. TrueReport(l)' /\ TrueFault(l)'
  BY <1>1, <1>2, <1>3, <1>4 DEF Honest, TrueReport, TrueFault, Excused, Trouble
<1>6. QED
  BY <1>1, <1>3, <1>4, <1>5, QuietStaysHonest DEF Trouble

LEMMA BuildRuntimeHonest ==
    ASSUME Safe, NEW l \in Lease, BuildRuntime(l), Framed(l)
    PROVE  Honest(l)'
<1>1. /\ UNCHANGED <<pc, result, sink, start, end, at, upto, pending, told, jobs, out, cancel,
                     current, stopped, failure>>
      /\ reporter[l] = "build" /\ reporter'[l] \in {"loop", "off"}
      /\ reporter'[l] = "loop" => verdict'[l] = verdict[l]
      /\ reporter'[l] = "off" => verdict'[l] = "DeviceFault" /\ Fail
  BY DEF BuildRuntime, Reporter, Return, chunkVars, streamVars, Safe, TypeOK
<1>2. Solving(l) /\ Honest(l) /\ verdict[l] = "none" /\ (Trouble => Trouble') /\ (Fail => Trouble')
  BY <1>1, WhileReporting, TroubleGrows
<1>3. Excused(l) => Excused(l)'
  BY <1>1, <1>2 DEF Excused
<1>4. TrueReport(l)' /\ TrueFault(l)'
  BY <1>1, <1>2, <1>3 DEF Honest, TrueReport, TrueFault
<1>5. QED
  BY <1>1, <1>2, <1>3, <1>4, QuietStaysHonest

LEMMA NoticeHonest ==
    ASSUME Safe, NEW l \in Lease, Notice(l)
    PROVE  Honest(l)'
<1>1. /\ UNCHANGED <<pc, result, sink, start, end, at, upto, pending, told, jobs, out,
                     current, failure, verdict, faults, busies>>
      /\ reporter[l] = "loop" /\ reporter'[l] = "receive"
      /\ stopped'[l] <=> stopped[l] \/ sink[l] = "stopped"
      /\ cancel'[l] <=> cancel[l] \/ stopped'[l] \/ failure[l] # "none"
  BY DEF Notice, Reporter, IsStopped, chunkVars, streamVars, troubleVars, Safe, TypeOK
<1>2. Solving(l) /\ Honest(l) /\ verdict[l] = "none"
  BY <1>1, WhileReporting
<1>3. Excused(l)' <=> Excused(l)
  BY <1>1 DEF Excused
<1>4. TrueReport(l)' /\ TrueFault(l)'
  BY <1>1, <1>2, <1>3, WhileReporting DEF Honest, TrueReport, TrueFault, Trouble
<1>5. QED
  BY <1>1, <1>2, <1>3, <1>4, QuietStaysHonest DEF Trouble

LEMMA OnwardHonest ==
    ASSUME Safe, NEW l \in Lease, TimedOut(l) \/ ReadyToPush(l)
    PROVE  Honest(l)'
<1>1. /\ UNCHANGED <<pc, result, sink, start, end, at, upto, pending, told, jobs, out, cancel,
                     current, stopped, failure, verdict, faults, busies>>
      /\ reporter[l] # "off" /\ reporter'[l] \in {"loop", "push"}
  BY DEF TimedOut, ReadyToPush, Reporter, chunkVars, streamVars, troubleVars, Safe, TypeOK
<1>2. Solving(l) /\ Honest(l) /\ verdict[l] = "none"
  BY <1>1, WhileReporting
<1>3. Excused(l)' <=> Excused(l)
  BY <1>1 DEF Excused
<1>4. TrueReport(l)' /\ TrueFault(l)'
  BY <1>1, <1>2, <1>3 DEF Honest, TrueReport, TrueFault, Trouble
<1>5. QED
  BY <1>1, <1>2, <1>3, <1>4, QuietStaysHonest DEF Trouble

LEMMA CheckStoppedHonest ==
    ASSUME Safe, NEW l \in Lease, CheckStopped(l)
    PROVE  Honest(l)'
<1>1. /\ UNCHANGED <<pc, result, sink, start, end, at, upto, pending, told, jobs, out, cancel,
                     failure, verdict, faults, busies>>
      /\ reporter[l] # "off" /\ reporter'[l] = "loop" /\ sink[l] # "open" /\ stopped'[l]
  BY DEF CheckStopped, Reporter, IsStopped, chunkVars, streamVars, troubleVars, Safe, TypeOK
<1>2. Solving(l) /\ Honest(l) /\ verdict[l] = "none"
  BY <1>1, WhileReporting
<1>3. Excused(l)'
  BY <1>1 DEF Excused
<1>4. TrueReport(l)' /\ TrueFault(l)'
  BY <1>1, <1>2, <1>3 DEF Honest, TrueReport, TrueFault, Trouble
<1>5. QED
  BY <1>1, <1>2, <1>3, <1>4, QuietStaysHonest DEF Trouble

LEMMA NoReadsHonest ==
    ASSUME Safe, NEW l \in Lease, NoReads(l)
    PROVE  Honest(l)'
<1>1. /\ UNCHANGED <<pc, result, sink, start, end, at, upto, pending, told, jobs, out,
                     stopped, verdict, faults, busies>>
      /\ reporter[l] = "empty" /\ reporter'[l] = "loop" /\ failure'[l] = "DeviceFault"
  BY DEF NoReads, Reporter, chunkVars, streamVars, troubleVars, Safe, TypeOK
<1>2. Solving(l) /\ Honest(l) /\ verdict[l] = "none"
  BY <1>1, WhileReporting
<1>3. Excused(l)'
  BY <1>1 DEF Excused
<1>4. TrueReport(l)' /\ TrueFault(l)'
  BY <1>1, <1>2, <1>3 DEF Honest, TrueReport, TrueFault, Trouble
<1>5. QED
  BY <1>1, <1>2, <1>3, <1>4, QuietStaysHonest DEF Trouble

\* At the end of the channel every job was answered and every answer received:
\* what is still pending was left because of a stop or of a failure.
LEMMA ConcludeHonest ==
    ASSUME Safe, NEW l \in Lease, Conclude(l)
    PROVE  Honest(l)'
<1>1. /\ UNCHANGED <<pc, result, sink, start, end, at, upto, pending, told, jobs, out, cancel,
                     current, stopped, failure, faults, busies>>
      /\ reporter[l] = "receive" /\ out[l] = <<>> /\ pc[l] = "join" /\ reporter'[l] = "off"
      /\ verdict'[l] = Verdict(l)
  BY DEF Conclude, Reporter, Return, chunkVars, streamVars, troubleVars, Safe, TypeOK
<1>2. /\ Solving(l) /\ Honest(l) /\ verdict[l] = "none"
      /\ stopped[l] \/ cancel[l] => Excused(l)
      /\ Excused(l) <=> sink[l] # "open" \/ failure[l] # "none"
  BY <1>1, WhileReporting
<1>3. current[l] = NoSalt
  BY <1>1, AtLease DEF LeaseInv, InHand
<1>4. ~stopped[l] /\ failure[l] = "none" => pending[l] = {}
  BY <1>1, <1>2, AtLease DEF Honest, Outstanding, InOut
<1>5. Excused(l) => Excused(l)'
  BY <1>1, <1>2 DEF Excused
<1>6. failure[l] \in {"none", "Capacity", "DeviceFault"} /\ (failure[l] = "DeviceFault" => Trouble)
  BY <1>2 DEF Honest, TrueFault
<1>7. CASE failure[l] # "none"
  <2>1. verdict'[l] = failure[l]
    BY <1>1, <1>7 DEF Verdict
  <2>2. Excused(l)'
    BY <1>1, <1>7 DEF Excused
  <2>3. TrueReport(l)' /\ TrueFault(l)'
    BY <1>1, <1>2, <1>6, <1>7, <2>1, <2>2 DEF Honest, TrueReport, TrueFault, Trouble
  <2>4. QED
    BY <1>1, <1>2, <1>5, <2>3, QuietStaysHonest DEF Trouble
<1>8. CASE failure[l] = "none"
  <2>1. verdict'[l] = IF stopped[l] THEN "Ok" ELSE "more"
    <3>1. stopped[l] \in BOOLEAN
      BY DEF Safe, TypeOK
    <3>2. CASE stopped[l]
      BY <1>1, <1>8, <3>2 DEF Verdict
    <3>3. CASE ~stopped[l]
      BY <1>1, <1>4, <1>8, <3>3 DEF Verdict
    <3>4. QED
      BY <3>2, <3>3
  <2>2. TrueReport(l)'
    BY <1>1, <1>2, <1>3, <1>4, <1>5, <1>8, <2>1 DEF TrueReport
  <2>3. TrueFault(l)'
    BY <1>1, <1>2, <1>8, <2>1 DEF Honest, TrueFault, Trouble
  <2>4. QED
    BY <1>1, <1>2, <1>5, <2>2, <2>3, QuietStaysHonest DEF Trouble
<1>9. QED
  BY <1>7, <1>8

LEMMA PushHonest ==
    ASSUME Safe, NEW l \in Lease, Push(l)
    PROVE  Honest(l)'
<1>1. /\ UNCHANGED <<pc, result, sink, start, end, at, upto, pending, jobs, out,
                     failure, verdict, faults, busies>>
      /\ reporter[l] = "push" /\ reporter'[l] = "loop" /\ current'[l] = NoSalt
  BY DEF Push, Reporter, chunkVars, streamVars, troubleVars, Safe, TypeOK
<1>2. /\ Solving(l) /\ Honest(l) /\ verdict[l] = "none"
      /\ stopped[l] \/ cancel[l] => Excused(l)
  BY <1>1, WhileReporting
<1>3. current[l] \in Salt
  BY <1>1, AtLease DEF LeaseInv, InHand, Safe, TypeOK, Salt0
<1>4. Excused(l)' <=> Excused(l)
  BY <1>1 DEF Excused
<1>5. CASE Tell(l, current[l], "pushed") /\ UNCHANGED <<stopped, cancel>>
  <2>1. told'[l][current[l]] # "nothing" /\ \A x \in Salt : x # current[l] => told'[l][x] = told[l][x]
    BY <1>3, <1>5, Telling DEF Safe
  <2>2. TrueReport(l)' /\ TrueFault(l)'
    BY <1>1, <1>2, <1>4, <1>5 DEF Honest, TrueReport, TrueFault, Trouble
  <2>3. QED
    BY <1>1, <1>2, <1>4, <1>5, <2>1, <2>2, QuietStaysHonest DEF Trouble
<1>6. CASE sink[l] # "open" /\ UNCHANGED told /\ stopped' = [stopped EXCEPT ![l] = TRUE]
  <2>1. Excused(l)' /\ stopped'[l]
    BY <1>1, <1>6 DEF Excused, Safe, TypeOK
  <2>2. TrueReport(l)' /\ TrueFault(l)'
    BY <1>1, <1>2, <1>6, <2>1 DEF Honest, TrueReport, TrueFault, Trouble
  <2>3. QED
    BY <1>1, <1>2, <2>1, <2>2, <1>6, QuietStaysHonest DEF Trouble
<1>7. QED
  BY <1>5, <1>6 DEF Push

LEMMA RunFullBatchHonest ==
    ASSUME Safe, NEW l \in Lease, RunFullBatch(l)
    PROVE  Honest(l)'
<1>1. /\ UNCHANGED <<result, sink, start, end, at, upto, pending, told, out, cancel,
                     current, stopped, failure, verdict, faults, busies>>
      /\ pc[l] = "solve" /\ pc'[l] = "stream" /\ jobs'[l] = pending[l] /\ reporter'[l] = "build"
  BY DEF RunFullBatch, Goto, chunkVars, troubleVars, Safe, TypeOK
<1>2. Honest(l) /\ ~Solving(l) /\ Solving(l)' /\ out[l] = <<>> /\ Len(<<>>) = 0
  BY <1>1, AtLease DEF Solving
<1>3. ~stopped[l] /\ ~cancel[l] /\ failure[l] = "none" /\ verdict[l] = "none"
  BY <1>2 DEF Honest, FreshSolve
<1>4. FreshSolve(l)' /\ Outstanding(l)' /\ TrueAnswers(l)'
  BY <1>1, <1>2 DEF FreshSolve, Outstanding, TrueAnswers
<1>5. TrueReport(l)' /\ TrueFault(l)'
  BY <1>1, <1>2, <1>3 DEF Honest, TrueReport, TrueFault, Trouble
<1>6. ToldBehind(l)'
  BY <1>1, <1>2 DEF Honest, ToldBehind, Reached, Solving
<1>7. QED
  BY <1>4, <1>5, <1>6 DEF Honest

LEMMA StreamReturnsHonest ==
    ASSUME Safe, NEW l \in Lease, StreamReturns(l)
    PROVE  Honest(l)'
<1>1. /\ UNCHANGED <<result, sink, start, end, at, upto, pending, told, jobs, out, cancel,
                     reporter, current, stopped, failure, verdict, faults, busies>>
      /\ pc[l] = "stream" /\ pc'[l] = "join" /\ jobs[l] = {}
  BY DEF StreamReturns, Goto, chunkVars, streamVars, reporterVars, troubleVars, Safe, TypeOK
<1>2. Honest(l) /\ Solving(l) /\ Solving(l)' /\ (Excused(l)' <=> Excused(l))
  BY <1>1, AtLease DEF Solving, Excused
<1>3. FreshSolve(l)' /\ Outstanding(l)' /\ TrueAnswers(l)'
  BY <1>1, <1>2 DEF Honest, FreshSolve, Outstanding, InOut, TrueAnswers, Trouble
<1>4. TrueReport(l)' /\ TrueFault(l)'
  BY <1>1, <1>2 DEF Honest, TrueReport, TrueFault, Trouble
<1>5. ToldBehind(l)'
  BY <1>1, <1>2 DEF Honest, ToldBehind, Reached
<1>6. QED
  BY <1>3, <1>4, <1>5 DEF Honest

LEMMA SolvedHonest ==
    ASSUME Safe, NEW l \in Lease, Solved(l)
    PROVE  Honest(l)'
<1>1. /\ UNCHANGED <<sink, end, told, reporter, current, faults, busies>>
      /\ pc[l] = "join" /\ reporter[l] = "off" /\ DropSolve(l)
  BY DEF Solved, HelpersJoined, troubleVars
<1>2. /\ out'[l] = <<>> /\ ~cancel'[l] /\ ~stopped'[l] /\ failure'[l] = "none"
      /\ verdict'[l] = "none" /\ Len(<<>>) = 0
  BY <1>1 DEF DropSolve, Safe, TypeOK
<1>3. Honest(l) /\ Solving(l) /\ NoSalt \notin Salt
  BY <1>1, AtLease DEF Solving, NoSalt, Salt
<1>4. /\ pc'[l] \in {"head", "done"}
      /\ result'[l] = result[l] \/ result'[l] = verdict[l]
  BY DEF Solved, Advance, Leave, Goto, Safe, TypeOK
<1>5. FreshSolve(l)' /\ Outstanding(l)' /\ TrueAnswers(l)'
  BY <1>2, <1>4 DEF FreshSolve, Outstanding, TrueAnswers, Solving
<1>6. TrueReport(l)' /\ TrueFault(l)'
  BY <1>1, <1>2, <1>3, <1>4 DEF Honest, TrueReport, TrueFault, Trouble
<1>7. ToldBehind(l)'
  <2>1. CASE verdict[l] = "more"
    <3>1. Advance(l)
      BY <2>1 DEF Solved
    <3>2. sink[l] = "open" => ~Excused(l) /\ pending[l] = {} /\ current[l] = NoSalt
      BY <1>3, <2>1 DEF Honest, TrueReport, Excused
    <3>3. sink[l] = "open" => \A s \in Salt : s < end[l] => told[l][s] # "nothing"
      BY <1>3, <3>2 DEF Honest, ToldBehind, Reached
    <3>4. QED
      BY <1>1, <3>1, <3>3, AdvanceTold
  <2>2. CASE verdict[l] # "more"
    <3>1. Leave(l, verdict[l]) /\ UNCHANGED start
      BY <2>2 DEF Solved
    <3>2. pc'[l] = "done" /\ result'[l] = verdict[l]
      BY <3>1 DEF Leave, Goto, Safe, TypeOK
    <3>3. verdict[l] = "Ok" => sink[l] # "open"
      BY <1>3 DEF Honest, TrueReport
    <3>4. QED
      BY <1>1, <1>3, <3>1, <3>2, <3>3 DEF Honest, ToldBehind, Solving
  <2>3. QED
    BY <2>1, <2>2
<1>8. QED
  BY <1>5, <1>6, <1>7 DEF Honest

\* One answer goes to the end of the channel.
LEMMA RespondHonest ==
    ASSUME Safe, NEW l \in Lease, NEW s \in Salt, NEW o \in Outcome, Respond(l, s, o), Framed(l)
    PROVE  Honest(l)'
<1> DEFINE r == [salt |-> s, outcome |-> o]
<1>1. /\ UNCHANGED <<pc, result, sink, start, end, at, upto, pending, told, cancel,
                     reporter, current, stopped, failure, verdict>>
      /\ pc[l] = "stream" /\ s \in jobs[l] /\ jobs'[l] = jobs[l] \ {s}
      /\ out'[l] = Append(out[l], r)
  BY DEF Respond, chunkVars, reporterVars, Safe, TypeOK
<1>2. /\ Honest(l) /\ Solving(l) /\ Solving(l)' /\ (Excused(l)' <=> Excused(l))
      /\ out[l] \in Seq(Response) /\ r \in Response /\ r.salt = s /\ r.outcome = o
  BY <1>1, AtLease DEF Solving, Excused, Response
<1> HIDE DEF r
<1>3. /\ Len(out[l]) \in Nat /\ Len(out'[l]) = Len(out[l]) + 1
      /\ \A i \in 1..Len(out[l]) : out'[l][i] = out[l][i]
      /\ out'[l][Len(out[l]) + 1] = r
  BY <1>1, <1>2, AppendProperties
<1>4. \A i \in 1..Len(out'[l]) : i \in 1..Len(out[l]) \/ (i = Len(out[l]) + 1 /\ out'[l][i] = r)
  BY <1>3
<1>5. (Trouble => Trouble') /\ (Fail => Trouble') /\ (busies' > busies => Trouble')
  BY TroubleGrows
<1>6. o \notin {"reads", "cancelled"} => Trouble'
  <2>1. o = "DeviceBusy" => busies' > busies
    <3>1. busies \in Nat
      BY FailTypes DEF Safe
    <3>2. QED
      BY <3>1 DEF Respond, CanAnswer
  <2>2. o \notin {"reads", "cancelled", "DeviceBusy"} => Fail
    BY DEF Respond, CanAnswer
  <2>3. QED
    BY <1>5, <2>1, <2>2
<1>7. o = "cancelled" => Excused(l)
  <2>1. o = "cancelled" => Abandoned(l)
    BY DEF Respond, CanAnswer
  <2>2. QED
    BY <1>1, <1>2, <2>1 DEF Abandoned, Honest, TrueReport, Excused
<1>8. TrueAnswers(l)'
  <2> SUFFICES ASSUME NEW i \in 1..Len(out'[l])
               PROVE  /\ out'[l][i].outcome \notin {"reads", "cancelled"} => Trouble'
                      /\ out'[l][i].outcome = "cancelled" => Excused(l)'
    BY DEF TrueAnswers
  <2>1. CASE i \in 1..Len(out[l])
    BY <1>2, <1>3, <1>5, <2>1 DEF Honest, TrueAnswers
  <2>2. CASE out'[l][i] = r
    BY <1>2, <1>6, <1>7, <2>2
  <2>3. QED
    BY <1>4, <2>1, <2>2
<1>9. Outstanding(l)'
  <2> DEFINE q == out'[l]
  <2>1. /\ jobs[l] \subseteq pending[l]
        /\ \A i \in 1..Len(out[l]) : out[l][i].salt \in pending[l] \ jobs[l]
        /\ \A i, k \in 1..Len(out[l]) : out[l][i].salt = out[l][k].salt => i = k
        /\ ~stopped[l] /\ failure[l] = "none" =>
             \A x \in pending[l] : x \in jobs[l] \/ InOut(l, x)
    BY <1>2 DEF Honest, Outstanding
  <2>2. \A i \in 1..Len(q) : q[i].salt \in pending[l] \ (jobs[l] \ {s})
    BY <1>1, <1>2, <1>3, <1>4, <2>1
  <2>3. \A i, k \in 1..Len(q) : q[i].salt = q[k].salt => i = k
    <3> SUFFICES ASSUME NEW i \in 1..Len(q), NEW k \in 1..Len(q), q[i].salt = q[k].salt
                 PROVE  i = k
      OBVIOUS
    <3>1. CASE i \in 1..Len(out[l]) /\ k \in 1..Len(out[l])
      BY <1>3, <2>1, <3>1
    <3>2. CASE i \in 1..Len(out[l]) /\ k = Len(out[l]) + 1 /\ q[k] = r
      <4>1. out[l][i].salt \notin jobs[l] /\ q[i].salt = out[l][i].salt /\ q[k].salt = s
        BY <1>2, <1>3, <2>1, <3>2
      <4>2. QED
        BY <1>1, <4>1
    <3>3. CASE k \in 1..Len(out[l]) /\ i = Len(out[l]) + 1 /\ q[i] = r
      <4>1. out[l][k].salt \notin jobs[l] /\ q[k].salt = out[l][k].salt /\ q[i].salt = s
        BY <1>2, <1>3, <2>1, <3>3
      <4>2. QED
        BY <1>1, <4>1
    <3>4. QED
      BY <1>4, <3>1, <3>2, <3>3
  <2>4. ASSUME ~stopped[l], failure[l] = "none", NEW x \in pending[l]
        PROVE  x \in jobs[l] \ {s} \/ \E i \in 1..Len(q) : q[i].salt = x
    <3>1. CASE x = s
      <4>1. Len(out[l]) + 1 \in 1..Len(q)
        BY <1>3
      <4>2. QED
        BY <1>2, <1>3, <3>1, <4>1
    <3>2. CASE x # s /\ InOut(l, x)
      <4>1. PICK i \in 1..Len(out[l]) : out[l][i].salt = x
        BY <3>2 DEF InOut
      <4>2. i \in 1..Len(q) /\ q[i].salt = x
        BY <1>3, <4>1
      <4>3. QED
        BY <4>2
    <3>3. QED
      BY <2>1, <2>4, <3>1, <3>2
  <2> HIDE DEF q
  <2>5. QED
    BY <1>1, <2>1, <2>2, <2>3, <2>4 DEF Outstanding, InOut, q
<1>10. FreshSolve(l)' /\ TrueReport(l)'
  BY <1>1, <1>2 DEF Honest, FreshSolve, TrueReport
<1>11. TrueFault(l)' /\ ToldBehind(l)'
  BY <1>1, <1>2, <1>5 DEF Honest, TrueFault, ToldBehind, Reached
<1>12. QED
  BY <1>8, <1>9, <1>10, <1>11 DEF Honest


\* One answer is taken from the front of the channel.
LEMMA FrontTaken ==
    ASSUME NEW q \in Seq(Response), q # <<>>
    PROVE  /\ Head(q) = q[1] /\ 1 \in 1..Len(q) /\ Head(q) \in Response
           /\ Tail(q) \in Seq(Response) /\ Len(q) \in Nat /\ Len(Tail(q)) = Len(q) - 1
           /\ \A i \in 1..Len(Tail(q)) : i + 1 \in 1..Len(q) /\ Tail(q)[i] = q[i + 1]
<1>1. Len(q) \in Nat /\ Len(q) > 0
  BY EmptySeq, LenProperties
<1>2. Tail(q) \in Seq(Response) /\ Len(Tail(q)) = Len(q) - 1 /\ Head(q) \in Response
  BY HeadTailProperties
<1>3. Head(q) = q[1] /\ \A i \in 1..Len(Tail(q)) : i + 1 \in 1..Len(q) /\ Tail(q)[i] = q[i + 1]
  BY <1>1, <1>2, HeadTailProperties
<1>4. QED
  BY <1>1, <1>2, <1>3

LEMMA TakenStaysHonest ==
    ASSUME Safe, NEW l \in Lease, reporter[l] = "receive", out[l] # <<>>,
           out'[l] = Tail(out[l]),
           UNCHANGED <<pc, result, sink, start, end, at, upto, told, jobs, verdict, faults, busies>>,
           \/ pending'[l] = pending[l] /\ (stopped'[l] \/ failure'[l] # "none")
           \/ pending'[l] = pending[l] \ {Head(out[l]).salt},
           Excused(l) => Excused(l)',
           stopped[l] => stopped'[l], failure[l] # "none" => failure'[l] # "none",
           stopped'[l] \in BOOLEAN,
           ~Excused(l)' => current'[l] = Head(out[l]).salt,
           TrueReport(l)', TrueFault(l)'
    PROVE  Honest(l)'
<1> DEFINE q == out[l]
           t == Tail(out[l])
           s == Head(out[l]).salt
<1>1. Honest(l) /\ Solving(l) /\ Solving(l)' /\ q \in Seq(Response)
  BY AtLease DEF Solving
<1>2. /\ s = q[1].salt /\ 1 \in 1..Len(q) /\ Len(q) \in Nat /\ Len(t) = Len(q) - 1
      /\ \A i \in 1..Len(t) : i + 1 \in 1..Len(q) /\ t[i] = q[i + 1]
  BY <1>1, FrontTaken
<1>3. /\ jobs[l] \subseteq pending[l]
      /\ pc[l] = "join" => jobs[l] = {}
      /\ \A i \in 1..Len(q) : q[i].salt \in pending[l] \ jobs[l]
      /\ \A i, k \in 1..Len(q) : q[i].salt = q[k].salt => i = k
      /\ ~stopped[l] /\ failure[l] = "none" =>
           \A x \in pending[l] : x \in jobs[l] \/ \E i \in 1..Len(q) : q[i].salt = x
  BY <1>1 DEF Honest, Outstanding, InOut
<1>4. TrueAnswers(l) /\ ToldBehind(l) /\ FreshSolve(l)
  BY <1>1 DEF Honest
<1> HIDE DEF t, s
<1>5. \A i \in 1..Len(t) : t[i].salt \in pending[l] \ jobs[l] /\ t[i].salt # s
  <2> SUFFICES ASSUME NEW i \in 1..Len(t)
               PROVE  t[i].salt \in pending[l] \ jobs[l] /\ t[i].salt # s
    OBVIOUS
  <2>1. i + 1 \in 1..Len(q) /\ t[i] = q[i + 1] /\ i + 1 # 1
    BY <1>2
  <2>2. QED
    BY <1>2, <1>3, <2>1
<1>6. \A i, k \in 1..Len(t) : t[i].salt = t[k].salt => i = k
  <2> SUFFICES ASSUME NEW i \in 1..Len(t), NEW k \in 1..Len(t), t[i].salt = t[k].salt
               PROVE  i = k
    OBVIOUS
  <2>1. i + 1 \in 1..Len(q) /\ k + 1 \in 1..Len(q) /\ t[i] = q[i + 1] /\ t[k] = q[k + 1]
    BY <1>2
  <2>2. i + 1 = k + 1
    BY <1>3, <2>1
  <2>3. QED
    BY <1>2, <2>2
<1>7. ASSUME ~stopped'[l], failure'[l] = "none", NEW x \in pending'[l]
      PROVE  x \in jobs[l] \/ \E i \in 1..Len(t) : t[i].salt = x
  <2>1. x \in pending[l] /\ x # s /\ ~stopped[l] /\ failure[l] = "none"
    BY <1>7 DEF s
  <2>2. CASE \E i \in 1..Len(q) : q[i].salt = x
    <3>1. PICK i \in 1..Len(q) : q[i].salt = x
      BY <2>2
    <3>2. i # 1
      BY <1>2, <2>1, <3>1
    <3>3. i - 1 \in 1..Len(t) /\ (i - 1) + 1 = i
      BY <1>2, <3>2
    <3>4. t[i - 1].salt = x
      BY <1>2, <3>1, <3>3
    <3>5. QED
      BY <3>3, <3>4
  <2>3. QED
    BY <1>3, <2>1, <2>2
<1>8. Outstanding(l)'
  <2>1. jobs[l] \subseteq pending'[l]
    <3>1. s \notin jobs[l]
      BY <1>2, <1>3
    <3>2. QED
      BY <1>3, <3>1 DEF s
  <2>2. \A i \in 1..Len(t) : t[i].salt \in pending'[l] \ jobs[l]
    BY <1>5 DEF s
  <2>3. QED
    BY <1>3, <1>6, <1>7, <2>1, <2>2 DEF Outstanding, InOut, t
<1>9. TrueAnswers(l)'
  <2> SUFFICES ASSUME NEW i \in 1..Len(t)
               PROVE  /\ t[i].outcome \notin {"reads", "cancelled"} => Trouble'
                      /\ t[i].outcome = "cancelled" => Excused(l)'
    BY DEF TrueAnswers, t
  <2>1. i + 1 \in 1..Len(q) /\ t[i] = q[i + 1]
    BY <1>2
  <2>2. QED
    BY <1>4, <2>1 DEF TrueAnswers, Trouble
<1>10. ToldBehind(l)'
  <2> SUFFICES ASSUME sink[l] = "open", ~Excused(l)', NEW x \in Salt, x < end[l]
               PROVE  Reached(l, x)' \/ x = current'[l]
    BY <1>1, <1>4 DEF ToldBehind, Solving
  <2>1. x \in pending[l] => x \in pending'[l] \/ x = s
    BY DEF s
  <2>2. Reached(l, x) \/ x = current[l]
    BY <1>1, <1>4 DEF ToldBehind
  <2>3. x # current[l]
    <3>1. current[l] = NoSalt
      BY AtLease DEF LeaseInv, InHand
    <3>2. QED
      BY <3>1, AtLease DEF Salt, NoSalt
  <2>4. current'[l] = s
    BY DEF s
  <2>5. QED
    BY <2>1, <2>2, <2>3, <2>4 DEF Reached
<1>11. FreshSolve(l)'
  BY <1>1 DEF FreshSolve
<1>12. QED
  BY <1>8, <1>9, <1>10, <1>11 DEF Honest

LEMMA ReceiveHonest ==
    ASSUME Safe, NEW l \in Lease, Receive(l)
    PROVE  Honest(l)'
<1> DEFINE s == Head(out[l]).salt
           o == Head(out[l]).outcome
<1>1. /\ UNCHANGED <<pc, result, sink, start, end, at, upto, told, jobs, verdict, faults, busies>>
      /\ reporter[l] = "receive" /\ out[l] # <<>> /\ out'[l] = Tail(out[l])
  BY DEF Receive, chunkVars, troubleVars, Safe, TypeOK
<1>2. /\ Solving(l) /\ Honest(l) /\ verdict[l] = "none"
      /\ stopped[l] \/ cancel[l] => Excused(l)
      /\ Excused(l) <=> sink[l] # "open" \/ failure[l] # "none"
  BY <1>1, WhileReporting
<1>3. /\ s \in pending[l] /\ o \in Outcome
      /\ o \notin {"reads", "cancelled"} => Trouble
      /\ o = "cancelled" => Excused(l)
  <2>1. out[l] \in Seq(Response)
    BY AtLease
  <2>2. Head(out[l]) = out[l][1] /\ 1 \in 1..Len(out[l]) /\ Head(out[l]) \in Response
    BY <1>1, <2>1, FrontTaken
  <2>3. QED
    BY <1>2, <2>2 DEF Honest, Outstanding, TrueAnswers, Response
<1>4. TrueFault(l)
  BY <1>2 DEF Honest
<1>5. /\ stopped \in [Lease -> BOOLEAN] /\ cancel \in [Lease -> BOOLEAN]
      /\ pending \in [Lease -> SUBSET Salt] /\ current \in [Lease -> Salt0]
      /\ failure \in [Lease -> Result \cup {"none"}]
      /\ reporter \in [Lease -> {"off", "build", "loop", "receive", "check", "empty", "push"}]
  BY DEF Safe, TypeOK
<1> HIDE DEF s, o
<1>6. CASE stopped[l] \/ IsStopped(l) \/ failure[l] # "none"
  <2>1. /\ stopped' = [stopped EXCEPT ![l] = @ \/ IsStopped(l)]
        /\ reporter' = [reporter EXCEPT ![l] = "loop"]
        /\ UNCHANGED <<pending, cancel, current, failure>>
    BY <1>6 DEF Receive, Reporter
  <2>2. /\ stopped'[l] <=> stopped[l] \/ sink[l] = "stopped"
        /\ stopped'[l] \in BOOLEAN /\ reporter'[l] = "loop"
    BY <1>5, <2>1 DEF IsStopped
  <2>3. Excused(l) /\ Excused(l)'
    BY <1>1, <1>2, <1>6, <2>1 DEF Excused, IsStopped
  <2>4. TrueReport(l)' /\ TrueFault(l)'
    BY <1>1, <1>2, <1>4, <2>1, <2>2, <2>3 DEF TrueReport, TrueFault, Trouble
  <2>5. stopped'[l] \/ failure'[l] # "none"
    BY <1>6, <2>1, <2>2 DEF IsStopped
  <2>6. QED
    BY <1>1, <2>1, <2>2, <2>3, <2>4, <2>5, TakenStaysHonest
<1>7. CASE ~(stopped[l] \/ IsStopped(l) \/ failure[l] # "none")
  <2>0. Take(l, s, o)
    BY <1>7 DEF Receive, s, o
  <2>1. pending'[l] = pending[l] \ {s}
    BY <1>5, <2>0 DEF Take
  <2>2. CASE o \in {"reads", "noreads"}
    <3>1. /\ current' = [current EXCEPT ![l] = s]
          /\ reporter' = [reporter EXCEPT ![l] = IF o = "reads" THEN "check" ELSE "empty"]
          /\ UNCHANGED <<failure, cancel>>
      BY <1>3, <2>0, <2>2 DEF Take, Reporter
    <3>2. stopped' = [stopped EXCEPT ![l] = @ \/ FALSE]
      BY <1>3, <2>0, <2>2 DEF Take
    <3>3. /\ current'[l] = s /\ reporter'[l] \in {"check", "empty"}
          /\ reporter'[l] = "empty" => o = "noreads"
          /\ stopped'[l] = stopped[l] /\ stopped'[l] \in BOOLEAN
      BY <1>5, <2>2, <3>1, <3>2
    <3>4. Excused(l)' <=> Excused(l)
      BY <1>1, <3>1 DEF Excused
    <3>5. TrueReport(l)' /\ TrueFault(l)'
      BY <1>1, <1>2, <1>3, <1>4, <3>1, <3>3, <3>4 DEF TrueReport, TrueFault, Trouble
    <3>6. QED
      BY <1>1, <2>1, <3>1, <3>3, <3>4, <3>5, TakenStaysHonest DEF s
  <2>3. CASE o = "cancelled"
    <3>1. /\ reporter' = [reporter EXCEPT ![l] = "loop"]
          /\ UNCHANGED <<current, failure, cancel>>
          /\ stopped' = [stopped EXCEPT ![l] = @ \/ TRUE]
      BY <1>3, <2>0, <2>3 DEF Take, Reporter
    <3>2. reporter'[l] = "loop" /\ stopped'[l]
      BY <1>5, <3>1
    <3>3. Excused(l)'
      BY <1>1, <1>3, <2>3, <3>1 DEF Excused
    <3>4. TrueReport(l)' /\ TrueFault(l)'
      BY <1>1, <1>2, <1>4, <3>1, <3>2, <3>3 DEF TrueReport, TrueFault, Trouble
    <3>5. stopped'[l] \in BOOLEAN
      BY <1>5, <3>1
    <3>6. QED
      BY <1>1, <2>1, <3>1, <3>2, <3>3, <3>4, <3>5, TakenStaysHonest DEF s
  <2>4. CASE o \notin {"reads", "noreads", "cancelled"}
    <3>1. /\ reporter' = [reporter EXCEPT ![l] = "loop"]
          /\ failure' = [failure EXCEPT ![l] = FailureOf(o)]
          /\ UNCHANGED current
      BY <1>3, <2>0, <2>4 DEF Take, Reporter
    <3>2. /\ stopped' = [stopped EXCEPT ![l] = @ \/ FALSE]
          /\ cancel' = [cancel EXCEPT ![l] = TRUE]
      BY <1>3, <2>0, <2>4 DEF Take
    <3>3. /\ reporter'[l] = "loop" /\ failure'[l] \in {"Capacity", "DeviceFault"}
          /\ stopped'[l] \in BOOLEAN /\ (stopped[l] => stopped'[l])
      BY <1>5, <3>1, <3>2 DEF FailureOf
    <3>4. Excused(l)' /\ Trouble
      BY <1>3, <2>4, <3>3 DEF Excused
    <3>5. TrueReport(l)' /\ TrueFault(l)'
      BY <1>1, <1>2, <3>3, <3>4 DEF TrueReport, TrueFault, Trouble
    <3>6. QED
      BY <1>1, <2>1, <3>3, <3>4, <3>5, TakenStaysHonest DEF s
  <2>5. QED
    BY <2>2, <2>3, <2>4
<1>8. QED
  BY <1>6, <1>7

-----------------------------------------------------------------------------
(***************************************************************************)
(* All together                                                            *)
(***************************************************************************)
LEMMA StepHonest ==
    ASSUME Safe, [Next]_vars
    PROVE  OutcomeTypes' /\ VerdictInv'
<1> USE DEF Safe
<1>1. CASE UNCHANGED vars
  <2>1. OutcomeTypes'
    BY <1>1 DEF vars, reporterVars, troubleVars, OutcomeTypes, TypeOK
  <2>2. ASSUME NEW m \in Lease PROVE Honest(m)'
    <3>1. Honest(m) /\ Steady(m) /\ (Trouble => Trouble')
      BY <1>1 DEF vars, chunkVars, streamVars, reporterVars, troubleVars, VerdictInv, Trouble,
          Steady, Same, SameChunk, SameSalts, SameHand, SameSolve
    <3>2. QED
      BY <3>1, SteadyStaysHonest
  <2>3. QED
    BY <2>1, <2>2 DEF VerdictInv
<1>2. ASSUME NEW l \in Lease, Framed(l), Honest(l)' PROVE OutcomeTypes' /\ VerdictInv'
  <2>1. OutcomeTypes' /\ (Trouble => Trouble')
    BY <1>2, TroubleGrows DEF Framed
  <2>2. ASSUME NEW m \in Lease \ {l} PROVE Honest(m)'
    <3>1. Honest(m) /\ Steady(m)
      BY <1>2 DEF Framed, VerdictInv
    <3>2. QED
      BY <2>1, <3>1, SteadyStaysHonest
  <2>3. QED
    BY <1>2, <2>1, <2>2 DEF VerdictInv
<1>3. ASSUME NEW l \in Lease, WorkStep(l) PROVE Framed(l) /\ Honest(l)'
  <2>1. Framed(l)
    BY <1>3, StepsAreFramed
  <2>2. Honest(l)'
    BY <1>3, <2>1, OutsideHonest, RunFullBatchHonest, StreamReturnsHonest, SolvedHonest
  <2>3. QED
    BY <2>1, <2>2
<1>4. ASSUME NEW l \in Lease, ReportStep(l) PROVE Framed(l) /\ Honest(l)'
  <2>1. Framed(l)
    BY <1>4, StepsAreFramed
  <2>2. Honest(l)'
    BY <1>4, <2>1, BuildRuntimeHonest, NoticeHonest, OnwardHonest, ReceiveHonest,
        CheckStoppedHonest, NoReadsHonest, ConcludeHonest DEF ReportStep
  <2>3. QED
    BY <2>1, <2>2
<1>5. ASSUME NEW l \in Lease, SinkStops(l) \/ SinkGoes(l) \/ Push(l) \/ Watch(l)
      PROVE  Framed(l) /\ Honest(l)'
  BY <1>5, StepsAreFramed, SinkHonest, PushHonest, WatchHonest
<1>6. ASSUME NEW l \in Lease, NEW s \in Salt, NEW o \in Outcome, Respond(l, s, o)
      PROVE  Framed(l) /\ Honest(l)'
  <2>1. Framed(l)
    BY <1>6, StepsAreFramed
  <2>2. QED
    BY <1>6, <2>1, RespondHonest
<1>7. QED
  BY <1>1, <1>2, <1>3, <1>4, <1>5, <1>6 DEF Next

LEMMA TypesOfAll ==
    SaltTypes /\ StreamTypes /\ TurnTypes /\ OutcomeTypes <=> TypeOK
BY DEF SaltTypes, StreamTypes, TurnTypes, OutcomeTypes, TypeOK, Response

LEMMA SafeStep == Safe /\ [Next]_vars => Safe'
<1> SUFFICES ASSUME Safe, [Next]_vars PROVE Safe'
  OBVIOUS
<1>1. SaltsInv' /\ StreamInv' /\ TurnInv'
  BY SaltsInvNext, StreamInvNext, TurnStep DEF Safe
<1>2. OutcomeTypes' /\ VerdictInv'
  BY StepHonest
<1>3. TypeOK'
  <2>1. SaltTypes' /\ StreamTypes' /\ TurnTypes' /\ OutcomeTypes'
    BY <1>1, <1>2 DEF SaltsInv, StreamInv, TurnInv
  <2>2. QED
    BY <2>1 DEF SaltTypes, StreamTypes, TurnTypes, OutcomeTypes, TypeOK, Response
<1>4. QED
  BY <1>1, <1>2, <1>3 DEF Safe

LEMMA SafeInit == Init => Safe
<1> SUFFICES ASSUME Init PROVE Safe
  OBVIOUS
<1>1. SaltsInv /\ StreamInv /\ TurnInv
  BY SaltsInvInit, StreamInvInit, TurnInit
<1>2. OutcomeTypes
  BY Assumption DEF Init, OutcomeTypes
<1>3. TypeOK
  BY <1>1, <1>2, TypesOfAll DEF SaltsInv, StreamInv, TurnInv
<1>4. ASSUME NEW l \in Lease PROVE Honest(l)
  <2>1. /\ pc[l] = "begin" /\ start[l] = 0 /\ result[l] = "none" /\ out[l] = <<>>
        /\ ~stopped[l] /\ ~cancel[l] /\ failure[l] = "none" /\ verdict[l] = "none"
        /\ reporter[l] = "off" /\ Len(<<>>) = 0
    BY DEF Init
  <2>2. FreshSolve(l) /\ Outstanding(l) /\ TrueAnswers(l) /\ TrueReport(l) /\ TrueFault(l)
    BY <2>1 DEF FreshSolve, Outstanding, TrueAnswers, TrueReport, TrueFault, Solving
  <2>3. ToldBehind(l)
    BY <2>1, Assumption DEF ToldBehind, Solving, Salt
  <2>4. QED
    BY <2>2, <2>3 DEF Honest
<1>5. QED
  BY <1>1, <1>3, <1>4 DEF Safe, VerdictInv

\* What sample returns is true: while the sink takes everything no salt is
\* lost between the probe, the decisions, the stream and the reporter, Ok means
\* all were accounted for, and a device fault means a device call failed, not a
\* stop that one of the three threads noticed first (work, run_full_batch, report).
THEOREM AnswersTruly == Spec => []VerdictSound
<1>1. ASSUME Safe PROVE VerdictSound
  <2>1. ASSUME NEW l \in Lease, sink[l] = "open", NEW s \in 0..(Salts[l] - 1)
        PROVE  /\ s < start[l] \/ result[l] = "Ok" => told[l][s] # "nothing"
               /\ s >= end[l] => told[l][s] = "nothing"
    <3>1. s \in Salt /\ s < Salts[l]
      <4>1. Salts[l] \in Nat /\ MaxSalts \in Nat /\ Salts[l] <= MaxSalts
        BY <1>1, AtLease
      <4>2. QED
        BY <4>1 DEF Salt
    <3>2. ToldBehind(l) /\ ToldOnce(l)
      BY <1>1, AtLease DEF Honest, LeaseInv
    <3>3. QED
      BY <2>1, <3>1, <3>2 DEF ToldBehind, ToldOnce, Untold
  <2>2. FaultOnlyOnFailure
    BY <1>1 DEF Safe, VerdictInv, Honest, TrueFault, Trouble, FaultOnlyOnFailure
  <2>3. QED
    BY <1>1, <2>1, <2>2 DEF Safe, VerdictSound, ChunksComplete
<1>2. QED
  BY <1>1, SafeInit, SafeStep, PTL DEF Spec
=============================================================================
