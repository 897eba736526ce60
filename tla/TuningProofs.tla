---------------------------- MODULE TuningProofs ----------------------------
(***************************************************************************)
(* What tunes a miner at work is sound, for any devices, neighbours, screen *)
(* tables, topologies, energies and windows: the governor yields to other   *)
(* people's load only, the driver's windows fit into the time there was,    *)
(* the selector keeps what its configuration admits, a screen packs its     *)
(* topology without loss and gives every nonce its own result, and the      *)
(* markers of a quantile keep their order.                                 *)
(***************************************************************************)
EXTENDS Governor, ScreenPolicy, Quantile, DriverBudget, FoldLemmas

-----------------------------------------------------------------------------
(* The governor. *)

GovTypes ==
    /\ knobs \in [ceiling : 1..100, yielding : BOOLEAN, stop : BOOLEAN]
    /\ setting.yielding \in BOOLEAN
    /\ present \subseteq Neighbour /\ busy \subseteq Neighbour

\* What NVML keeps: samples of the miner, and of neighbours that load the
\* device no more than a neighbour does.
SamplesKept ==
    /\ IsFiniteSet(DOMAIN samples) /\ DOMAIN samples \subseteq Nat
    /\ \A t \in DOMAIN samples :
           /\ samples[t].pid \in Neighbour \cup {Self}
           /\ samples[t].pid # Self => samples[t].sm \in 0..Load

\* A figure tells who was measured, unless there was nothing to measure.
FigureSound(f) ==
    /\ f.how \in {"none", "PerProcess", "WholeDevice"}
    /\ f.value \in Nat
    /\ f.how = "none" => f.value = 0
    /\ f.how = "PerProcess" => f.value <= MostForeign

\* The answer is given for the figure that was loaded, above a ceiling.
AnswerSound ==
    /\ DOMAIN ask = {"at", "figure", "verdict"}
    /\ FigureSound(ask.figure)
    /\ ask.at # "idle" => ~ask.verdict
    /\ ask.verdict => ask.figure.how \in {"PerProcess", "WholeDevice"}

GovInv == GovTypes /\ SamplesKept /\ FigureSound(figure) /\ AnswerSound

LEMMA Clamped ==
    ASSUME NEW v \in Int, NEW w \in Int, v <= w
    PROVE  /\ Clamp(v, 0, 100) \in Nat /\ Clamp(v, 0, 100) <= Clamp(w, 0, 100)
           /\ Clamp(v, 1, 100) \in 1..100
BY DEF Clamp

\* No process is counted twice, nor the miner: the newest samples of the
\* others are as many as there are neighbours at most.
LEMMA ForeignLoad ==
    ASSUME SamplesKept, NEW read \in SUBSET (DOMAIN samples)
    PROVE  ForeignSmUtil(read) \in Nat /\ ForeignSmUtil(read) <= MostForeign
<1> DEFINE newest  == {t \in read : \A u \in read : samples[u].pid = samples[t].pid => u <= t}
           foreign == {t \in newest : samples[t].pid # Self}
           owner   == [t \in foreign |-> samples[t].pid]
           sm      == [t \in foreign |-> samples[t].sm]
<1>1. IsFiniteSet(Neighbour) /\ Self \notin Neighbour /\ Load \in 1..100
  BY GovernorAssumption
<1>2. foreign \subseteq DOMAIN samples /\ IsFiniteSet(foreign)
  <2>1. foreign \subseteq DOMAIN samples
    OBVIOUS
  <2>. QED BY <2>1, FS_Subset DEF SamplesKept
<1>3. owner \in Injection(foreign, Neighbour)
  <2>1. owner \in [foreign -> Neighbour]
    BY DEF SamplesKept
  <2>2. ASSUME NEW t \in foreign, NEW u \in foreign, owner[t] = owner[u] PROVE t = u
    <3>1. t <= u /\ u <= t /\ t \in Nat /\ u \in Nat
      BY <2>2 DEF SamplesKept
    <3>. QED BY <3>1
  <2>. QED BY <2>1, <2>2 DEF Injection, IsInjective
<1>4. /\ Cardinality(foreign) <= Cardinality(Neighbour)
      /\ Cardinality(foreign) \in Nat /\ Cardinality(Neighbour) \in Nat
  <2>. HIDE DEF foreign, owner
  <2>. QED BY <1>1, <1>2, <1>3, FS_Injection, FS_CardinalityType
<1>5. SumOf(sm, foreign) \in Nat /\ SumOf(sm, foreign) <= Load * Cardinality(foreign)
  <2>1. \A t \in foreign : sm[t] \in 0..Load
    BY DEF SamplesKept
  <2>2. Load \in Nat
    BY <1>1
  <2>. HIDE DEF foreign, sm
  <2>. QED BY <1>2, <2>1, <2>2, SumOfNaturals
<1>6. Load * Cardinality(foreign) <= Load * Cardinality(Neighbour)
  <2>1. \A l \in Nat, m \in Nat, n \in Nat : m <= n => l * m <= l * n
    OBVIOUS
  <2>. HIDE DEF foreign
  <2>. QED BY <1>1, <1>4, <2>1
<1>7. MapThenSumSet(LAMBDA t : samples[t].sm, foreign) = SumOf(sm, foreign)
  <2>1. \A t \in foreign : samples[t].sm = sm[t]
    OBVIOUS
  <2>. HIDE DEF foreign, sm
  <2>. QED BY <2>1, SumOfField
<1>8. /\ Load * Cardinality(foreign) \in Int /\ Load * Cardinality(Neighbour) \in Int
  <2>. HIDE DEF foreign
  <2>. QED BY <1>1, <1>4
<1>9. ForeignSmUtil(read) = Clamp(SumOf(sm, foreign), 0, 100)
  BY <1>7 DEF ForeignSmUtil
<1>10. MostForeign = Clamp(Load * Cardinality(Neighbour), 0, 100)
  BY DEF MostForeign
<1>. HIDE DEF foreign, sm
<1>11. SumOf(sm, foreign) \in Int /\ SumOf(sm, foreign) <= Load * Cardinality(Neighbour)
  BY <1>5, <1>6, <1>8
<1>. QED BY <1>8, <1>9, <1>10, <1>11, Clamped

LEMMA GovInitHolds == GovInit => GovInv
<1>. SUFFICES ASSUME GovInit PROVE GovInv
  OBVIOUS
<1>1. /\ figure = NoFigure /\ present = {} /\ busy = {} /\ samples = <<>>
      /\ ask = [at |-> "idle", figure |-> NoFigure, verdict |-> FALSE]
  BY DEF GovInit
<1>2. GovTypes
  <2>1. Clamp(CliCeiling, 1, 100) \in 1..100
    BY GovernorAssumption, Clamped
  <2>. QED BY <1>1, <2>1 DEF GovInit, GovTypes, Idle
<1>3. SamplesKept
  <2>1. DOMAIN samples = {}
    BY <1>1
  <2>. QED BY <2>1, FS_EmptySet DEF SamplesKept
<1>4. FigureSound(NoFigure)
  BY DEF FigureSound, NoFigure
<1>. QED BY <1>1, <1>2, <1>3, <1>4 DEF GovInv, AnswerSound

\* What is measured of the whole device is a natural number too.
LEMMA DeviceLoad ==
    ASSUME GovTypes
    PROVE  DeviceUtil \in Nat
<1>1. IsFiniteSet(busy)
  BY GovernorAssumption, FS_Subset DEF GovTypes
<1>2. Cardinality(busy) \in Nat
  BY <1>1, FS_CardinalityType
<1>3. OwnLoad + Load * Cardinality(busy) \in Int
  BY <1>2, GovernorAssumption
<1>. QED BY <1>3, Clamped DEF DeviceUtil

LEMMA NoFigureSound == FigureSound(NoFigure)
BY DEF FigureSound, NoFigure

LEMMA StoredSound ==
    ASSUME NEW value \in Nat, NEW how \in {"Alone", "PerProcess", "WholeDevice"},
           how = "Alone" => value = 0,
           how = "PerProcess" => value <= MostForeign,
           StoreFigure(value, how)
    PROVE  FigureSound(figure')
<1>1. CASE value = 0
  BY <1>1, NoFigureSound DEF StoreFigure
<1>2. CASE value # 0
  <2>1. figure' = [value |-> value, how |-> how]
    BY <1>2 DEF StoreFigure
  <2>. QED BY <1>2, <2>1 DEF FigureSound
<1>. QED BY <1>1, <1>2

LEMMA NeighbourStep ==
    ASSUME GovInv, NEW n \in Neighbour, NeighbourMoves(n)
    PROVE  GovInv'
<1>1. /\ present' \subseteq Neighbour /\ busy' \subseteq Neighbour
      /\ UNCHANGED <<knobs, figure, samples, ask, setting>>
  BY DEF NeighbourMoves, GovInv, GovTypes, pollVars
<1>. QED BY <1>1 DEF GovInv, GovTypes, SamplesKept, FigureSound, AnswerSound, MostForeign

LEMMA SampledStep ==
    ASSUME GovInv, NEW p \in Neighbour \cup {Self}, Sampled(p)
    PROVE  GovInv'
<1> DEFINE c == Cardinality(DOMAIN samples)
<1>1. /\ samples' = [t \in 1..(c + 1) |->
             IF t \in DOMAIN samples THEN samples[t] ELSE [pid |-> p, sm |-> Sm(p)]]
      /\ UNCHANGED <<knobs, figure, present, busy, ask, setting>>
  BY DEF Sampled, pollVars
<1>2. c \in Nat
  BY FS_CardinalityType DEF GovInv, SamplesKept
<1>3. p # Self => Sm(p) \in 0..Load
  BY GovernorAssumption DEF Sm
<1>. HIDE DEF c
<1>4. SamplesKept'
  <2>1. DOMAIN samples' = 1..(c + 1)
    BY <1>1
  <2>2. IsFiniteSet(1..(c + 1)) /\ 1..(c + 1) \subseteq Nat
    BY <1>2, FS_Interval
  <2>3. ASSUME NEW t \in 1..(c + 1)
        PROVE  /\ samples'[t].pid \in Neighbour \cup {Self}
               /\ samples'[t].pid # Self => samples'[t].sm \in 0..Load
    <3>1. CASE t \in DOMAIN samples
      <4>1. samples'[t] = samples[t]
        BY <1>1, <3>1
      <4>. QED BY <3>1, <4>1 DEF GovInv, SamplesKept
    <3>2. CASE t \notin DOMAIN samples
      <4>1. samples'[t] = [pid |-> p, sm |-> Sm(p)]
        BY <1>1, <3>2
      <4>. QED BY <1>3, <4>1
    <3>. QED BY <3>1, <3>2
  <2>. QED BY <2>1, <2>2, <2>3 DEF SamplesKept
<1>. QED BY <1>1, <1>4 DEF GovInv, GovTypes, FigureSound, AnswerSound, MostForeign

\* A poll changes the figure only, and stores what was measured.
LEMMA PollStep ==
    ASSUME GovInv, Poll
    PROVE  GovInv'
<1>1. UNCHANGED <<knobs, present, busy, samples, ask, setting>>
  BY DEF Poll, PollCheck, PollYielding, PollList, PollStats, PollRates, deviceVars
<1>2. FigureSound(figure')
  <2>1. CASE UNCHANGED figure
    BY <2>1 DEF GovInv
  <2>2. CASE figure' = NoFigure
    BY <2>2, NoFigureSound
  <2>3. CASE StoreFigure(0, "Alone")
    BY <2>3, StoredSound
  <2>4. CASE StoreFigure(ForeignSmUtil(Since(lastSeen)), "PerProcess")
    <3>1. Since(lastSeen) \in SUBSET (DOMAIN samples)
      BY DEF Since
    <3>2. /\ ForeignSmUtil(Since(lastSeen)) \in Nat
          /\ ForeignSmUtil(Since(lastSeen)) <= MostForeign
      BY <3>1, ForeignLoad DEF GovInv
    <3>. QED BY <2>4, <3>2, StoredSound
  <2>5. CASE \E value \in {0, DeviceUtil} : StoreFigure(value, "WholeDevice")
    BY <2>5, DeviceLoad, StoredSound DEF GovInv
  <2>. QED BY <2>1, <2>2, <2>3, <2>4, <2>5
       DEF Poll, PollCheck, PollYielding, PollList, PollStats, PollRates
<1>. QED BY <1>1, <1>2 DEF GovInv, GovTypes, SamplesKept, FigureSound, AnswerSound, MostForeign

\* The answer is worked out from the figure that was loaded.
LEMMA AskStep ==
    ASSUME GovInv, AskYielding \/ AskFigure \/ AskCeiling
    PROVE  GovInv'
<1>1. UNCHANGED <<knobs, figure, present, busy, samples, setting>>
  BY DEF AskYielding, AskFigure, AskCeiling, deviceVars, pollVars
<1>2. FigureSound(ask'.figure) = FigureSound(ask.figure)' /\ knobs.ceiling \in 1..100
  BY DEF GovInv, GovTypes, FigureSound, MostForeign
<1>3. AnswerSound'
  <2>1. CASE AskYielding
    <3>1. /\ ask'.figure = NoFigure /\ ask'.verdict = FALSE
          /\ DOMAIN ask' = {"at", "figure", "verdict"}
      BY <2>1 DEF AskYielding
    <3>. QED BY <1>2, <3>1, NoFigureSound DEF AnswerSound
  <2>2. CASE AskFigure
    <3>1. /\ ask'.figure = figure /\ ask'.verdict = ask.verdict /\ ask.at = "figure"
          /\ DOMAIN ask' = {"at", "figure", "verdict"}
      BY <2>2 DEF AskFigure, GovInv, AnswerSound
    <3>2. ~ask.verdict
      BY <3>1 DEF GovInv, AnswerSound
    <3>. QED BY <1>2, <3>1, <3>2 DEF GovInv, AnswerSound
  <2>3. CASE AskCeiling
    <3>1. /\ ask'.figure = ask.figure /\ ask'.verdict = (ask.figure.value > knobs.ceiling)
          /\ ask'.at = "idle" /\ DOMAIN ask' = {"at", "figure", "verdict"}
      BY <2>3 DEF AskCeiling, GovInv, AnswerSound
    <3>2. FigureSound(ask.figure)
      BY DEF GovInv, AnswerSound
    <3>3. ask.figure.value > knobs.ceiling => ask.figure.how \in {"PerProcess", "WholeDevice"}
      BY <1>2, <3>2 DEF FigureSound
    <3>. QED BY <1>2, <3>1, <3>2, <3>3 DEF AnswerSound
  <2>. QED BY <2>1, <2>2, <2>3
<1>. QED BY <1>1, <1>3 DEF GovInv, GovTypes, SamplesKept, FigureSound, MostForeign

\* The ceiling stays above zero, whatever an override says.
LEMMA KnobStep ==
    ASSUME GovInv, Stop \/ StoreCeiling \/ StoreYielding
    PROVE  GovInv'
<1>1. UNCHANGED <<figure, present, busy, samples, ask>>
  BY DEF Stop, StoreCeiling, StoreYielding, deviceVars, pollVars
<1>2. knobs' \in [ceiling : 1..100, yielding : BOOLEAN, stop : BOOLEAN] /\ setting'.yielding \in BOOLEAN
  <2>1. CASE Stop
    BY <2>1 DEF Stop, GovInv, GovTypes
  <2>2. CASE StoreCeiling
    <3>1. PICK ceiling \in Override \cup {knobs.ceiling} :
             knobs' = [knobs EXCEPT !.ceiling = Clamp(ceiling, 1, 100)]
      BY <2>2 DEF StoreCeiling
    <3>2. ceiling \in Int
      BY <3>1, GovernorAssumption DEF GovInv, GovTypes
    <3>3. Clamp(ceiling, 1, 100) \in 1..100
      BY <3>2, Clamped
    <3>4. knobs' \in [ceiling : 1..100, yielding : BOOLEAN, stop : BOOLEAN]
      BY <3>1, <3>3 DEF GovInv, GovTypes
    <3>. QED BY <2>2, <3>4 DEF StoreCeiling
  <2>3. CASE StoreYielding
    BY <2>3 DEF StoreYielding, Idle, GovInv, GovTypes
  <2>. QED BY <2>1, <2>2, <2>3
<1>. QED BY <1>1, <1>2 DEF GovInv, GovTypes, SamplesKept, FigureSound, AnswerSound, MostForeign

LEMMA GovNextHolds == GovInv /\ [GovNext]_govVars => GovInv'
<1>. SUFFICES ASSUME GovInv, [GovNext]_govVars PROVE GovInv'
  OBVIOUS
<1>1. ASSUME UNCHANGED govVars PROVE GovInv'
  BY <1>1 DEF govVars, pollVars, deviceVars, GovInv, GovTypes, SamplesKept, FigureSound,
              AnswerSound, MostForeign
<1>. QED BY <1>1, NeighbourStep, SampledStep, PollStep, AskStep, KnobStep DEF GovNext

\* The miner yields to other people's load only: what a poll attributes to
\* the processes is never more than the neighbours can have put on the device,
\* and should_throttle says yes for no figure but a measured one.
THEOREM ThrottleAlwaysJustified == GovSpec => []ThrottleJustified
<1>1. GovInv => ThrottleJustified
  BY DEF GovInv, FigureSound, AnswerSound, ThrottleJustified
<1>. QED BY <1>1, GovInitHolds, GovNextHolds, PTL DEF GovSpec

-----------------------------------------------------------------------------
(* The driver's time accounting. *)

BudgetTypes ==
    /\ clock \in Nat /\ windowStart \in 0..clock
    /\ window \in Nat \ {0}
    /\ charged \in [Bucket -> Nat]
    /\ completions \in Nat
    /\ totals \in [windows : Nat, elapsed : Nat, completions : Nat, counted : Nat]
    /\ snapshot \in [elapsed : Nat, charged : [Bucket -> Nat], completions : Nat]
    /\ opened # NoMark => /\ opened.bucket \in Bucket
                          /\ opened.start \in Nat /\ opened.start <= clock

\* While a window is frozen no region is open, and the window is the one the
\* next report adds.
Frozen ==
    Closing => /\ opened = NoMark
               /\ snapshot.elapsed >= window
               /\ snapshot.completions = completions

\* Time is charged to the window it passed in.
OpenTime == IF opened = NoMark THEN 0 ELSE clock - opened.start

Charged ==
    /\ ~Closing => Sum(charged) + OpenTime <= clock - windowStart
    /\ Sum(snapshot.charged) <= snapshot.elapsed

\* The windows reported end before the one that is open begins.
Reported ==
    /\ totals.elapsed + snapshot.elapsed <= IF Closing THEN clock ELSE windowStart
    /\ totals.windows * window <= IF Closing THEN clock ELSE windowStart
    /\ totals.completions + completions = totals.counted

BudgetInv == BudgetTypes /\ Frozen /\ Charged /\ Reported

\* The time in all buckets, and one bucket charged.
LEMMA SumIsSumOf == \A w : Sum(w) = SumOf(w, Bucket)
BY DEF Sum, MapThenSumSet, MapThenFoldSet, Sums, SumOf, Pick

LEMMA ZeroSum == Sum(Zero) = 0 /\ Zero \in [Bucket -> Nat]
<1>1. SumOf(Zero, Bucket) = 0
  BY SumOfZero, BudgetAssumption DEF Zero
<1>. QED BY <1>1, SumIsSumOf DEF Zero

LEMMA ChargedSum ==
    ASSUME NEW w \in [Bucket -> Nat], NEW b \in Bucket, NEW d \in Nat
    PROVE  /\ Sum(w) \in Nat
           /\ Sum([w EXCEPT ![b] = @ + d]) = Sum(w) + d
<1> DEFINE v == [w EXCEPT ![b] = @ + d]
<1>1. /\ \A x \in Bucket : w[x] \in Nat
      /\ v[b] = w[b] + d /\ \A x \in Bucket \ {b} : v[x] = w[x]
  OBVIOUS
<1>. HIDE DEF v
<1>2. SumOf(w, Bucket) \in Nat /\ SumOf(v, Bucket) = SumOf(w, Bucket) + d
  BY <1>1, SumOfMore, BudgetAssumption
<1>. QED BY <1>2, SumIsSumOf DEF v

LEMMA SumIsNat ==
    ASSUME NEW w \in [Bucket -> Nat]
    PROVE  Sum(w) \in Nat
<1>1. CASE Bucket = {}
  <2>1. SumOf(w, Bucket) = 0
    BY <1>1, SumOfZero, BudgetAssumption
  <2>. QED BY <2>1, SumIsSumOf
<1>2. CASE Bucket # {}
  <2>1. PICK b \in Bucket : TRUE
    BY <1>2
  <2>. QED BY <2>1, ChargedSum, 0 \in Nat
<1>. QED BY <1>1, <1>2

LEMMA BudgetInitHolds == BudgetInit => BudgetInv
<1>. SUFFICES ASSUME BudgetInit PROVE BudgetInv
  OBVIOUS
<1>1. window \in Nat \ {0}
  BY BudgetAssumption DEF BudgetInit
<1>2. /\ snapshot = [elapsed |-> 0, charged |-> Zero, completions |-> 0] /\ ~Closing
      /\ clock = 0 /\ windowStart = 0 /\ charged = Zero /\ completions = 0 /\ opened = NoMark
      /\ totals = [windows |-> 0, elapsed |-> 0, completions |-> 0, counted |-> 0]
  BY DEF BudgetInit, Closing, NoSnapshot
<1>3. BudgetTypes
  BY <1>1, <1>2, ZeroSum DEF BudgetTypes
<1>4. Frozen
  BY <1>2 DEF Frozen
<1>5. Charged
  BY <1>2, ZeroSum DEF Charged, OpenTime
<1>6. Reported
  BY <1>1, <1>2 DEF Reported
<1>. QED BY <1>3, <1>4, <1>5, <1>6 DEF BudgetInv

\* Time passes.
LEMMA TickStep ==
    ASSUME BudgetInv, Tick
    PROVE  BudgetInv'
<1>1. /\ clock' = clock + 1
      /\ UNCHANGED <<enabled, window, windowStart, charged, completions, opened, snapshot, totals>>
  BY DEF Tick
<1>2. Closing' <=> Closing
  BY <1>1 DEF Closing, NoSnapshot, Zero
<1>3. BudgetTypes'
  BY <1>1 DEF BudgetInv, BudgetTypes
<1>4. Frozen'
  BY <1>1, <1>2 DEF BudgetInv, Frozen
<1>5. Charged'
  <2>1. Sum(charged)' = Sum(charged) /\ Sum(snapshot.charged)' = Sum(snapshot.charged)
    BY <1>1 DEF Sum, MapThenSumSet, MapThenFoldSet
  <2>2. Sum(charged) \in Nat
    BY SumIsNat DEF BudgetInv, BudgetTypes
  <2>. QED BY <1>1, <1>2, <2>1, <2>2 DEF BudgetInv, BudgetTypes, Charged, OpenTime
<1>6. Reported'
  <2>1. totals.windows * window \in Nat
    BY DEF BudgetInv, BudgetTypes
  <2>. QED BY <1>1, <1>2, <2>1 DEF BudgetInv, BudgetTypes, Reported
<1>. QED BY <1>3, <1>4, <1>5, <1>6 DEF BudgetInv

\* A region is marked: no time is charged yet.
LEMMA MarkStep ==
    ASSUME BudgetInv, Mark
    PROVE  BudgetInv'
<1>1. /\ ~Closing /\ opened = NoMark
      /\ UNCHANGED <<clock, enabled, window, windowStart, charged, completions, snapshot, totals>>
  BY DEF Mark
<1>2. PICK b \in Bucket : opened' = [bucket |-> b, start |-> clock]
  BY DEF Mark
<1>3. ~Closing'
  BY <1>1 DEF Closing, NoSnapshot, Zero
<1>4. BudgetTypes'
  BY <1>1, <1>2 DEF BudgetInv, BudgetTypes
<1>5. Charged'
  <2>1. Sum(charged)' = Sum(charged) /\ Sum(snapshot.charged)' = Sum(snapshot.charged)
    BY <1>1 DEF Sum, MapThenSumSet, MapThenFoldSet
  <2>2. OpenTime = 0 /\ OpenTime' = 0
    BY <1>1, <1>2 DEF BudgetInv, BudgetTypes, OpenTime
  <2>. QED BY <1>1, <1>3, <2>1, <2>2 DEF BudgetInv, Charged
<1>. QED BY <1>1, <1>3, <1>4, <1>5 DEF BudgetInv, Frozen, Reported

\* The region is charged what passed since.
LEMMA ChargeStep ==
    ASSUME BudgetInv, Charge
    PROVE  BudgetInv'
<1>1. /\ opened # NoMark /\ opened' = NoMark
      /\ charged' = [charged EXCEPT ![opened.bucket] = @ + (clock - opened.start)]
      /\ UNCHANGED <<clock, enabled, window, windowStart, completions, snapshot, totals>>
  BY DEF Charge
<1>2. /\ ~Closing /\ clock - opened.start \in Nat /\ opened.bucket \in Bucket
      /\ charged \in [Bucket -> Nat]
  BY <1>1 DEF BudgetInv, BudgetTypes, Frozen
<1>3. ~Closing'
  BY <1>1, <1>2 DEF Closing, NoSnapshot, Zero
<1>4. BudgetTypes'
  <2>1. charged' \in [Bucket -> Nat]
    BY <1>1, <1>2
  <2>. QED BY <1>1, <2>1 DEF BudgetInv, BudgetTypes
<1>5. Charged'
  <2>1. Sum(charged') = Sum(charged) + (clock - opened.start)
    BY <1>1, <1>2, ChargedSum
  <2>2. Sum(snapshot.charged)' = Sum(snapshot.charged)
    BY <1>1 DEF Sum, MapThenSumSet, MapThenFoldSet
  <2>3. Sum(charged)' = Sum(charged')
    BY DEF Sum, MapThenSumSet, MapThenFoldSet
  <2>4. OpenTime = clock - opened.start /\ OpenTime' = 0
    BY <1>1 DEF OpenTime
  <2>5. Sum(charged) \in Nat
    BY <1>2, ChargedSum
  <2>. QED BY <1>1, <1>2, <1>3, <2>1, <2>2, <2>3, <2>4, <2>5 DEF BudgetInv, Charged
<1>. QED BY <1>1, <1>3, <1>2, <1>4, <1>5 DEF BudgetInv, Frozen, Reported

LEMMA RecordStep ==
    ASSUME BudgetInv, RecordCompletion
    PROVE  BudgetInv'
<1>1. /\ ~Closing /\ completions' = completions + 1
      /\ totals' = [totals EXCEPT !.counted = @ + 1]
      /\ UNCHANGED <<clock, enabled, window, windowStart, charged, opened, snapshot>>
  BY DEF RecordCompletion
<1>2. ~Closing'
  BY <1>1 DEF Closing, NoSnapshot, Zero
<1>3. /\ totals'.windows = totals.windows /\ totals'.elapsed = totals.elapsed
      /\ totals'.completions = totals.completions /\ totals'.counted = totals.counted + 1
  BY <1>1 DEF BudgetInv, BudgetTypes
<1>4. BudgetTypes'
  BY <1>1 DEF BudgetInv, BudgetTypes
<1>5. Charged'
  <2>1. Sum(charged)' = Sum(charged) /\ Sum(snapshot.charged)' = Sum(snapshot.charged)
    BY <1>1 DEF Sum, MapThenSumSet, MapThenFoldSet
  <2>2. OpenTime' = OpenTime
    BY <1>1 DEF OpenTime
  <2>. QED BY <1>1, <1>2, <2>1, <2>2 DEF BudgetInv, Charged
<1>6. Reported'
  BY <1>1, <1>2, <1>3 DEF BudgetInv, BudgetTypes, Reported
<1>. QED BY <1>2, <1>4, <1>5, <1>6 DEF BudgetInv, Frozen

\* A window that is over is frozen; it is at least as long as it should be.
LEMMA CloseStep ==
    ASSUME BudgetInv, CloseWindow
    PROVE  BudgetInv'
<1>1. /\ ~Closing /\ opened = NoMark /\ clock - windowStart >= window
      /\ snapshot' = [elapsed |-> clock - windowStart, charged |-> charged, completions |-> completions]
      /\ totals' = [totals EXCEPT !.windows = @ + 1]
      /\ UNCHANGED <<clock, enabled, window, windowStart, charged, completions, opened>>
  BY DEF CloseWindow
<1>2. Closing'
  <2>1. snapshot'.elapsed >= 1
    BY <1>1 DEF BudgetInv, BudgetTypes
  <2>. QED BY <2>1 DEF Closing, NoSnapshot
<1>3. /\ totals'.windows = totals.windows + 1 /\ totals'.elapsed = totals.elapsed
      /\ totals'.completions = totals.completions /\ totals'.counted = totals.counted
  BY <1>1 DEF BudgetInv, BudgetTypes
<1>4. BudgetTypes'
  BY <1>1 DEF BudgetInv, BudgetTypes
<1>5. Charged'
  <2>1. Sum(snapshot.charged)' = Sum(charged)
    BY <1>1 DEF Sum, MapThenSumSet, MapThenFoldSet
  <2>2. OpenTime = 0
    BY <1>1 DEF OpenTime
  <2>3. Sum(charged) \in Nat
    BY SumIsNat DEF BudgetInv, BudgetTypes
  <2>. QED BY <1>1, <1>2, <2>1, <2>2, <2>3 DEF BudgetInv, BudgetTypes, Charged
<1>6. Reported'
  <2>1. (totals.windows + 1) * window = totals.windows * window + window /\ totals.windows * window \in Nat
    BY DEF BudgetInv, BudgetTypes
  <2>2. snapshot.elapsed = 0
    BY <1>1 DEF Closing, NoSnapshot
  <2>3. totals.elapsed <= windowStart /\ totals.windows * window <= windowStart
    BY <1>1, <2>2 DEF BudgetInv, BudgetTypes, Reported
  <2>4. totals'.windows * window' <= clock'
    BY <1>1, <1>3, <2>1, <2>3 DEF BudgetInv, BudgetTypes
  <2>. QED BY <1>1, <1>2, <1>3, <2>3, <2>4 DEF BudgetInv, BudgetTypes, Reported
<1>7. Frozen'
  BY <1>1 DEF Frozen
<1>. QED BY <1>4, <1>5, <1>6, <1>7 DEF BudgetInv

\* The next window starts empty, no earlier than the last one ended.
LEMMA StartStep ==
    ASSUME BudgetInv, StartWindow
    PROVE  BudgetInv'
<1>1. /\ Closing /\ charged' = Zero /\ completions' = 0 /\ windowStart' = clock /\ snapshot' = NoSnapshot
      /\ totals' = [totals EXCEPT !.elapsed = @ + snapshot.elapsed, !.completions = @ + snapshot.completions]
      /\ UNCHANGED <<clock, enabled, window, opened>>
  BY DEF StartWindow
<1>2. opened = NoMark /\ snapshot.completions = completions
  BY <1>1 DEF BudgetInv, Frozen
<1>3. ~Closing' /\ snapshot'.elapsed = 0 /\ snapshot'.charged = Zero
  BY <1>1 DEF Closing, NoSnapshot, Zero
<1>4. /\ totals'.windows = totals.windows /\ totals'.elapsed = totals.elapsed + snapshot.elapsed
      /\ totals'.completions = totals.completions + snapshot.completions /\ totals'.counted = totals.counted
  BY <1>1 DEF BudgetInv, BudgetTypes
<1>5. BudgetTypes'
  <2>1. snapshot' \in [elapsed : Nat, charged : [Bucket -> Nat], completions : Nat]
    BY <1>1, ZeroSum DEF NoSnapshot
  <2>2. totals' \in [windows : Nat, elapsed : Nat, completions : Nat, counted : Nat]
    <3>1. snapshot.elapsed \in Nat /\ snapshot.completions \in Nat
      BY DEF BudgetInv, BudgetTypes
    <3>2. totals \in [windows : Nat, elapsed : Nat, completions : Nat, counted : Nat]
      BY DEF BudgetInv, BudgetTypes
    <3> DEFINE e == totals.elapsed + snapshot.elapsed
               c == totals.completions + snapshot.completions
    <3>3. e \in Nat /\ c \in Nat
      BY <3>1, <3>2
    <3>4. totals' = [totals EXCEPT !.elapsed = e, !.completions = c]
      BY <1>1
    <3>. HIDE DEF e, c
    <3>. QED BY <3>2, <3>3, <3>4
  <2>3. clock' = clock /\ windowStart' = clock /\ window' = window /\ charged' = Zero /\ completions' = 0 /\ opened' = NoMark
    BY <1>1, <1>2
  <2>. QED BY <2>1, <2>2, <2>3, ZeroSum DEF BudgetInv, BudgetTypes
<1>6. Charged'
  <2>1. Sum(charged)' = Sum(Zero) /\ Sum(snapshot.charged)' = Sum(Zero)
    BY <1>1, <1>3 DEF Sum, MapThenSumSet, MapThenFoldSet
  <2>2. OpenTime' = 0
    BY <1>1, <1>2 DEF OpenTime
  <2>. QED BY <1>1, <1>3, <2>1, <2>2, ZeroSum DEF BudgetInv, BudgetTypes, Charged
<1>7. Reported'
  <2>1. totals.windows * window \in Nat
    BY DEF BudgetInv, BudgetTypes
  <2>. QED BY <1>1, <1>2, <1>3, <1>4, <2>1 DEF BudgetInv, BudgetTypes, Reported
<1>. QED BY <1>3, <1>5, <1>6, <1>7 DEF BudgetInv, Frozen

LEMMA BudgetNextHolds == BudgetInv /\ [BudgetNext]_budgetVars => BudgetInv'
<1>. SUFFICES ASSUME BudgetInv, [BudgetNext]_budgetVars PROVE BudgetInv'
  OBVIOUS
<1>1. ASSUME UNCHANGED budgetVars PROVE BudgetInv'
  <2>1. UNCHANGED <<clock, enabled, window, windowStart, charged, completions, opened, snapshot, totals>>
    BY <1>1 DEF budgetVars
  <2>2. Closing' <=> Closing
    BY <2>1 DEF Closing, NoSnapshot, Zero
  <2>3. Sum(charged)' = Sum(charged) /\ Sum(snapshot.charged)' = Sum(snapshot.charged)
    BY <2>1 DEF Sum, MapThenSumSet, MapThenFoldSet
  <2>. QED BY <2>1, <2>2, <2>3 DEF BudgetInv, BudgetTypes, Frozen, Charged, OpenTime, Reported
<1>. QED BY <1>1, TickStep, MarkStep, ChargeStep, RecordStep, CloseStep, StartStep DEF BudgetNext

LEMMA BudgetFits == BudgetInv => WindowsFit
<1>. SUFFICES ASSUME BudgetInv PROVE WindowsFit
  OBVIOUS
<1>1. totals.windows * window \in Nat
  BY DEF BudgetInv, BudgetTypes
<1>2. /\ ~Closing => Sum(charged) + (IF opened = NoMark THEN 0 ELSE clock - opened.start) <= clock - windowStart
      /\ Sum(snapshot.charged) <= snapshot.elapsed
  BY DEF BudgetInv, Charged, OpenTime
<1>3. /\ Closing => snapshot.elapsed >= window
      /\ totals.elapsed + snapshot.elapsed <= clock
      /\ totals.completions + completions = totals.counted
      /\ totals.windows * window <= clock
  BY <1>1 DEF BudgetInv, BudgetTypes, Frozen, Reported
<1>. QED BY <1>2, <1>3 DEF WindowsFit

\* The windows of the driver's time accounting fit into the time there was,
\* whatever its buckets and its window: nothing is charged twice.
THEOREM WindowsAlwaysFit == BudgetSpec => []WindowsFit
BY BudgetInitHolds, BudgetNextHolds, BudgetFits, PTL DEF BudgetSpec

-----------------------------------------------------------------------------
(* The selector: every field of the configuration has passed its check, no  *)
(* estimator outlives the keep denominator it was made for, and a lease     *)
(* holds the key of a configuration that was accepted.                       *)

ConfigAccepted == DOMAIN config = Fields /\ \A f \in Fields : Accepted(f, config[f])

\* An estimator for a keep denominator.
IsSelection(s, keep) ==
    DOMAIN s = {"observed", "keep", "kept", "audits"} /\ s.keep = keep

EstimatorsInForce ==
    /\ DOMAIN selections = AllKeys
    /\ \A k \in AllKeys :
           selections[k] # None => IsSelection(selections[k], config.keep_denominator)

LeaseAdmitted ==
    /\ DOMAIN lease = {"at", "key"}
    /\ lease.key # NoKey =>
           Within(lease.key[1], 2, 5) /\ Within(lease.key[2], 1, MAX_PROBE_SWEEPS)

PolicyInv == ConfigAccepted /\ EstimatorsInForce /\ LeaseAdmitted

-----------------------------------------------------------------------------
\* The fields of a screen configuration (ScreenConfig).
LEMMA FieldNames ==
    Fields = {"enabled", "keep_denominator", "audit_denominator", "probe_reads_log2",
              "probe_sweeps"}
BY DEF Fields, DefaultConfig

\* What a configuration whose fields were accepted holds.
LEMMA AcceptedRanges ==
    ASSUME ConfigAccepted
    PROVE  /\ Within(config.keep_denominator, 2, 100000)
           /\ config.audit_denominator # 1
           /\ Within(config.probe_reads_log2, 2, 5)
           /\ Within(config.probe_sweeps, 1, MAX_PROBE_SWEEPS)
<1>1. /\ Accepted("keep_denominator", config["keep_denominator"])
      /\ Accepted("audit_denominator", config["audit_denominator"])
      /\ Accepted("probe_reads_log2", config["probe_reads_log2"])
      /\ Accepted("probe_sweeps", config["probe_sweeps"])
  BY FieldNames DEF ConfigAccepted
<1>2. Within(config.keep_denominator, 2, 100000)
  BY <1>1 DEF Accepted
<1>3. config.audit_denominator # 1
  BY <1>1 DEF Accepted
<1>4. Within(config.probe_reads_log2, 2, 5)
  BY <1>1 DEF Accepted
<1>5. Within(config.probe_sweeps, 1, MAX_PROBE_SWEEPS)
  BY <1>1 DEF Accepted
<1> QED
  BY <1>2, <1>3, <1>4, <1>5

\* Observing and recording leave an estimator's keep denominator alone.
LEMMA UpdatesKeep ==
    ASSUME NEW s, NEW keep, IsSelection(s, keep)
    PROVE  /\ IsSelection(Observe(s), keep)
           /\ IsSelection(RecordKept(s), keep)
           /\ IsSelection(RecordAudit(s), keep)
BY DEF IsSelection, Observe, RecordKept, RecordAudit

\* The defaults are admitted and no estimator exists.
LEMMA PolicyInvInit == PolicyInit => PolicyInv
<1> SUFFICES ASSUME PolicyInit PROVE PolicyInv
  OBVIOUS
<1>1. ConfigAccepted
  <2>1. config = DefaultConfig /\ DOMAIN config = Fields
    BY DEF PolicyInit, Fields
  <2>2. /\ Accepted("enabled", config["enabled"])
        /\ Accepted("keep_denominator", config["keep_denominator"])
        /\ Accepted("audit_denominator", config["audit_denominator"])
        /\ Accepted("probe_reads_log2", config["probe_reads_log2"])
        /\ Accepted("probe_sweeps", config["probe_sweeps"])
    BY <2>1 DEF Accepted, Within, DefaultConfig, MAX_PROBE_SWEEPS
  <2> QED
    BY <2>1, <2>2, FieldNames DEF ConfigAccepted
<1>2. EstimatorsInForce
  BY DEF PolicyInit, EstimatorsInForce
<1>3. LeaseAdmitted
  BY DEF PolicyInit, LeaseAdmitted
<1> QED
  BY <1>1, <1>2, <1>3 DEF PolicyInv

\* A table is merged field by field, each checked; estimators for another keep
\* denominator go with it.
LEMMA ReconfigureKeeps ==
    ASSUME PolicyInv, Reconfigure
    PROVE  PolicyInv'
<1>1. PICK update \in Update :
          /\ config' = Merge(config, update)
          /\ selections' = IF Resets(config, config')
                           THEN [k \in AllKeys |-> None]
                           ELSE selections
  BY DEF Reconfigure
<1>2. DOMAIN config' = Fields
  BY <1>1 DEF Merge
<1>3. ASSUME NEW f \in Fields PROVE Accepted(f, config'[f])
  <2>1. config'[f] = IF f \in DOMAIN update /\ Accepted(f, update[f]) THEN update[f] ELSE config[f]
    BY <1>1 DEF Merge
  <2>2. Accepted(f, config[f])
    BY DEF PolicyInv, ConfigAccepted
  <2> QED
    BY <2>1, <2>2
<1>4. ConfigAccepted'
  BY <1>2, <1>3 DEF ConfigAccepted
<1>5. EstimatorsInForce'
  <2>1. CASE Resets(config, config')
    BY <1>1, <2>1 DEF EstimatorsInForce
  <2>2. CASE ~Resets(config, config')
    <3>1. config'.keep_denominator = config.keep_denominator /\ selections' = selections
      BY <1>1, <2>2 DEF Resets
    <3> QED
      BY <3>1 DEF PolicyInv, EstimatorsInForce
  <2> QED
    BY <2>1, <2>2
<1>6. LeaseAdmitted'
  BY DEF PolicyInv, LeaseAdmitted, Reconfigure
<1> QED
  BY <1>4, <1>5, <1>6 DEF PolicyInv

\* A decision is observed by the estimator of the lease's key, which is made
\* for the denominator in force if it is missing.
LEMMA DecideKeeps ==
    ASSUME PolicyInv, Decide
    PROVE  PolicyInv'
<1> DEFINE found == selections[lease.key]
           selection == IF found = None THEN NewSelection(config) ELSE found
<1>1. /\ selections' = [selections EXCEPT ![lease.key] = Observe(selection)]
      /\ UNCHANGED <<config, lease>>
  BY DEF Decide
<1>2. ASSUME lease.key \in AllKeys
      PROVE  IsSelection(selection, config.keep_denominator)
  <2>1. IsSelection(NewSelection(config), config.keep_denominator)
    BY DEF IsSelection, NewSelection
  <2> QED
    BY <1>2, <2>1 DEF PolicyInv, EstimatorsInForce
<1> HIDE DEF selection
<1>3. EstimatorsInForce'
  <2> SUFFICES ASSUME NEW k \in AllKeys, selections'[k] # None
               PROVE  IsSelection(selections'[k], config.keep_denominator)
    BY <1>1 DEF PolicyInv, EstimatorsInForce, AllKeys
  <2>1. CASE k = lease.key
    BY <1>1, <1>2, <2>1, UpdatesKeep DEF PolicyInv, EstimatorsInForce
  <2>2. CASE k # lease.key
    BY <1>1, <2>2 DEF PolicyInv, EstimatorsInForce
  <2> QED
    BY <2>1, <2>2
<1> QED
  BY <1>1, <1>3 DEF PolicyInv, ConfigAccepted, LeaseAdmitted

\* A full solve is recorded by the estimator that is there, if one is.
LEMMA RecordKeeps ==
    ASSUME PolicyInv, RecordFull
    PROVE  PolicyInv'
<1>1. /\ UNCHANGED <<config, lease>>
      /\ \/ UNCHANGED selections
         \/ /\ selections[lease.key] # None
            /\ \/ selections' = [selections EXCEPT ![lease.key] = RecordKept(@)]
               \/ selections' = [selections EXCEPT ![lease.key] = RecordAudit(@)]
  BY DEF RecordFull, Recorded
<1>2. EstimatorsInForce'
  <2>1. CASE UNCHANGED selections
    BY <1>1, <2>1 DEF PolicyInv, EstimatorsInForce
  <2>2. ASSUME selections[lease.key] # None, NEW r,
               selections' = [selections EXCEPT ![lease.key] = r],
               r \in {RecordKept(selections[lease.key]), RecordAudit(selections[lease.key])}
        PROVE  EstimatorsInForce'
    <3> SUFFICES ASSUME NEW k \in AllKeys, selections'[k] # None
                 PROVE  IsSelection(selections'[k], config.keep_denominator)
      BY <1>1, <2>2 DEF PolicyInv, EstimatorsInForce, AllKeys
    <3>1. CASE k = lease.key
      BY <2>2, <3>1, UpdatesKeep DEF PolicyInv, EstimatorsInForce
    <3>2. CASE k # lease.key
      BY <2>2, <3>2 DEF PolicyInv, EstimatorsInForce
    <3> QED
      BY <3>1, <3>2
  <2> QED
    BY <1>1, <2>1, <2>2
<1> QED
  BY <1>1, <1>2 DEF PolicyInv, ConfigAccepted, LeaseAdmitted

\* Leases, decisions, records and reconfigurations keep the invariant.
LEMMA PolicyInvStep == PolicyInv /\ [PolicyNext]_policyVars => PolicyInv'
<1> SUFFICES ASSUME PolicyInv, [PolicyNext]_policyVars PROVE PolicyInv'
  OBVIOUS
<1>1. CASE UNCHANGED policyVars
  BY <1>1 DEF policyVars, PolicyInv, ConfigAccepted, EstimatorsInForce, LeaseAdmitted
<1>2. CASE Reconfigure
  BY <1>2, ReconfigureKeeps
<1>3. CASE LeaseOpens
  <2>1. /\ DOMAIN lease' = {"at", "key"}
        /\ lease'.key = NoKey \/ lease'.key = <<config.probe_reads_log2, config.probe_sweeps>>
    BY <1>3 DEF LeaseOpens, Key
  <2>a. ASSUME lease'.key = <<config.probe_reads_log2, config.probe_sweeps>>
        PROVE  lease'.key[1] = config.probe_reads_log2 /\ lease'.key[2] = config.probe_sweeps
    BY <2>a
  <2>2. LeaseAdmitted'
    BY <2>1, <2>a, AcceptedRanges DEF PolicyInv, LeaseAdmitted
  <2> QED
    BY <1>3, <2>2 DEF LeaseOpens, PolicyInv, ConfigAccepted, EstimatorsInForce
<1>4. CASE Decide
  BY <1>4, DecideKeeps
<1>5. CASE KeepAll
  BY <1>5 DEF KeepAll, PolicyInv, ConfigAccepted, EstimatorsInForce, LeaseAdmitted
<1>6. CASE FullSolve
  <2>1. lease'.key = lease.key \/ lease'.key = NoKey
    BY <1>6 DEF FullSolve
  <2> QED
    BY <1>6, <2>1 DEF FullSolve, PolicyInv, ConfigAccepted, EstimatorsInForce, LeaseAdmitted
<1>7. CASE RecordFull
  BY <1>7, RecordKeeps
<1>8. CASE ChunkEnds
  <2>1. /\ DOMAIN lease' = {"at", "key"}
        /\ lease'.key = lease.key \/ lease'.key = NoKey
    BY <1>8 DEF ChunkEnds, PolicyInv, LeaseAdmitted
  <2> QED
    BY <1>8, <2>1 DEF ChunkEnds, PolicyInv, ConfigAccepted, EstimatorsInForce, LeaseAdmitted
<1> QED
  BY <1>1, <1>2, <1>3, <1>4, <1>5, <1>6, <1>7, <1>8 DEF PolicyNext

\* Whatever is written into a backend_toml and whenever it arrives, estimators
\* decide for the denominator in force and leases probe within the domain.
THEOREM SelectorIsSound == PolicySpec => []SelectorSound
<1>1. PolicyInv => SelectorSound
  <2> SUFFICES ASSUME PolicyInv PROVE SelectorSound
    OBVIOUS
  <2>1. /\ Within(config.keep_denominator, 2, 100000)
        /\ config.audit_denominator # 1
    BY AcceptedRanges DEF PolicyInv
  <2>2. /\ KeepMin(config.keep_denominator) <= 4 * config.keep_denominator
        /\ 4 * config.keep_denominator <= KeepMax(config.keep_denominator)
    BY <2>1 DEF KeepMin, KeepMax, Within
  <2>3. \A k \in AllKeys :
            selections[k] # None => selections[k].keep = config.keep_denominator
    BY DEF PolicyInv, EstimatorsInForce, IsSelection
  <2>4. lease.key # NoKey => ShapeOk(lease.key[1], lease.key[2], ProbeThreads)
    <3>1. 256 \in 1..1024 /\ 256 % 32 = 0 /\ MAX_PROBE_SWEEPS \in Nat
      BY DEF MAX_PROBE_SWEEPS
    <3>2. lease.key # NoKey =>
              lease.key[1] \in 2..5 /\ lease.key[2] \in 1..MAX_PROBE_SWEEPS
      BY <3>1 DEF PolicyInv, LeaseAdmitted, Within
    <3> QED
      BY <3>1, <3>2 DEF ShapeOk, ProbeThreads
  <2> QED
    BY <2>1, <2>2, <2>3, <2>4 DEF SelectorSound
<1> QED
  BY <1>1, PolicyInvInit, PolicyInvStep, PTL DEF PolicySpec

-----------------------------------------------------------------------------
(* The screen: the table an admitted topology is packed into. *)

\* The edges of a node among the first n, and how its row names one.
EdgesOf(edges, node, n)   == {k \in 1..n : node \in {edges[k][1], edges[k][2]}}
OtherEnd(edges, node, k)  == IF edges[k][1] = node THEN edges[k][2] ELSE edges[k][1]
Entry(edges, node, k)     == OtherEnd(edges, node, k) * IndexSize + (k - 1)

\* A row names the edges of its node among the first n, each once.
Names(row, e, edges, node, n) ==
    /\ row \in Seq(Nat)
    /\ e \in Bijection(1..Len(row), EdgesOf(edges, node, n))
    /\ \A a \in 1..Len(row) : row[a] = Entry(edges, node, e[a])

EdgesGiven(edges) ==
    /\ edges \in Seq(Nat \X Nat)
    /\ \A k \in DOMAIN edges : edges[k][1] # edges[k][2]

Item(edges, node, k) ==
    (IF edges[k][1] = node THEN <<Packed(edges[k][1], edges[k][2], k - 1)>> ELSE <<>>) \o
    (IF edges[k][2] = node THEN <<Packed(edges[k][2], edges[k][1], k - 1)>> ELSE <<>>)

LEMMA ItemIs ==
    ASSUME NEW edges, EdgesGiven(edges), NEW node, NEW k \in 1..Len(edges)
    PROVE  /\ edges[k][1] \in Nat /\ edges[k][2] \in Nat /\ Entry(edges, node, k) \in Nat
           /\ Item(edges, node, k) = IF node \in {edges[k][1], edges[k][2]}
                                     THEN <<Entry(edges, node, k)>> ELSE <<>>
<1>1. /\ edges[k][1] \in Nat /\ edges[k][2] \in Nat /\ k - 1 \in Nat
      /\ edges[k][1] # edges[k][2] /\ IndexSize \in Nat
  <2>1. edges[k] \in Nat \X Nat /\ k \in DOMAIN edges
    BY ElementOfSeq, LenProperties DEF EdgesGiven
  <2>. QED BY <2>1, ScreeningAssumption DEF EdgesGiven
<1>2. Entry(edges, node, k) \in Nat
  <2>1. OtherEnd(edges, node, k) \in Nat
    BY <1>1 DEF OtherEnd
  <2>2. \A x \in Nat, y \in Nat, z \in Nat : x * y + z \in Nat
    OBVIOUS
  <2>. QED BY <1>1, <2>1, <2>2 DEF Entry
<1> DEFINE x == Entry(edges, node, k)
<1>3. <<x>> \o <<>> = <<x>> /\ <<>> \o <<x>> = <<x>> /\ <<>> \o <<>> = <<>>
  <2>. HIDE DEF x
  <2>1. <<x>> \in Seq(Nat) /\ <<>> \in Seq(Nat)
    BY <1>2 DEF x
  <2>. QED BY <2>1, ConcatEmptySeq
<1>4. CASE edges[k][1] = node
  <2>1. edges[k][2] # node /\ Packed(edges[k][1], edges[k][2], k - 1) = x
    BY <1>1, <1>4 DEF Packed, Entry, OtherEnd
  <2>. HIDE DEF x
  <2>2. Item(edges, node, k) = <<x>> \o <<>>
    BY <1>4, <2>1 DEF Item
  <2>. QED BY <1>1, <1>2, <1>3, <1>4, <2>2 DEF x
<1>5. CASE edges[k][2] = node
  <2>1. edges[k][1] # node /\ Packed(edges[k][2], edges[k][1], k - 1) = x
    BY <1>1, <1>5 DEF Packed, Entry, OtherEnd
  <2>. HIDE DEF x
  <2>2. Item(edges, node, k) = <<>> \o <<x>>
    BY <1>5, <2>1 DEF Item
  <2>. QED BY <1>1, <1>2, <1>3, <1>5, <2>2 DEF x
<1>6. CASE edges[k][1] # node /\ edges[k][2] # node
  <2>. HIDE DEF x
  <2>1. Item(edges, node, k) = <<>> \o <<>>
    BY <1>6 DEF Item
  <2>. QED BY <1>1, <1>2, <1>3, <1>6, <2>1
<1>. QED BY <1>4, <1>5, <1>6

\* One edge more: named at the end of the row if it is the node's.
LEMMA NamesMore ==
    ASSUME NEW edges, EdgesGiven(edges), NEW node, NEW n \in Nat, n + 1 <= Len(edges),
           NEW row, NEW e, Names(row, e, edges, node, n)
    PROVE  \E d : Names(row \o Item(edges, node, n + 1), d, edges, node, n + 1)
<1> DEFINE k == n + 1
           E == EdgesOf(edges, node, n)
           F == EdgesOf(edges, node, k)
           l == Len(row)
<1>1. k \in 1..Len(edges) /\ row \in Seq(Nat) /\ l \in Nat
  BY LenProperties DEF Names, EdgesGiven
<1>2. CASE node \notin {edges[k][1], edges[k][2]}
  <2>1. Item(edges, node, k) = <<>>
    BY <1>1, <1>2, ItemIs
  <2>2. row \o Item(edges, node, k) = row
    BY <1>1, <2>1, ConcatEmptySeq
  <2>3. F = E
    BY <1>2 DEF EdgesOf
  <2>. QED BY <2>2, <2>3 DEF Names
<1>3. CASE node \in {edges[k][1], edges[k][2]}
  <2> DEFINE x == Entry(edges, node, k)
             more == row \o <<x>>
             d == [a \in 1..(l + 1) |-> IF a = l + 1 THEN k ELSE e[a]]
  <2>1. Item(edges, node, k) = <<x>> /\ x \in Nat
    BY <1>1, <1>3, ItemIs
  <2>2. <<x>> \in Seq(Nat) /\ Len(<<x>>) = 1 /\ <<x>>[1] = x
    BY <2>1
  <2>. HIDE DEF x
  <2>3. /\ more \in Seq(Nat) /\ Len(more) = l + 1
        /\ \A a \in 1..(l + 1) : more[a] = IF a <= l THEN row[a] ELSE x
    <3>1. /\ more \in Seq(Nat) /\ Len(more) = l + 1
          /\ \A a \in 1..(l + 1) : more[a] = IF a <= l THEN row[a] ELSE <<x>>[a - l]
      BY <1>1, <2>2, ConcatProperties
    <3>2. \A a \in 1..(l + 1) : ~(a <= l) => a - l = 1
      BY <1>1
    <3>. QED BY <2>2, <3>1, <3>2
  <2>4. F = E \cup {k} /\ k \notin E
    BY <1>3 DEF EdgesOf
  <2>5. e \in Bijection(1..l, E)
    BY DEF Names
  <2>. HIDE DEF more, E, F
  <2>6. /\ \A a \in 1..l : e[a] \in E
        /\ \A a, b \in 1..l : e[a] = e[b] => a = b
        /\ \A t \in E : \E a \in 1..l : e[a] = t
    BY <2>5, Fun_BijectionProperties
  <2>. HIDE DEF l, k
  <2>7. d \in [1..(l + 1) -> F]
    BY <1>1, <2>4, <2>6
  <2>8. \A a, b \in 1..(l + 1) : d[a] = d[b] => a = b
    BY <1>1, <2>4, <2>6
  <2>9. \A t \in F : \E a \in 1..(l + 1) : d[a] = t
    <3>1. SUFFICES ASSUME NEW t \in F PROVE \E a \in 1..(l + 1) : d[a] = t
      OBVIOUS
    <3>2. CASE t = k
      <4>1. l + 1 \in 1..(l + 1) /\ d[l + 1] = k
        BY <1>1
      <4>. QED BY <3>2, <4>1
    <3>3. CASE t \in E
      <4>1. PICK a \in 1..l : e[a] = t
        BY <2>6, <3>3
      <4>2. a \in 1..(l + 1) /\ a # l + 1
        BY <1>1
      <4>. QED BY <4>1, <4>2
    <3>. QED BY <2>4, <3>2, <3>3
  <2>10. d \in Bijection(1..(l + 1), F)
    <3>. HIDE DEF d
    <3>. QED BY <2>7, <2>8, <2>9, Fun_IsBij
  <2>11. \A a \in 1..(l + 1) : more[a] = Entry(edges, node, d[a])
    <3>1. \A a \in 1..l : row[a] = Entry(edges, node, e[a])
      BY DEF Names, l
    <3>2. SUFFICES ASSUME NEW a \in 1..(l + 1) PROVE more[a] = Entry(edges, node, d[a])
      OBVIOUS
    <3>3. CASE a = l + 1
      <4>1. d[a] = k /\ more[a] = x
        BY <1>1, <2>3, <3>3
      <4>. QED BY <4>1 DEF x
    <3>4. CASE a # l + 1
      <4>1. a \in 1..l
        BY <1>1, <3>4
      <4>2. d[a] = e[a] /\ more[a] = row[a]
        BY <1>1, <2>3, <3>4, <4>1
      <4>. QED BY <3>1, <4>1, <4>2
    <3>. QED BY <3>3, <3>4
  <2>12. Names(more, d, edges, node, k)
    <3>. HIDE DEF d
    <3>. QED BY <2>3, <2>10, <2>11 DEF Names, F
  <2>. QED BY <2>1, <2>12 DEF more, k
<1>. QED BY <1>2, <1>3

\* The row of a node names its edges.
LEMMA RowNames ==
    ASSUME NEW edges, EdgesGiven(edges), NEW node
    PROVE  \E e : Names(Incident(edges, node), e, edges, node, Len(edges))
<1> DEFINE N == Len(edges)
           s == [k \in 1..N |-> Item(edges, node, k)]
<1>1. N \in Nat
  BY LenProperties DEF EdgesGiven
<1>2. Incident(edges, node) = FlattenSeq(s)
  BY DEF Incident, Item
<1>3. Len(s) = N
  <2>. HIDE DEF N
  <2>. QED BY <1>1
<1>4. ASSUME NEW e, NEW n, EdgesOf(edges, node, n) = {}, e = <<>> PROVE Names(<<>>, e, edges, node, n)
  <2>1. <<>> \in Seq(Nat) /\ Len(<<>>) = 0 /\ 1..0 = {}
    OBVIOUS
  <2>2. e \in [{} -> {}] /\ \A a, b \in {} : e[a] = e[b] => a = b
    BY <1>4
  <2>3. e \in Bijection({}, {})
    BY <2>2, Fun_IsBij
  <2>. QED BY <1>4, <2>1, <2>3 DEF Names
<1>5. CASE N = 0
  <2>1. s = <<>>
    BY <1>5
  <2>2. FlattenSeq(s) = <<>>
    BY <2>1 DEF FlattenSeq
  <2>3. EdgesOf(edges, node, N) = {}
    BY <1>5 DEF EdgesOf
  <2>. QED BY <1>2, <1>4, <2>2, <2>3
<1>6. CASE N # 0
  <2>. HIDE DEF s
  <2>1. PICK f : Joined(f, s, N) /\ FlattenSeq(s) = f[N]
    <3>. HIDE DEF N
    <3>. QED BY <1>1, <1>3, <1>6, Flattened
  <2>5. ASSUME NEW n \in Nat, n + 1 <= N, NEW row, NEW e, Names(row, e, edges, node, n)
        PROVE  \E d : Names(row \o Item(edges, node, n + 1), d, edges, node, n + 1)
    BY <2>5, NamesMore
  <2>6. ASSUME NEW n \in 1..N PROVE Item(edges, node, n) \in Seq(Nat)
    <3> DEFINE x == Entry(edges, node, n)
    <3>1. x \in Nat /\ Item(edges, node, n) \in {<<x>>, <<>>}
      BY ItemIs
    <3>. HIDE DEF x
    <3>2. <<x>> \in Seq(Nat) /\ <<>> \in Seq(Nat)
      BY <3>1
    <3>. QED BY <3>1, <3>2
  <2> DEFINE Bad == {n \in Nat : n \in 1..N /\ ~\E e : Names(f[n], e, edges, node, n)}
  <2>2. Bad = {}
    <3>1. SUFFICES ASSUME Bad # {} PROVE FALSE
      OBVIOUS
    <3>2. PICK n \in Bad : \A k \in Bad : n <= k
      <4>1. Bad \subseteq Nat
        OBVIOUS
      <4>. HIDE DEF Bad
      <4>. QED BY <3>1, <4>1, LeastNatural
    <3>3. n \in 1..N /\ ~\E e : Names(f[n], e, edges, node, n)
      BY <3>2
    <3>4. f[n] = IF n = 1 THEN Item(edges, node, n) ELSE f[n - 1] \o Item(edges, node, n)
      <4>1. \A i \in 1..N : f[i] = IF i = 1 THEN s[i] ELSE f[i - 1] \o s[i]
        BY <2>1 DEF Joined
      <4>. QED BY <3>3, <4>1 DEF s
    <3>5. CASE n = 1
      <4>1. EdgesOf(edges, node, 0) = {} /\ 0 \in Nat /\ 0 + 1 = n
        BY <3>5 DEF EdgesOf
      <4>2. Names(<<>>, <<>>, edges, node, 0)
        BY <1>4, <4>1
      <4>3. \E d : Names(<<>> \o Item(edges, node, 0 + 1), d, edges, node, 0 + 1)
        <5>1. 0 + 1 <= N
          BY <1>1, <1>6
        <5>. HIDE DEF N
        <5>. QED BY <2>5, <4>1, <4>2, <5>1
      <4>4. Item(edges, node, n) \in Seq(Nat)
        BY <2>6, <3>3
      <4>5. <<>> \o Item(edges, node, n) = Item(edges, node, n)
        BY <4>4, ConcatEmptySeq
      <4>. QED BY <3>3, <3>4, <3>5, <4>1, <4>3, <4>5
    <3>6. CASE n # 1
      <4>1. n - 1 \in Nat /\ n - 1 \in 1..N /\ (n - 1) + 1 = n /\ ~(n <= n - 1)
        BY <1>1, <3>3, <3>6
      <4>2. PICK e : Names(f[n - 1], e, edges, node, n - 1)
        BY <3>2, <4>1
      <4>3. \E d : Names(f[n - 1] \o Item(edges, node, (n - 1) + 1), d, edges, node, (n - 1) + 1)
        <5>1. (n - 1) + 1 <= N
          BY <1>1, <3>3
        <5>. HIDE DEF N
        <5>. QED BY <2>5, <4>1, <4>2, <5>1
      <4>. QED BY <3>3, <3>4, <3>6, <4>1, <4>3
    <3>. QED BY <3>5, <3>6
  <2>3. N \in 1..N /\ N \in Nat
    BY <1>1, <1>6
  <2>4. \E e : Names(f[N], e, edges, node, N)
    BY <2>2, <2>3
  <2>. QED BY <1>2, <2>1, <2>4
<1>. QED BY <1>5, <1>6

-----------------------------------------------------------------------------
\* A topology that is admitted has neither a bad edge nor an overfull node.
LEMMA Admitted ==
    ASSUME NEW t \in Topology, NEW p, NEW b, Refusal(t, p, b) = "none"
    PROVE  /\ t.n \in Nat /\ t.n < IndexSize - 1
           /\ Len(t.edges) \in Nat /\ Len(t.edges) < IndexSize - 1
           /\ BadEdges(t) = {} /\ OverfullAt(t) = {}
<1>1. t.n \in Nat /\ t.edges \in Seq(Nat \X Nat) /\ IndexSize \in Nat
  BY ScreeningAssumption
<1>2. Len(t.edges) \in Nat /\ DOMAIN t.edges = 1..Len(t.edges)
  BY <1>1, LenProperties
<1>3. /\ ~(t.n >= IndexSize - 1) /\ ~(Len(t.edges) >= IndexSize - 1)
      /\ ~FirstIn(BadEdges(t), OverfullAt(t)) /\ ~FirstIn(OverfullAt(t), BadEdges(t))
  BY DEF Refusal
<1> DEFINE A == BadEdges(t)
           B == OverfullAt(t)
<1>4. A \subseteq Nat /\ B \subseteq Nat
  BY <1>2 DEF BadEdges, OverfullAt
<1>5. A \cup B = {}
  <2>. HIDE DEF A, B
  <2>1. SUFFICES ASSUME A \cup B # {} PROVE FALSE
    OBVIOUS
  <2>2. PICK n \in A \cup B : \A m \in A \cup B : n <= m
    BY <1>4, <2>1, LeastNatural
  <2>3. FirstIn(A, B) \/ FirstIn(B, A)
    BY <2>2 DEF FirstIn
  <2>. QED BY <1>3, <2>3 DEF A, B
<1>. QED BY <1>1, <1>2, <1>3, <1>5

\* An entry is told from "none", and holds the other end and the edge.
LEMMA EntryReads ==
    ASSUME NEW t \in Topology, NEW p, NEW b, Refusal(t, p, b) = "none",
           NEW node, NEW k \in 1..Len(t.edges)
    PROVE  LET x == Entry(t.edges, node, k) IN
           /\ x \in Nat /\ x # NoNeighbour
           /\ x \div IndexSize = OtherEnd(t.edges, node, k) /\ x % IndexSize = k - 1
<1>1. /\ t.n \in Nat /\ t.n < IndexSize - 1 /\ IndexSize \in Nat \ {0}
      /\ Len(t.edges) \in Nat /\ Len(t.edges) < IndexSize - 1
      /\ t.edges \in Seq(Nat \X Nat) /\ BadEdges(t) = {}
  BY Admitted, ScreeningAssumption
<1>2. k \in DOMAIN t.edges /\ t.edges[k] \in Nat \X Nat
  BY <1>1, ElementOfSeq, LenProperties
<1>3. t.edges[k][1] \in 0..(t.n - 1) /\ t.edges[k][2] \in 0..(t.n - 1)
  <2>1. ~BadEdge(t, t.edges[k])
    BY <1>1, <1>2 DEF BadEdges
  <2>. QED BY <1>1, <1>2, <2>1 DEF BadEdge
<1> DEFINE o == OtherEnd(t.edges, node, k)
           x == o * IndexSize + (k - 1)
<1>4. o \in Nat /\ o < IndexSize - 1
  <2>1. o = t.edges[k][1] \/ o = t.edges[k][2]
    BY Zenon DEF OtherEnd
  <2>. HIDE DEF o
  <2>2. o \in 0..(t.n - 1)
    BY <1>3, <2>1
  <2>. QED BY <1>1, <2>2
<1>5. k - 1 \in 0..(IndexSize - 1)
  BY <1>1
<1>. HIDE DEF o
<1>6. x \div IndexSize = o /\ x % IndexSize = k - 1
  BY <1>1, <1>4, <1>5, DivMod
<1>7. x \in Nat /\ x # NoNeighbour
  <2>1. o * IndexSize <= (IndexSize - 1) * IndexSize - IndexSize
    <3>1. \A u \in Nat, v \in Nat, w \in Nat : u <= v => u * w <= v * w
      OBVIOUS
    <3>2. IndexSize - 2 \in Nat /\ o <= IndexSize - 2
      BY <1>1, <1>4
    <3>3. o * IndexSize <= (IndexSize - 2) * IndexSize
      BY <1>1, <1>4, <3>1, <3>2
    <3>4. (IndexSize - 2) * IndexSize = (IndexSize - 1) * IndexSize - IndexSize
      BY <1>1
    <3>. QED BY <3>3, <3>4
  <2>2. (IndexSize - 1) * IndexSize = IndexSize * IndexSize - IndexSize
    BY <1>1
  <2>3. o * IndexSize \in Nat /\ IndexSize * IndexSize \in Nat
    BY <1>1, <1>4
  <2>4. x \in Nat
    BY <1>5, <2>3
  <2>5. x <= IndexSize * IndexSize - IndexSize - IndexSize + IndexSize - 1
    BY <1>1, <1>5, <2>1, <2>2, <2>3
  <2>6. x < IndexSize * IndexSize - 1
    BY <1>1, <2>3, <2>4, <2>5
  <2>. QED BY <2>3, <2>4, <2>6 DEF NoNeighbour
<1>. QED BY <1>6, <1>7 DEF Entry, o

\* The row of a node in an admitted topology: as long as the node has edges,
\* and no longer than it may be.
LEMMA RowFits ==
    ASSUME NEW t \in Topology, NEW p, NEW b, Refusal(t, p, b) = "none",
           NEW node \in 0..(t.n - 1)
    PROVE  LET row == Incident(t.edges, node) IN
           /\ \E e : Names(row, e, t.edges, node, Len(t.edges))
           /\ Len(row) \in 0..MAX_DEGREE
<1> DEFINE N == Len(t.edges)
           row == Incident(t.edges, node)
<1>1. /\ t.n \in Nat /\ N \in Nat /\ t.edges \in Seq(Nat \X Nat) /\ MAX_DEGREE \in Nat
      /\ BadEdges(t) = {} /\ OverfullAt(t) = {} /\ DOMAIN t.edges = 1..N
  BY Admitted, LenProperties, ScreeningAssumption
<1>2. EdgesGiven(t.edges)
  <2>1. \A k \in DOMAIN t.edges : ~BadEdge(t, t.edges[k])
    BY <1>1 DEF BadEdges
  <2>. QED BY <1>1, <2>1 DEF EdgesGiven, BadEdge
<1>3. PICK e : Names(row, e, t.edges, node, N)
  BY <1>2, RowNames
<1>4. Len(row) \in Nat
  BY <1>3, LenProperties DEF Names
<1>5. CASE N = 0
  <2>1. EdgesOf(t.edges, node, N) = {}
    BY <1>5 DEF EdgesOf
  <2>2. e \in [1..Len(row) -> {}]
    BY <1>3, <2>1, Fun_BijectionProperties DEF Names
  <2>3. ~(1 \in 1..Len(row))
    BY <2>2
  <2>4. Len(row) = 0
    <3>. HIDE DEF row
    <3>. QED BY <1>4, <2>3
  <2>. QED BY <1>1, <1>3, <2>4
<1>6. CASE N # 0
  <2>1. N \in DOMAIN t.edges /\ N \notin OverfullAt(t)
    BY <1>1, <1>6
  <2>2. SubSeq(t.edges, 1, N) = t.edges
    BY <1>1, SubSeqFull
  <2>3. ~(Len(row) > MAX_DEGREE)
    BY <2>1, <2>2 DEF OverfullAt
  <2>. HIDE DEF row
  <2>4. Len(row) \in 0..MAX_DEGREE
    BY <1>1, <1>4, <2>3
  <2>. QED BY <1>3, <2>4 DEF row
<1>. QED BY <1>5, <1>6

\* One entry of a node's row names an edge.
NamedOnce(adj, node, other, k) ==
    \E a : \A i : /\ i \in 1..MAX_DEGREE /\ adj[node][i] # NoNeighbour
                  /\ adj[node][i] \div IndexSize = other
                  /\ adj[node][i] % IndexSize = k
               <=> i = a

\* What a node's row of the adjacency holds: an entry for each edge.
LEMMA NodeExact ==
    ASSUME NEW t \in Topology, NEW p, NEW b, Refusal(t, p, b) = "none",
           NEW node \in 0..(t.n - 1), NEW adj, adj = Adjacency(t)
    PROVE  /\ Cardinality({i \in 1..MAX_DEGREE : adj[node][i] # NoNeighbour})
              = Cardinality(EdgesOf(t.edges, node, Len(t.edges)))
           /\ \A k \in EdgesOf(t.edges, node, Len(t.edges)) :
                  NamedOnce(adj, node, OtherEnd(t.edges, node, k), k - 1)
<1> DEFINE N == Len(t.edges)
           row == Incident(t.edges, node)
           l == Len(row)
           E == EdgesOf(t.edges, node, N)
           S == {i \in 1..MAX_DEGREE : adj[node][i] # NoNeighbour}
<1>1. l \in 0..MAX_DEGREE /\ MAX_DEGREE \in Nat /\ \E e : Names(row, e, t.edges, node, N)
  BY RowFits, ScreeningAssumption
<1>2. PICK e : Names(row, e, t.edges, node, N)
  BY <1>1
<1>3. /\ e \in Bijection(1..l, E)
      /\ \A a \in 1..l : row[a] = Entry(t.edges, node, e[a])
  BY <1>2 DEF Names
<1>4. \A i \in 1..MAX_DEGREE : adj[node][i] = IF i <= l THEN row[i] ELSE NoNeighbour
  BY DEF Adjacency
<1>5. /\ \A a \in 1..l : e[a] \in E
      /\ \A a, c \in 1..l : e[a] = e[c] => a = c
      /\ \A k \in E : \E a \in 1..l : e[a] = k
  <2>1. e \in Bijection(1..l, E)
    BY <1>3
  <2>. QED BY <2>1, Fun_BijectionProperties
<1>. HIDE DEF row, l, E
<1>6. \A k \in E : k \in 1..N /\ k \in Nat
  BY DEF E, EdgesOf
<1>7. ASSUME NEW a \in 1..l
      PROVE  /\ a \in 1..MAX_DEGREE /\ e[a] \in E /\ adj[node][a] # NoNeighbour
             /\ adj[node][a] \div IndexSize = OtherEnd(t.edges, node, e[a])
             /\ adj[node][a] % IndexSize = e[a] - 1
  <2>1. e[a] \in E /\ e[a] \in 1..N
    BY <1>5, <1>6
  <2>2. a \in 1..MAX_DEGREE /\ adj[node][a] = Entry(t.edges, node, e[a])
    BY <1>1, <1>3, <1>4
  <2>. QED BY <2>1, <2>2, EntryReads
<1>8. S = 1..l
  <2>1. \A i \in 1..MAX_DEGREE : adj[node][i] # NoNeighbour => i \in 1..l
    BY <1>1, <1>4
  <2>. QED BY <1>1, <1>7, <2>1
<1>9. Cardinality(S) = Cardinality(E)
  <2>1. IsFiniteSet(1..l)
    BY <1>1, FS_Interval
  <2>2. ExistsBijection(1..l, E)
    BY <1>3 DEF ExistsBijection
  <2>3. Cardinality(E) = Cardinality(1..l)
    BY <2>1, <2>2, FS_Bijection
  <2>. HIDE DEF S
  <2>. QED BY <1>8, <2>3
<1>10. ASSUME NEW k \in E
       PROVE  NamedOnce(adj, node, OtherEnd(t.edges, node, k), k - 1)
  <2>1. PICK a \in 1..l : e[a] = k
    BY <1>5
  <2>2. ASSUME NEW i, i \in 1..MAX_DEGREE, adj[node][i] # NoNeighbour,
               adj[node][i] % IndexSize = k - 1
        PROVE  i = a
    <3>1. i \in 1..l
      BY <1>8, <2>2
    <3>2. adj[node][i] % IndexSize = e[i] - 1 /\ e[i] \in E
      BY <1>7, <3>1
    <3>3. e[i] = k
      BY <1>6, <2>2, <3>2
    <3>. QED BY <1>5, <2>1, <3>1, <3>3
  <2>3. /\ a \in 1..MAX_DEGREE /\ adj[node][a] # NoNeighbour
        /\ adj[node][a] \div IndexSize = OtherEnd(t.edges, node, k)
        /\ adj[node][a] % IndexSize = k - 1
    BY <1>7, <2>1
  <2>. QED BY <2>2, <2>3 DEF NamedOnce
<1>. QED BY <1>9, <1>10 DEF E

\* Whatever the topology, an admitted one is packed without loss, and the
\* packed table stays what it is.
THEOREM AdjacencyAlwaysExact == ScreenSpec => []AdjacencyExact
<1>1. ASSUME ScreenInit PROVE AdjacencyExact
  <2>. SUFFICES ASSUME shape.reason = "none" PROVE AdjacencyExact
    BY DEF AdjacencyExact
  <2>1. PICK t \in Topology, p \in Params, b \in Budgets : shape = Check(t, p, b)
    BY <1>1 DEF ScreenInit
  <2>2. Refusal(t, p, b) = "none"
    BY <2>1 DEF Check
  <2>3. shape.n = t.n /\ shape.edges = t.edges /\ shape.adj = Adjacency(t)
    BY <2>1, <2>2 DEF Check
  <2> DEFINE N == Len(shape.edges)
             entries(node) == {i \in 1..MAX_DEGREE : shape.adj[node][i] # NoNeighbour}
             named(node, other, k) ==
                 {i \in entries(node) : /\ shape.adj[node][i] \div IndexSize = other
                                        /\ shape.adj[node][i] % IndexSize = k}
             of(node) == {k \in DOMAIN shape.edges :
                             node \in {shape.edges[k][1], shape.edges[k][2]}}
  <2>4. DOMAIN shape.edges = 1..N /\ N \in Nat /\ shape.edges \in Seq(Nat \X Nat)
        /\ t.n \in Nat /\ BadEdges(t) = {}
    BY <2>2, <2>3, Admitted, LenProperties, ScreeningAssumption
  <2>5. ASSUME NEW node \in 0..(shape.n - 1) PROVE Cardinality(entries(node)) = Cardinality(of(node))
    <3>1. of(node) = EdgesOf(shape.edges, node, N)
      BY <2>4 DEF EdgesOf
    <3>2. Cardinality(entries(node)) = Cardinality(EdgesOf(shape.edges, node, N))
      BY <2>2, <2>3, NodeExact
    <3>. HIDE DEF entries, of
    <3>. QED BY <3>1, <3>2
  <2>6. ASSUME NEW node \in 0..(shape.n - 1), NEW k \in EdgesOf(shape.edges, node, N)
        PROVE  Cardinality(named(node, OtherEnd(shape.edges, node, k), k - 1)) = 1
    <3>0. node \in 0..(t.n - 1) /\ k \in EdgesOf(t.edges, node, Len(t.edges))
      BY <2>3
    <3>1. NamedOnce(shape.adj, node, OtherEnd(t.edges, node, k), k - 1)
      BY <2>2, <2>3, <3>0, NodeExact
    <3> DEFINE o == OtherEnd(shape.edges, node, k)
               m == k - 1
    <3>2. NamedOnce(shape.adj, node, o, m)
      BY <2>3, <3>1
    <3>. HIDE DEF o, m
    <3>3. PICK a : \A i : /\ i \in 1..MAX_DEGREE /\ shape.adj[node][i] # NoNeighbour
                          /\ shape.adj[node][i] \div IndexSize = o
                          /\ shape.adj[node][i] % IndexSize = m
                       <=> i = a
      BY <3>2 DEF NamedOnce
    <3>4. named(node, o, m) = {a}
      BY <3>3
    <3>5. Cardinality({a}) = 1
      BY FS_Singleton
    <3>6. Cardinality(named(node, o, m)) = 1
      <4>. HIDE DEF named
      <4>. QED BY <3>4, <3>5
    <3>. QED BY <3>6 DEF o, m
  <2>7. ASSUME NEW k \in DOMAIN shape.edges
        PROVE  /\ Cardinality(named(shape.edges[k][1], shape.edges[k][2], k - 1)) = 1
               /\ Cardinality(named(shape.edges[k][2], shape.edges[k][1], k - 1)) = 1
    <3> DEFINE u == shape.edges[k][1]
               v == shape.edges[k][2]
    <3>1. u \in 0..(shape.n - 1) /\ v \in 0..(shape.n - 1) /\ u # v
      <4>1. shape.edges[k] \in Nat \X Nat
        BY <2>4, ElementOfSeq
      <4>2. ~BadEdge(t, shape.edges[k])
        BY <2>3, <2>4 DEF BadEdges
      <4>. QED BY <2>3, <2>4, <4>1, <4>2 DEF BadEdge
    <3>2. k \in EdgesOf(shape.edges, u, N) /\ k \in EdgesOf(shape.edges, v, N)
      BY <2>4 DEF EdgesOf
    <3>3. OtherEnd(shape.edges, u, k) = v /\ OtherEnd(shape.edges, v, k) = u
      BY <3>1 DEF OtherEnd
    <3>4. Cardinality(named(u, OtherEnd(shape.edges, u, k), k - 1)) = 1
      <4>. HIDE DEF named, u
      <4>. QED BY <2>6, <3>1, <3>2
    <3>5. Cardinality(named(v, OtherEnd(shape.edges, v, k), k - 1)) = 1
      <4>. HIDE DEF named, v
      <4>. QED BY <2>6, <3>1, <3>2
    <3>6. Cardinality(named(u, v, k - 1)) = 1 /\ Cardinality(named(v, u, k - 1)) = 1
      <4>. HIDE DEF named, u, v
      <4>. QED BY <3>3, <3>4, <3>5
    <3>. QED BY <3>6
  <2>. QED BY <2>5, <2>7 DEF AdjacencyExact
<1>2. ASSUME AdjacencyExact, [ScreenNext]_screenVars PROVE AdjacencyExact'
  <2>1. UNCHANGED shape
    <3>1. CASE LaunchBatch \/ ReadLanes
      BY <3>1 DEF LaunchBatch, ReadLanes
    <3>2. CASE StopLease \/ RunStops \/ LaunchFails
      BY <3>2 DEF StopLease, RunStops, LaunchFails
    <3>3. CASE UNCHANGED screenVars
      BY <3>3 DEF screenVars
    <3>. QED BY <1>2, <3>1, <3>2, <3>3, Zenon DEF ScreenNext
  <2>2. AdjacencyExact' = AdjacencyExact
    BY <2>1, SMTT(40) DEF AdjacencyExact
  <2>. QED BY <1>2, <2>2
<1>. QED BY <1>1, <1>2, PTL DEF ScreenSpec

-----------------------------------------------------------------------------
(* The screen: the results of its launches. *)

\* The rounded quotient is the least multiple that covers.
LEMMA Ceiling ==
    ASSUME NEW a \in Nat, NEW b \in Nat \ {0}
    PROVE  CeilOf(a, b) \in Nat /\ a <= CeilOf(a, b) * b
           /\ \A m \in Nat : a <= m * b => CeilOf(a, b) <= m
<1> DEFINE c == CeilOf(a, b)
<1>1. c \in Nat /\ b * c <= a + b - 1 /\ a + b - 1 < b * c + b
  BY DEF CeilOf
<1>. HIDE DEF c
<1>2. a <= c * b
  BY <1>1
<1>3. ASSUME NEW m \in Nat, a <= m * b PROVE c <= m
  <2>1. b * c < b * (m + 1)
    BY <1>1, <1>3
  <2>2. \A x \in Nat, y \in Nat, z \in Nat \ {0} : z * x < z * y => x < y
    OBVIOUS
  <2>3. c < m + 1
    BY <1>1, <2>1, <2>2
  <2>. QED BY <1>1, <2>3
<1>. QED BY <1>1, <1>2, <1>3 DEF c

Result(k) == [nonces |-> {k}, reads |-> 2 ^ shape.reads]

\* A shape that was admitted: its reads share the lanes out evenly.
ShapeAdmitted ==
    shape.reason = "none" => /\ 2 ^ shape.reads \in Nat \ {0}
                             /\ Lanes % (2 ^ shape.reads) = 0

\* The pace of the launches before, and what the next may hold.
Paced ==
    /\ slowest \in Nat
    /\ \A o \in observed : /\ o.groups \in Nat \ {0} /\ o.elapsed \in Nat
                           /\ o.elapsed <= slowest * o.groups

Flying ==
    phase = "launched" =>
        /\ shape.reason = "none"
        /\ flight.groups \in 1..MaxGroups
        /\ flight.groups > 1 => 2 * flight.groups * slowest <= LaunchTime
        /\ flight.size \in Nat /\ Len(best) + flight.size <= count

ScreenInv ==
    /\ count \in Nat /\ Len(best) <= count
    /\ best \in Seq({Result(k) : k \in Nat})
    /\ \A k \in DOMAIN best : best[k] = Result(k - 1)
    /\ ShapeAdmitted /\ Paced /\ Flying

\* What the lanes of a nonce give: its own energy, over all of its reads.
LEMMA ResultOfLanes ==
    ASSUME shape.reason = "none", ShapeAdmitted, NEW first \in Nat, NEW i \in Nat
    PROVE  BestOf(first, i) = Result(first + i)
<1> DEFINE R == 2 ^ shape.reads
           P == NoncesPerGroup
           g == i \div P
           m == i % P
           S == Leaving(m, P, R)
           f == [l \in S |-> g * Lanes + l]
<1>1. R \in Nat \ {0} /\ Lanes \in Nat \ {0} /\ Lanes % R = 0 /\ P = Lanes \div R
  BY ScreeningAssumption DEF ShapeAdmitted, NoncesPerGroup
<1>. HIDE DEF R, P
<1>2. P \in Nat \ {0} /\ R * P = Lanes
  BY <1>1, Parts
<1>3. g \in Nat /\ m \in 0..(P - 1)
  BY <1>2
<1>4. i = g * P + m
  BY <1>2
<1>5. /\ m \in S /\ \A l \in S : l % P = m
      /\ IsFiniteSet(S) /\ Cardinality(S) = R
  <2>. HIDE DEF m
  <2>. QED BY <1>1, <1>2, <1>3, Class
<1>6. LanesOf(i) = {g * Lanes + l : l \in S}
  BY <1>2 DEF LanesOf, P, Leaving
<1>. HIDE DEF g, m
<1>7. ASSUME NEW l \in S PROVE NonceOfLane(first, g * Lanes + l) = first + i
  <2>1. l \in 0..(Lanes - 1)
    BY <1>2 DEF Leaving
  <2>2. (g * Lanes + l) \div Lanes = g /\ (g * Lanes + l) % Lanes = l
    BY <1>1, <1>3, <2>1, DivMod
  <2>3. l % P = m
    BY <1>5
  <2>4. NonceOfLane(first, g * Lanes + l)
        = first + ((g * Lanes + l) \div Lanes) * P + (((g * Lanes + l) % Lanes) % P)
    BY DEF NonceOfLane, P
  <2>5. NonceOfLane(first, g * Lanes + l) = first + g * P + m
    BY <2>2, <2>3, <2>4
  <2>6. g * P \in Nat
    BY <1>2, <1>3
  <2>. QED BY <1>3, <1>4, <2>5, <2>6
<1>8. {NonceOfLane(first, lane) : lane \in LanesOf(i)} = {first + i}
  <2>. HIDE DEF S
  <2>. QED BY <1>5, <1>6, <1>7
<1>9. Cardinality(LanesOf(i)) = R
  <2>1. \A l \in S : l \in Int
    BY <1>2 DEF Leaving
  <2>. HIDE DEF S
  <2>2. g * Lanes \in Int
    BY <1>1, <1>3
  <2>3. f \in [S -> LanesOf(i)]
    BY <1>6
  <2>4. \A k, l \in S : f[k] = f[l] => k = l
    BY <2>1, <2>2
  <2>5. \A t \in LanesOf(i) : \E l \in S : f[l] = t
    BY <1>6
  <2>. HIDE DEF f
  <2>6. f \in Bijection(S, LanesOf(i))
    BY <2>3, <2>4, <2>5, Fun_IsBij
  <2>7. ExistsBijection(S, LanesOf(i))
    BY <2>6 DEF ExistsBijection
  <2>. QED BY <1>5, <2>7, FS_Bijection
<1>. QED BY <1>8, <1>9 DEF BestOf, Result, R

\* The groups of a launch: no more than the device has, nor than the pace of
\* the slowest launch allows.
LEMMA GroupsPaced ==
    ASSUME slowest \in Nat
    PROVE  /\ Groups \in 1..MaxGroups
           /\ Groups > 1 => 2 * Groups * slowest <= LaunchTime
<1>1. MaxGroups \in Nat \ {0} /\ LaunchTime \in Nat
  BY ScreeningAssumption
<1>2. CASE slowest = 0
  BY <1>1, <1>2 DEF Groups
<1>3. CASE slowest # 0
  <2> DEFINE d == LaunchTime \div slowest
  <2>1. d \in Nat /\ slowest * d <= LaunchTime
    BY <1>1, <1>3
  <2>2. Groups = Bounded(d \div 2, 1, MaxGroups)
    BY <1>3 DEF Groups
  <2>. HIDE DEF d
  <2>3. d \div 2 \in Nat /\ 2 * (d \div 2) <= d
    BY <2>1
  <2>4. Groups \in 1..MaxGroups /\ (Groups > 1 => 2 * Groups <= d)
    <3> DEFINE h == d \div 2
    <3>. HIDE DEF h
    <3>1. Groups \in 1..MaxGroups /\ (Groups > 1 => Groups <= h)
      BY <1>1, <2>2, <2>3 DEF Bounded, h
    <3>. QED BY <1>1, <2>1, <2>3, <3>1 DEF h
  <2>5. ASSUME Groups > 1 PROVE 2 * Groups * slowest <= LaunchTime
    <3>1. \A x \in Nat, y \in Nat, z \in Nat : x <= y => x * z <= z * y
      OBVIOUS
    <3>2. (2 * Groups) * slowest <= slowest * d
      BY <2>1, <2>4, <2>5, <3>1
    <3>3. slowest * d \in Nat /\ (2 * Groups) * slowest \in Nat
      BY <2>1, <2>4
    <3>. QED BY <1>1, <2>1, <3>2, <3>3
  <2>. QED BY <2>4, <2>5
<1>. QED BY <1>2, <1>3

\* The rate of a launch covers it, and no rate before is above it.
LEMMA SlowestCovers ==
    ASSUME Paced, NEW groups \in Nat \ {0}, NEW elapsed \in Nat
    PROVE  /\ Slowest(groups, elapsed) \in Nat
           /\ slowest <= Slowest(groups, elapsed)
           /\ elapsed <= Slowest(groups, elapsed) * groups
<1> DEFINE c == CeilOf(elapsed, groups)
           s == Slowest(groups, elapsed)
<1>1. c \in Nat /\ elapsed <= c * groups
  BY Ceiling
<1>2. s \in Nat /\ slowest <= s /\ c <= s
  <2>. HIDE DEF c
  <2>. QED BY <1>1 DEF Paced, Slowest, Bounded, c
<1>. HIDE DEF c, s
<1>3. \A x \in Nat, y \in Nat, z \in Nat : x <= y => x * z <= y * z /\ x * z \in Nat /\ y * z \in Nat
  OBVIOUS
<1>4. c * groups <= s * groups /\ c * groups \in Nat /\ s * groups \in Nat
  BY <1>1, <1>2, <1>3
<1>5. elapsed <= s * groups
  BY <1>1, <1>4
<1>. QED BY <1>2, <1>5 DEF s

LEMMA ScreenInitHolds == ScreenInit => ScreenInv
<1>. SUFFICES ASSUME ScreenInit PROVE ScreenInv
  OBVIOUS
<1>1. /\ count \in Nat /\ best = <<>> /\ phase = "run" /\ slowest = 0 /\ observed = {}
  BY ScreeningAssumption DEF ScreenInit
<1>2. ShapeAdmitted
  <2>1. SUFFICES ASSUME shape.reason = "none"
                 PROVE  2 ^ shape.reads \in Nat \ {0} /\ Lanes % (2 ^ shape.reads) = 0
    BY DEF ShapeAdmitted
  <2>2. PICK t \in Topology, p \in Params, b \in Budgets : shape = Check(t, p, b)
    BY DEF ScreenInit
  <2>3. Refusal(t, p, b) = "none"
    BY <2>1, <2>2 DEF Check
  <2>4. shape.reads = p.reads_log2
    BY <2>2, <2>3 DEF Check
  <2>5. ShapeOk(p.reads_log2, p.sweeps, p.threads)
    BY <2>3 DEF Refusal
  <2>6. shape.reads \in 2..5 /\ Lanes % (2 ^ shape.reads) = 0
    BY <2>4, <2>5, ScreeningAssumption DEF ShapeOk
  <2> DEFINE r == shape.reads
  <2>. HIDE DEF r
  <2>7. r = 2 \/ r = 3 \/ r = 4 \/ r = 5
    BY <2>6 DEF r
  <2>8. ASSUME r = 2 PROVE 2 ^ r = 4
    BY <2>8
  <2>9. ASSUME r = 3 PROVE 2 ^ r = 8
    BY <2>9
  <2>10. ASSUME r = 4 PROVE 2 ^ r = 16
    BY <2>10
  <2>11. ASSUME r = 5 PROVE 2 ^ r = 32
    BY <2>11
  <2>12. 2 ^ r \in {4, 8, 16, 32}
    BY <2>7, <2>8, <2>9, <2>10, <2>11
  <2>. QED BY <2>6, <2>12 DEF r
<1>3. Paced
  BY <1>1 DEF Paced
<1>4. Flying
  BY <1>1 DEF Flying
<1>5. best \in Seq({Result(k) : k \in Nat}) /\ Len(best) = 0 /\ DOMAIN best = {}
  BY <1>1, EmptySeq
<1>. QED BY <1>1, <1>2, <1>3, <1>4, <1>5 DEF ScreenInv

\* A launch covers the nonces it takes with groups the pace allows.
LEMMA LaunchStep ==
    ASSUME ScreenInv, LaunchBatch
    PROVE  ScreenInv'
<1>1. /\ shape.reason = "none" /\ Len(best) < count
      /\ flight' = [groups |-> CeilOf(BatchSize, NoncesPerGroup), size |-> BatchSize]
      /\ UNCHANGED <<shape, count, best, slowest, observed>>
  BY DEF LaunchBatch
<1> DEFINE P == NoncesPerGroup
           size == BatchSize
           groups == CeilOf(size, P)
           left == count - Len(best)
<1>2. P \in Nat \ {0}
  BY <1>1, Parts, ScreeningAssumption DEF ScreenInv, ShapeAdmitted, NoncesPerGroup
<1>3. /\ Groups \in 1..MaxGroups /\ (Groups > 1 => 2 * Groups * slowest <= LaunchTime)
      /\ slowest \in Nat /\ LaunchTime \in Nat /\ MaxGroups \in Nat
  BY GroupsPaced, ScreeningAssumption DEF ScreenInv, Paced
<1>4. left \in Nat \ {0} /\ Len(best) \in Nat
  BY <1>1, LenProperties DEF ScreenInv
<1>5. Groups * P \in Nat \ {0}
  <2>1. \A x \in Nat \ {0}, y \in Nat \ {0} : x * y \in Nat \ {0}
    OBVIOUS
  <2>. HIDE DEF P
  <2>. QED BY <1>2, <1>3, <2>1
<1>6. size \in Nat \ {0} /\ size <= left /\ size <= Groups * P
  <2>1. size = IF Groups * P <= left THEN Groups * P ELSE left
    BY DEF BatchSize
  <2>. HIDE DEF size, P, left
  <2>. QED BY <1>4, <1>5, <2>1
<1>. HIDE DEF P, size, left
<1>7. groups \in Nat /\ size <= groups * P /\ groups <= Groups
  BY <1>2, <1>3, <1>6, Ceiling
<1>8. groups >= 1
  <2>1. groups = 0 => groups * P = 0
    <3>. HIDE DEF groups
    <3>. QED BY <1>2
  <2>. HIDE DEF groups
  <2>. QED BY <1>2, <1>6, <1>7, <2>1
<1>. HIDE DEF groups
<1>9. groups > 1 => 2 * groups * slowest <= LaunchTime
  <2>1. SUFFICES ASSUME groups > 1 PROVE 2 * groups * slowest <= LaunchTime
    OBVIOUS
  <2>2. \A x \in Nat, y \in Nat, z \in Nat : x <= y => 2 * x * z <= 2 * y * z
    OBVIOUS
  <2>3. 2 * groups * slowest <= 2 * Groups * slowest
    BY <1>3, <1>7, <2>2
  <2>4. 2 * Groups * slowest <= LaunchTime
    BY <1>3, <1>7, <2>1
  <2>5. 2 * groups * slowest \in Int /\ 2 * Groups * slowest \in Int
    BY <1>3, <1>7
  <2>. QED BY <1>3, <2>3, <2>4, <2>5
<1>10. flight'.groups = groups /\ flight'.size = size
  BY <1>1 DEF groups, size, P
<1>11. Len(best) + size <= count
  BY <1>4, <1>6 DEF left, ScreenInv
<1>12. Flying'
  BY <1>1, <1>3, <1>6, <1>7, <1>8, <1>9, <1>10, <1>11 DEF Flying
<1>. QED BY <1>1, <1>12 DEF ScreenInv, ShapeAdmitted, Paced, Result

\* The lanes are read back: their results follow those that are there.
LEMMA ReadStep ==
    ASSUME ScreenInv, ReadLanes
    PROVE  ScreenInv'
<1>1. /\ phase = "launched" /\ phase' = "run"
      /\ best' = best \o [i \in 1..flight.size |-> BestOf(Len(best), i - 1)]
      /\ UNCHANGED <<shape, count>>
  BY DEF ReadLanes
<1>2. PICK elapsed \in Elapsed :
          /\ slowest' = Slowest(flight.groups, elapsed)
          /\ observed' = observed \cup {[groups |-> flight.groups, elapsed |-> elapsed]}
  BY DEF ReadLanes
<1>3. /\ shape.reason = "none" /\ flight.groups \in Nat \ {0} /\ flight.size \in Nat
      /\ Len(best) + flight.size <= count /\ Len(best) \in Nat
  BY <1>1, LenProperties, ScreeningAssumption DEF ScreenInv, Flying
<1>4. Paced'
  <2> DEFINE s == Slowest(flight.groups, elapsed)
  <2>1. elapsed \in Nat
    BY ScreeningAssumption
  <2>2. s \in Nat /\ slowest <= s /\ elapsed <= s * flight.groups
    BY <1>3, <2>1, SlowestCovers DEF ScreenInv
  <2>. HIDE DEF s
  <2>3. ASSUME NEW o \in observed'
        PROVE  o.groups \in Nat \ {0} /\ o.elapsed \in Nat /\ o.elapsed <= s * o.groups
    <3>1. CASE o = [groups |-> flight.groups, elapsed |-> elapsed]
      BY <1>3, <2>1, <2>2, <3>1
    <3>2. CASE o \in observed
      <4>1. /\ o.groups \in Nat \ {0} /\ o.elapsed \in Nat /\ o.elapsed <= slowest * o.groups
            /\ slowest \in Nat
        BY <3>2 DEF ScreenInv, Paced
      <4>2. \A x \in Nat, y \in Nat, z \in Nat :
                x <= y => x * z <= y * z /\ x * z \in Nat /\ y * z \in Nat
        OBVIOUS
      <4>3. slowest * o.groups <= s * o.groups /\ slowest * o.groups \in Nat /\ s * o.groups \in Nat
        BY <2>2, <4>1, <4>2
      <4>. QED BY <4>1, <4>3
    <3>. QED BY <1>2, <3>1, <3>2
  <2>. QED BY <1>2, <2>2, <2>3 DEF Paced, s
<1> DEFINE T == {Result(k) : k \in Nat}
           more == [i \in 1..flight.size |-> BestOf(Len(best), i - 1)]
<1>5. \A i \in 1..flight.size : more[i] = Result(Len(best) + i - 1)
  <2>1. SUFFICES ASSUME NEW i \in 1..flight.size PROVE BestOf(Len(best), i - 1) = Result(Len(best) + i - 1)
    OBVIOUS
  <2>2. i - 1 \in Nat /\ Len(best) + (i - 1) = Len(best) + i - 1
    BY <1>3
  <2>3. BestOf(Len(best), i - 1) = Result(Len(best) + (i - 1))
    BY <1>3, <2>2, ResultOfLanes DEF ScreenInv
  <2>. QED BY <2>2, <2>3
<1>6. more \in Seq(T) /\ Len(more) = flight.size
  <2>1. ASSUME NEW i \in 1..flight.size PROVE more[i] \in T
    <3>1. Len(best) + i - 1 \in Nat
      BY <1>3
    <3>. HIDE DEF more
    <3>. QED BY <1>5, <3>1
  <2>2. more \in [1..flight.size -> T]
    BY <2>1
  <2>. HIDE DEF T, more
  <2>. QED BY <1>3, <2>2
<1>7. best \in Seq(T)
  BY DEF ScreenInv
<1>8. best' = best \o more
  BY <1>1
<1>. HIDE DEF T, more
<1>9. /\ best' \in Seq(T) /\ Len(best') = Len(best) + flight.size
      /\ \A i \in 1..(Len(best) + flight.size) :
             best'[i] = IF i <= Len(best) THEN best[i] ELSE more[i - Len(best)]
  BY <1>6, <1>7, <1>8, ConcatProperties
<1>10. \A k \in DOMAIN best' : best'[k] = Result(k - 1)
  <2>1. DOMAIN best' = 1..(Len(best) + flight.size)
    BY <1>9, LenProperties
  <2>2. SUFFICES ASSUME NEW k \in 1..(Len(best) + flight.size) PROVE best'[k] = Result(k - 1)
    BY <2>1
  <2>3. CASE k <= Len(best)
    <3>1. k \in DOMAIN best
      BY <1>3, <1>7, <2>3, LenProperties
    <3>. QED BY <1>9, <2>3, <3>1 DEF ScreenInv
  <2>4. CASE ~(k <= Len(best))
    <3>1. k - Len(best) \in 1..flight.size
      BY <1>3, <2>4
    <3>2. more[k - Len(best)] = Result(Len(best) + (k - Len(best)) - 1)
      BY <1>5, <3>1
    <3>3. Len(best) + (k - Len(best)) - 1 = k - 1
      BY <1>3
    <3>. QED BY <1>9, <2>4, <3>2, <3>3
  <2>. QED BY <2>3, <2>4
<1>11. Result(0)' = Result(0) /\ T = {Result(k) : k \in Nat}' /\ \A k : Result(k)' = Result(k)
  BY <1>1 DEF Result, T
<1>. QED BY <1>1, <1>3, <1>4, <1>9, <1>10, <1>11 DEF ScreenInv, ShapeAdmitted, Flying

LEMMA ScreenNextHolds == ScreenInv /\ [ScreenNext]_screenVars => ScreenInv'
<1>. SUFFICES ASSUME ScreenInv, [ScreenNext]_screenVars PROVE ScreenInv'
  OBVIOUS
<1>1. CASE StopLease
  BY <1>1 DEF StopLease, ScreenInv, ShapeAdmitted, Paced, Flying, Result
<1>2. CASE RunStops
  BY <1>2 DEF RunStops, ScreenInv, ShapeAdmitted, Paced, Flying, Result
<1>3. CASE LaunchFails
  BY <1>3 DEF LaunchFails, ScreenInv, ShapeAdmitted, Paced, Flying, Result
<1>4. CASE UNCHANGED screenVars
  BY <1>4 DEF screenVars, ScreenInv, ShapeAdmitted, Paced, Flying, Result
<1>. QED BY <1>1, <1>2, <1>3, <1>4, LaunchStep, ReadStep DEF ScreenNext

\* A screen gives every nonce of its chunk its own result, in order, through
\* launches of any size, and no launch is longer than the pace of those before
\* it allows.
THEOREM ChunkScreenedInOrder == ScreenSpec => []ScreenedInOrder
<1>1. ScreenInv => ScreenedInOrder
  <2>. SUFFICES ASSUME ScreenInv PROVE ScreenedInOrder
    OBVIOUS
  <2>1. ASSUME phase = "launched", flight.groups > 1, NEW o \in observed
        PROVE  2 * flight.groups * o.elapsed <= LaunchTime * o.groups
    <3> DEFINE g == flight.groups
               e == o.elapsed
               n == o.groups
    <3>1. /\ g \in Nat /\ e \in Nat /\ n \in Nat /\ slowest \in Nat /\ LaunchTime \in Nat
          /\ 2 * g * slowest <= LaunchTime /\ e <= slowest * n
      BY <2>1, ScreeningAssumption DEF ScreenInv, Flying, Paced
    <3>. HIDE DEF g, e, n
    <3>2. \A x \in Nat, y \in Nat, z \in Nat : x <= y => x * z <= y * z
      OBVIOUS
    <3>3. (2 * g * slowest) * n <= LaunchTime * n
      BY <3>1, <3>2
    <3>4. e * (2 * g) <= (slowest * n) * (2 * g)
      BY <3>1, <3>2
    <3>5. (slowest * n) * (2 * g) = (2 * g * slowest) * n /\ e * (2 * g) = 2 * g * e
      BY <3>1
    <3>6. /\ 2 * g * e \in Int /\ (2 * g * slowest) * n \in Int /\ LaunchTime * n \in Int
      BY <3>1
    <3>7. 2 * g * e <= LaunchTime * n
      BY <3>3, <3>4, <3>5, <3>6
    <3>. QED BY <3>7 DEF g, e, n
  <2>. QED BY <2>1 DEF ScreenInv, Flying, Result, ScreenedInOrder
<1>. QED BY <1>1, ScreenInitHolds, ScreenNextHolds, PTL DEF ScreenSpec

-----------------------------------------------------------------------------
(* A quantile: one lemma for the observation that moves markers up, one for  *)
(* the adjustment of an inner marker.                                        *)

\* Markers in order, from the first to the last of k observations.
Ordered(m, k) ==
    /\ m.q \in [Marker -> Height]
    /\ m.pos \in [Marker -> Int]
    /\ m.pos[1] = 1 /\ m.pos[5] = k
    /\ \A i \in 1..4 : m.pos[i] < m.pos[i + 1] /\ m.q[i] <= m.q[i + 1]

QuantileInv ==
    /\ seen \in Nat
    /\ Ordered([q |-> q, pos |-> pos], seen)

\* The order of five markers, spelled out.
LEMMA OrderedParts ==
    ASSUME NEW m, NEW k
    PROVE  Ordered(m, k) <=>
               /\ m.q \in [Marker -> Height]
               /\ m.pos \in [Marker -> Int]
               /\ m.pos[1] = 1 /\ m.pos[5] = k
               /\ m.pos[1] < m.pos[2] /\ m.pos[2] < m.pos[3]
               /\ m.pos[3] < m.pos[4] /\ m.pos[4] < m.pos[5]
               /\ m.q[1] <= m.q[2] /\ m.q[2] <= m.q[3]
               /\ m.q[3] <= m.q[4] /\ m.q[4] <= m.q[5]
<1>1. 1..4 = {1, 2, 3, 4}
  OBVIOUS
<1> QED
  BY <1>1 DEF Ordered

\* An observation falls into one cell, and the markers above it move up by one.
LEMMA ObservedInOrder ==
    ASSUME NEW x \in Height, NEW k \in Nat, Ordered([q |-> q, pos |-> pos], k)
    PROVE  Ordered([q |-> Ends(x), pos |-> Shifted(x)], k + 1)
<1>1. /\ q \in [Marker -> Height] /\ pos \in [Marker -> Int]
      /\ pos[1] = 1 /\ pos[5] = k
      /\ pos[1] < pos[2] /\ pos[2] < pos[3] /\ pos[3] < pos[4] /\ pos[4] < pos[5]
      /\ q[1] <= q[2] /\ q[2] <= q[3] /\ q[3] <= q[4] /\ q[4] <= q[5]
  BY OrderedParts
<1>2. /\ x \in Int
      /\ \A i \in Marker : q[i] \in Int /\ pos[i] \in Int
      /\ Marker = {1, 2, 3, 4, 5}
  <2>1. Marker = {1, 2, 3, 4, 5}
    BY DEF Marker
  <2> QED
    BY <1>1, <2>1, QuantileAssumption
<1>3. CellOf(x) \in 1..4
  <2>1. CASE x < q[1] \/ x >= q[5]
    BY <1>2, <2>1 DEF CellOf
  <2>2. CASE ~(x < q[1]) /\ ~(x >= q[5])
    <3> DEFINE First(i) == x < q[i + 1] /\ \A j \in 1..(i - 1) : ~(x < q[j + 1])
    <3>1. \E i \in 1..4 : First(i)
      <4>1. CASE x < q[2]
        BY <4>1
      <4>2. CASE ~(x < q[2]) /\ x < q[3]
        BY <4>2
      <4>3. CASE ~(x < q[2]) /\ ~(x < q[3]) /\ x < q[4]
        BY <4>3
      <4>4. CASE ~(x < q[2]) /\ ~(x < q[3]) /\ ~(x < q[4])
        <5>1. x < q[5]
          BY <1>2, <2>2
        <5> QED
          BY <4>4, <5>1
      <4> QED
        BY <4>1, <4>2, <4>3, <4>4
    <3>2. CellOf(x) = CHOOSE i \in 1..4 : First(i)
      BY <2>2 DEF CellOf
    <3> QED
      BY <3>1, <3>2
  <2> QED
    BY <2>1, <2>2
<1>4. /\ Ends(x) \in [Marker -> Height]
      /\ Shifted(x) \in [Marker -> Int]
  BY <1>1, <1>2, <1>3 DEF Ends, Shifted
<1>5. /\ Shifted(x)[1] = 1 /\ Shifted(x)[5] = k + 1
      /\ Shifted(x)[1] < Shifted(x)[2] /\ Shifted(x)[2] < Shifted(x)[3]
      /\ Shifted(x)[3] < Shifted(x)[4] /\ Shifted(x)[4] < Shifted(x)[5]
  BY <1>1, <1>2, <1>3 DEF Shifted
<1>6. /\ Ends(x)[1] <= Ends(x)[2] /\ Ends(x)[2] <= Ends(x)[3]
      /\ Ends(x)[3] <= Ends(x)[4] /\ Ends(x)[4] <= Ends(x)[5]
  BY <1>1, <1>2 DEF Ends
<1> DEFINE m == [q |-> Ends(x), pos |-> Shifted(x)]
<1>7. m.q = Ends(x) /\ m.pos = Shifted(x)
  OBVIOUS
<1> HIDE DEF m
<1>8. Ordered(m, k + 1)
  BY <1>4, <1>5, <1>6, <1>7, OrderedParts
<1> QED
  BY <1>8 DEF m

\* A marker that moves has room to, and gets a height between its neighbours'.
LEMMA AdjustedInOrder ==
    ASSUME NEW m, NEW k \in Nat, NEW w, NEW i \in Inner, Ordered(m, k),
           NEW a \in Adjusted(m, w, i)
    PROVE  Ordered(a, k)
<1> DEFINE s == Direction(m.pos, w, i)
<1>1. /\ m.q \in [Marker -> Height] /\ m.pos \in [Marker -> Int]
      /\ m.pos[1] = 1 /\ m.pos[5] = k
      /\ m.pos[1] < m.pos[2] /\ m.pos[2] < m.pos[3]
      /\ m.pos[3] < m.pos[4] /\ m.pos[4] < m.pos[5]
      /\ m.q[1] <= m.q[2] /\ m.q[2] <= m.q[3] /\ m.q[3] <= m.q[4] /\ m.q[4] <= m.q[5]
  BY OrderedParts
<1>2. /\ i \in {2, 3, 4} /\ Marker = {1, 2, 3, 4, 5}
      /\ \A j \in Marker : m.q[j] \in Int /\ m.pos[j] \in Int
  <2>1. i \in {2, 3, 4} /\ Marker = {1, 2, 3, 4, 5}
    BY DEF Marker, Inner
  <2> QED
    BY <1>1, <2>1, QuantileAssumption
<1>3. CASE s = 0
  BY <1>3 DEF Adjusted
<1>4. CASE s # 0
  <2>1. \/ s = 1 /\ m.pos[i + 1] - m.pos[i] > 1
        \/ s = -1 /\ m.pos[i] - m.pos[i - 1] > 1
    BY <1>4 DEF Direction
  <2>2. PICK y \in Heights(m.q, i, s) :
            a = [q   |-> [j \in Marker |-> IF j = i THEN y ELSE m.q[j]],
                 pos |-> [j \in Marker |-> IF j = i THEN m.pos[j] + s ELSE m.pos[j]]]
    BY <1>4 DEF Adjusted
  <2>3. /\ y \in Height /\ y \in Int
        /\ m.q[i - 1] <= y /\ y <= m.q[i + 1]
    <3>1. y \in Height /\ y \in Int
      BY QuantileAssumption DEF Heights
    <3>2. /\ i - 1 \in Marker /\ i + 1 \in Marker /\ i \in Marker
          /\ m.q[i - 1] <= m.q[i] /\ m.q[i] <= m.q[i + 1]
      BY <1>1, <1>2
    <3>3. \/ m.q[i - 1] < y /\ y < m.q[i + 1]
          \/ m.q[i] <= y /\ y <= m.q[i + s]
          \/ m.q[i + s] <= y /\ y <= m.q[i]
      BY DEF Heights
    <3>4. i + s = i + 1 \/ i + s = i - 1
      BY <1>2, <2>1
    <3> QED
      BY <1>2, <3>1, <3>2, <3>3, <3>4
  <2>4. /\ a.q = [j \in Marker |-> IF j = i THEN y ELSE m.q[j]]
        /\ a.pos = [j \in Marker |-> IF j = i THEN m.pos[j] + s ELSE m.pos[j]]
    BY <2>2
  <2>5. s \in Int
    BY <2>1
  <2> HIDE DEF s
  <2>6. a.q \in [Marker -> Height] /\ a.pos \in [Marker -> Int]
    BY <1>1, <1>2, <2>3, <2>4, <2>5
  <2>7. /\ a.q[1] <= a.q[2] /\ a.q[2] <= a.q[3] /\ a.q[3] <= a.q[4] /\ a.q[4] <= a.q[5]
    BY <1>1, <1>2, <2>3, <2>4
  <2>8. /\ a.pos[1] = 1 /\ a.pos[5] = k
        /\ a.pos[1] < a.pos[2] /\ a.pos[2] < a.pos[3]
        /\ a.pos[3] < a.pos[4] /\ a.pos[4] < a.pos[5]
    BY <1>1, <1>2, <2>1, <2>4
  <2> QED
    BY <2>6, <2>7, <2>8, OrderedParts
<1> QED
  BY <1>3, <1>4

\* The first five observations, sorted.
LEMMA QuantileInvInit == QuantileInit => QuantileInv
<1> SUFFICES ASSUME QuantileInit PROVE QuantileInv
  OBVIOUS
<1>1. /\ pos = <<1, 2, 3, 4, 5>> /\ seen = 5 /\ q \in [Marker -> Height]
      /\ \A i \in 1..4 : q[i] <= q[i + 1]
  BY DEF QuantileInit
<1>2. pos \in [Marker -> Int]
  BY <1>1 DEF Marker
<1> DEFINE m == [q |-> q, pos |-> pos]
<1>3. m.q = q /\ m.pos = pos
  OBVIOUS
<1> HIDE DEF m
<1>4. Ordered(m, 5)
  BY <1>1, <1>2, <1>3, OrderedParts
<1> QED
  BY <1>1, <1>4 DEF QuantileInv, m

\* An observation keeps the markers in order, and so does a stutter.
LEMMA QuantileInvStep == QuantileInv /\ [Push]_quantileVars => QuantileInv'
<1> SUFFICES ASSUME QuantileInv, [Push]_quantileVars PROVE QuantileInv'
  OBVIOUS
<1>1. CASE UNCHANGED quantileVars
  BY <1>1 DEF QuantileInv, quantileVars
<1>2. CASE Push
  <2>1. PICK x \in Height :
          \E m2 \in Adjusted([q |-> Ends(x), pos |-> Shifted(x)], Wanted, 2) :
          \E m3 \in Adjusted(m2, Wanted, 3) :
          \E m4 \in Adjusted(m3, Wanted, 4) :
              q' = m4.q /\ pos' = m4.pos
    BY <1>2 DEF Push
  <2>2. PICK m2 \in Adjusted([q |-> Ends(x), pos |-> Shifted(x)], Wanted, 2) :
          \E m3 \in Adjusted(m2, Wanted, 3) :
          \E m4 \in Adjusted(m3, Wanted, 4) :
              q' = m4.q /\ pos' = m4.pos
    BY <2>1
  <2>3. PICK m3 \in Adjusted(m2, Wanted, 3) :
          \E m4 \in Adjusted(m3, Wanted, 4) : q' = m4.q /\ pos' = m4.pos
    BY <2>2
  <2>4. PICK m4 \in Adjusted(m3, Wanted, 4) : q' = m4.q /\ pos' = m4.pos
    BY <2>3
  <2>5. seen \in Nat /\ seen + 1 \in Nat /\ seen' = seen + 1 /\ 2 \in Inner /\ 3 \in Inner /\ 4 \in Inner
    BY <1>2 DEF QuantileInv, Push, Inner
  <2>6. Ordered([q |-> Ends(x), pos |-> Shifted(x)], seen + 1)
    BY <2>5, ObservedInOrder DEF QuantileInv
  <2>7. Ordered(m2, seen + 1)
    BY <2>2, <2>5, <2>6, AdjustedInOrder
  <2>8. Ordered(m3, seen + 1)
    BY <2>3, <2>5, <2>7, AdjustedInOrder
  <2>9. Ordered(m4, seen + 1)
    BY <2>4, <2>5, <2>8, AdjustedInOrder
  <2> QED
    BY <2>4, <2>5, <2>9 DEF QuantileInv, Ordered
<1> QED
  BY <1>1, <1>2

\* No two markers ever share a position, and their heights ascend, whatever is
\* observed and whichever formula moves them.
THEOREM MarkersInOrder == QuantileSpec => []MarkersOrdered
<1>1. QuantileInv => MarkersOrdered
  BY DEF QuantileInv, Ordered, MarkersOrdered
<1> QED
  BY <1>1, QuantileInvInit, QuantileInvStep, PTL DEF QuantileSpec
=============================================================================
