------------------------------ MODULE Governor ------------------------------
(***************************************************************************)
(* The utilization governor (src/src/nvml_gov.rs) and the configuration of  *)
(* its knobs (CudaSampler::apply_config, src/src/lib.rs).  Three threads     *)
(* share five atomics: the poll thread samples the device every two         *)
(* seconds, the session's reader stores an override one knob at a time, and *)
(* the stream driver asks should_throttle, one load at a time.              *)
(*                                                                         *)
(* The device is external: neighbours come, load it and go, and NVML keeps  *)
(* the utilization samples it took of every process, the dead included.     *)
(***************************************************************************)
EXTENDS Integers, FiniteSets, FiniteSetsExt

CONSTANTS
    Neighbour,      \* processes other than the miner
    Self,           \* the miner, as NVML lists it
    Load,           \* utilization of a neighbour that is at work
    OwnLoad,        \* utilization of the miner
    CliCeiling,     \* ceiling of the command line
    Override,       \* ceilings a backend_toml may hold, in and out of range
    Ticks           \* bound: utilization samples NVML takes

ASSUME GovernorAssumption ==
    /\ IsFiniteSet(Neighbour) /\ Self \notin Neighbour
    /\ Load \in 1..100 /\ OwnLoad \in 1..100
    /\ CliCeiling \in Nat /\ Override \subseteq Nat
    /\ Ticks \in Nat

VARIABLES
    knobs,      \* ceiling, yielding, stop; last_util is only reported
    figure,     \* last_foreign_util, with what it was taken from
    poll,       \* where the poll thread is
    lastSeen,   \* newest sample it has read
    present,    \* neighbours that hold a context
    busy,       \* neighbours at work
    samples,    \* what NVML took, newest last
    visible,    \* NVML knows the miner by its own process id
    ask,        \* where the driver is in should_throttle, and what it read
    setting     \* where the reader is in apply_config

deviceVars == <<present, busy, samples, visible>>
pollVars   == <<figure, poll, lastSeen>>
govVars    == <<knobs, pollVars, deviceVars, ask, setting>>

Clamp(v, lo, hi) == IF v < lo THEN lo ELSE IF v > hi THEN hi ELSE v

\* No poll has found any foreign load; where a zero came from tells nothing.
NoFigure == [value |-> 0, how |-> "none"]
Idle     == [at |-> "idle", yielding |-> FALSE]

\* NVML may not come up, or may not know the bus id: then nothing polls.
GovInit ==
    /\ \E yielding \in BOOLEAN :
           knobs = [ceiling |-> Clamp(CliCeiling, 1, 100), yielding |-> yielding,
                    stop |-> FALSE]
    /\ figure = NoFigure
    /\ poll \in {"check", "exited"}
    /\ lastSeen = 0
    /\ present = {} /\ busy = {}
    /\ samples = <<>>
    /\ visible \in BOOLEAN
    /\ ask = [at |-> "idle", figure |-> NoFigure, verdict |-> FALSE]
    /\ setting = Idle

-----------------------------------------------------------------------------
(* The device. *)

\* A neighbour's context comes or goes, and it starts or stops working.
NeighbourMoves(n) ==
    /\ present' \in {present \cup {n}, present \ {n}}
    /\ busy' \in {busy \cup {n}, busy \ {n}}
    /\ busy' \subseteq present'
    /\ <<present, busy>>' # <<present, busy>>
    /\ UNCHANGED <<knobs, pollVars, samples, visible, ask, setting>>

Sm(p) == IF p = Self THEN OwnLoad ELSE IF p \in busy THEN Load ELSE 0

\* NVML samples a process that has a context.
Sampled(p) ==
    /\ Cardinality(DOMAIN samples) < Ticks
    /\ p \in present \cup {Self}
    /\ samples' = [t \in 1..(Cardinality(DOMAIN samples) + 1) |->
           IF t \in DOMAIN samples THEN samples[t] ELSE [pid |-> p, sm |-> Sm(p)]]
    /\ UNCHANGED <<knobs, pollVars, present, busy, visible, ask, setting>>

-----------------------------------------------------------------------------
(* foreign_sm_util and foreign_utilization. *)

\* Samples that process_utilization_stats returns: those newer than since.
Since(since) == {t \in DOMAIN samples : t > since}

\* Bug: every buffered sample counts.
ForeignSmUtilRaw(read) ==
    LET foreign == {t \in read : samples[t].pid # Self}
    IN  Clamp(MapThenSumSet(LAMBDA t : samples[t].sm, foreign), 0, 100)

\* The newest sample of every process but ourselves, summed and clamped.
ForeignSmUtil(read) ==
    LET newest == {t \in read : \A u \in read : samples[u].pid = samples[t].pid => u <= t}
        foreign == {t \in newest : samples[t].pid # Self}
    IN  Clamp(MapThenSumSet(LAMBDA t : samples[t].sm, foreign), 0, 100)

DeviceUtil == Clamp(OwnLoad + Load * Cardinality(busy), 0, 100)

\* Bug: last_seen stays where it is.
NewestOfNone(read) == lastSeen

\* last_seen, past every sample considered.
NewestOf(read) == Max(read \cup {lastSeen})

\* A figure is stored, with the attribution that gave it.
StoreFigure(value, how) ==
    figure' = IF value = 0 THEN NoFigure ELSE [value |-> value, how |-> how]

-----------------------------------------------------------------------------
(* poll_loop. *)

PollTo(label) == poll' = label

PollCheck ==
    /\ poll = "check"
    /\ PollTo(IF knobs.stop THEN "exited" ELSE "yielding")
    /\ UNCHANGED <<knobs, figure, lastSeen, deviceVars, ask, setting>>

PollYielding ==
    /\ poll = "yielding"
    /\ IF knobs.yielding
       THEN PollTo("list") /\ UNCHANGED figure
       ELSE PollTo("check") /\ figure' = NoFigure
    /\ UNCHANGED <<knobs, lastSeen, deviceVars, ask, setting>>

\* The compute processes: fewer than two, or a failed call, is nobody to yield
\* to.
PollList ==
    /\ poll = "list"
    /\ \/ /\ StoreFigure(0, "Alone")
          /\ PollTo("check")
       \/ /\ present # {}
          /\ PollTo(IF visible THEN "stats" ELSE "rates")
          /\ UNCHANGED figure
    /\ UNCHANGED <<knobs, lastSeen, deviceVars, ask, setting>>

\* Per-process samples, for a miner that found itself in the list.
PollStats ==
    /\ poll = "stats"
    /\ \/ /\ StoreFigure(ForeignSmUtil(Since(lastSeen)), "PerProcess")
          /\ lastSeen' = NewestOf(Since(lastSeen))
          /\ PollTo("check")
       \/ PollTo("rates") /\ UNCHANGED <<figure, lastSeen>>
    /\ UNCHANGED <<knobs, deviceVars, ask, setting>>

\* Whole-device utilization, which counts the miner too; zero when refused.
PollRates ==
    /\ poll = "rates"
    /\ \E value \in {0, DeviceUtil} : StoreFigure(value, "WholeDevice")
    /\ PollTo("check")
    /\ UNCHANGED <<knobs, lastSeen, deviceVars, ask, setting>>

Poll == PollCheck \/ PollYielding \/ PollList \/ PollStats \/ PollRates

\* stop, or the drop of the governor: the join waits for poll to be "exited".
Stop ==
    /\ ~knobs.stop
    /\ ask.at = "idle" /\ setting.at = "idle"
    /\ knobs' = [knobs EXCEPT !.stop = TRUE]
    /\ UNCHANGED <<pollVars, deviceVars, ask, setting>>

-----------------------------------------------------------------------------
(* should_throttle: yielding, then the figure, then the ceiling. *)

\* Whatever is loaded after a yielding flag that is off, the answer is no.
AskYielding ==
    /\ ask.at = "idle" /\ ~knobs.stop
    /\ ask' = [at |-> IF knobs.yielding THEN "figure" ELSE "idle",
               figure |-> NoFigure, verdict |-> FALSE]
    /\ UNCHANGED <<knobs, pollVars, deviceVars, setting>>

AskFigure ==
    /\ ask.at = "figure"
    /\ ask' = [ask EXCEPT !.at = "ceiling", !.figure = figure]
    /\ UNCHANGED <<knobs, pollVars, deviceVars, setting>>

AskCeiling ==
    /\ ask.at = "ceiling"
    /\ ask' = [ask EXCEPT !.at = "idle",
                          !.verdict = ask.figure.value > knobs.ceiling]
    /\ UNCHANGED <<knobs, pollVars, deviceVars, setting>>

-----------------------------------------------------------------------------
(* apply_config: the overrides are worked out from the knobs, which no other *)
(* thread stores to, then stored one after the other.  A text that does not  *)
(* parse overrides nothing.                                                  *)

StoreCeiling ==
    /\ setting.at = "idle" /\ ~knobs.stop
    /\ \E ceiling \in Override \cup {knobs.ceiling} :
           knobs' = [knobs EXCEPT !.ceiling = Clamp(ceiling, 1, 100)]
    /\ \E yielding \in BOOLEAN : setting' = [at |-> "yielding", yielding |-> yielding]
    /\ UNCHANGED <<pollVars, deviceVars, ask>>

StoreYielding ==
    /\ setting.at = "yielding"
    /\ knobs' = [knobs EXCEPT !.yielding = setting.yielding]
    /\ setting' = Idle
    /\ UNCHANGED <<pollVars, deviceVars, ask>>

-----------------------------------------------------------------------------
GovNext ==
    \/ \E n \in Neighbour : NeighbourMoves(n)
    \/ \E p \in Neighbour \cup {Self} : Sampled(p)
    \/ Poll \/ Stop
    \/ AskYielding \/ AskFigure \/ AskCeiling
    \/ StoreCeiling \/ StoreYielding

\* The poll thread is scheduled and its NVML calls return.
GovFairness == WF_govVars(Poll)

GovSpec == GovInit /\ [][GovNext]_govVars /\ GovFairness

-----------------------------------------------------------------------------
\* The load that neighbours may have put on the device at any one time.
MostForeign == Clamp(Load * Cardinality(Neighbour), 0, 100)

\* What should_throttle says yes to is somebody else's load: a figure that was
\* attributed per process counts no process twice and never the miner, and an
\* answer comes of a figure measured while sharing.
ThrottleJustified ==
    /\ \A f \in {figure, ask.figure} :
           f.how = "PerProcess" => f.value <= MostForeign
    /\ ask.verdict => ask.figure.how \in {"PerProcess", "WholeDevice"}

\* A miner never yields to itself for good.  Once its neighbours are gone the
\* figure falls to zero and stays there; once they have only stopped working it
\* does so too, whatever samples NVML kept of them, unless the load cannot be
\* attributed and counts the miner.
Resumed == figure.value = 0 \/ poll = "exited"

ResumesWhenQuiet ==
    /\ <>[](present = {}) => <>[]Resumed
    /\ <>[](busy = {}) => <>[](Resumed \/ figure.how = "WholeDevice")
=============================================================================
