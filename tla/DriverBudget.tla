----------------------------- MODULE DriverBudget -----------------------------
(***************************************************************************)
(* Time accounting of the stream driver (src/src/driver_budget.rs) as its   *)
(* loop uses it (src/src/streaming.rs): regions of the loop are timed and   *)
(* charged to a bucket, one at a time, and a window that is over is         *)
(* reported between two of them.  Time passes between any two readings of   *)
(* the clock.                                                               *)
(***************************************************************************)
EXTENDS Integers, FiniteSets, FiniteSetsExt

CONSTANTS
    Bucket,         \* regions of the driver's loop
    NoMark,         \* no region is open
    EnvFlag,        \* values of QUIP_DRIVER_BUDGET
    EnvWindow,      \* of QUIP_DRIVER_BUDGET_WINDOW; 0 when it does not parse
    DefaultWindow,  \* 60 seconds
    LastTime        \* bound: the clock

ASSUME BudgetAssumption ==
    /\ IsFiniteSet(Bucket)
    /\ EnvWindow \subseteq Nat /\ DefaultWindow \in Nat \ {0} /\ LastTime \in Nat

VARIABLES
    clock,
    enabled, window,    \* from_env
    windowStart,
    charged,            \* time charged to each bucket in this window
    completions,        \* jobs completed in it
    opened,             \* the open region: its bucket and when it was marked
    snapshot,           \* the window just closed, before the next one starts
    totals              \* of all reported windows: elapsed, charged, completions

budgetVars == <<clock, enabled, window, windowStart, charged, completions,
                opened, snapshot, totals>>

Zero == [b \in Bucket |-> 0]
Sum(charges) == MapThenSumSet(LAMBDA b : charges[b], Bucket)

NoSnapshot == [elapsed |-> 0, charged |-> Zero, completions |-> 0]

\* Only "1" enables the budget, and no window is empty.
BudgetInit ==
    /\ clock = 0
    /\ \E flag \in EnvFlag : enabled = (flag = "1")
    /\ \E seconds \in EnvWindow : window = IF seconds > 0 THEN seconds ELSE DefaultWindow
    /\ windowStart = 0
    /\ charged = Zero
    /\ completions = 0
    /\ opened = NoMark
    /\ snapshot = NoSnapshot
    /\ totals = [windows |-> 0, elapsed |-> 0, completions |-> 0, counted |-> 0]

Tick ==
    /\ clock < LastTime
    /\ clock' = clock + 1
    /\ UNCHANGED <<enabled, window, windowStart, charged, completions, opened,
                   snapshot, totals>>

Closing == snapshot # NoSnapshot

\* mark: a disabled budget does not read the clock.
Mark ==
    /\ enabled /\ opened = NoMark /\ ~Closing
    /\ \E b \in Bucket : opened' = [bucket |-> b, start |-> clock]
    /\ UNCHANGED <<clock, enabled, window, windowStart, charged, completions,
                   snapshot, totals>>

\* charge
Charge ==
    /\ opened # NoMark
    /\ charged' = [charged EXCEPT ![opened.bucket] = @ + (clock - opened.start)]
    /\ opened' = NoMark
    /\ UNCHANGED <<clock, enabled, window, windowStart, completions, snapshot, totals>>

\* record_completions: a slot's reads have been downloaded.
RecordCompletion ==
    /\ enabled /\ opened = NoMark /\ ~Closing
    /\ totals.counted < LastTime
    /\ completions' = completions + 1
    /\ totals' = [totals EXCEPT !.counted = @ + 1]
    /\ UNCHANGED <<clock, enabled, window, windowStart, charged, opened, snapshot>>

\* maybe_report, at the top of the loop: the window is frozen ...
CloseWindow ==
    /\ enabled /\ opened = NoMark /\ ~Closing
    /\ clock - windowStart >= window
    /\ snapshot' = [elapsed |-> clock - windowStart, charged |-> charged,
                    completions |-> completions]
    /\ totals' = [totals EXCEPT !.windows = @ + 1]
    /\ UNCHANGED <<clock, enabled, window, windowStart, charged, completions, opened>>

\* Bug: what was charged stays for the next window.
StartWindowCharged ==
    /\ Closing
    /\ completions' = 0
    /\ windowStart' = clock
    /\ snapshot' = NoSnapshot
    /\ totals' = [totals EXCEPT !.elapsed = @ + snapshot.elapsed,
                                !.completions = @ + snapshot.completions]
    /\ UNCHANGED <<clock, enabled, window, charged, opened>>

\* ... and the next one starts empty, at a later reading of the clock.
StartWindow ==
    /\ Closing
    /\ charged' = Zero
    /\ completions' = 0
    /\ windowStart' = clock
    /\ snapshot' = NoSnapshot
    /\ totals' = [totals EXCEPT !.elapsed = @ + snapshot.elapsed,
                                !.completions = @ + snapshot.completions]
    /\ UNCHANGED <<clock, enabled, window, opened>>

BudgetNext ==
    Tick \/ Mark \/ Charge \/ RecordCompletion \/ CloseWindow \/ StartWindow

BudgetSpec == BudgetInit /\ [][BudgetNext]_budgetVars

-----------------------------------------------------------------------------
\* No window accounts for more time than it has, the open region included, so
\* a share is at most one; windows do not overlap, and every completion is
\* counted in exactly one of them.
WindowsFit ==
    LET open == IF opened = NoMark THEN 0 ELSE clock - opened.start
    IN  /\ ~Closing => Sum(charged) + open <= clock - windowStart
        /\ Sum(snapshot.charged) <= snapshot.elapsed
        /\ Closing => snapshot.elapsed >= window
        /\ totals.elapsed + snapshot.elapsed <= clock
        /\ totals.completions + completions = totals.counted
        /\ totals.windows * window <= clock
=============================================================================
