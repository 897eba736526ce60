----------------------------- MODULE ScreenPolicy -----------------------------
(***************************************************************************)
(* The selector of a screened lease (src/src/screen_policy.rs): which salts *)
(* of a chunk go on to a full solve, by an estimator per topology and probe *)
(* shape that all leases share.  The lease whose turn it is and the session *)
(* reader that applies a configuration meet at the selector's mutex, which  *)
(* is held for one call at a time: a chunk is decided, solved and recorded  *)
(* while the configuration changes under it.                                *)
(*                                                                         *)
(* Energies are left out: a probe hits the live target or not, and a cutoff *)
(* that exists keeps it or not.  There is one topology.                     *)
(***************************************************************************)
EXTENDS Screening

CONSTANTS
    Update,         \* screen tables a backend_toml may hold
    NoKey,          \* the selector key of a lease that does not screen
    MinSamples,     \* observations before there is a cutoff: 200
    KeptMax,        \* recorded energies a selection keeps: 256
    Chunk           \* bound: salts of a chunk that are solved in full

ASSUME PolicyAssumption ==
    /\ MinSamples \in Nat \ {0} /\ KeptMax \in Nat \ {0} /\ Chunk \in Nat \ {0}

VARIABLES
    config,         \* the selector's configuration
    selections,     \* its estimators, by key: None or a Selection
    lease,          \* what the lease at work is doing, and with which key
    pending         \* salts it will solve in full, by decision

policyVars == <<config, selections, lease, pending>>

-----------------------------------------------------------------------------
(* ScreenConfig. *)

DefaultConfig == [enabled |-> TRUE, keep_denominator |-> 16, audit_denominator |-> 200,
                  probe_reads_log2 |-> 2, probe_sweeps |-> 512]

Fields == DOMAIN DefaultConfig

Within(value, lo, hi) == value \in Nat /\ lo <= value /\ value <= hi

\* checked_value, and the audit denominator that would audit every reject.
Accepted(field, value) ==
    \/ field = "enabled"
    \/ field = "keep_denominator"  /\ Within(value, 2, 100000)
    \/ field = "audit_denominator" /\ Within(value, 0, 1000000) /\ value # 1
    \/ field = "probe_reads_log2"  /\ Within(value, 2, 5)
    \/ field = "probe_sweeps"      /\ Within(value, 1, MAX_PROBE_SWEEPS)

\* Fields that are given and in range replace the previous value.
Merge(cfg, update) ==
    [f \in Fields |->
        IF f \in DOMAIN update /\ Accepted(f, update[f]) THEN update[f] ELSE cfg[f]]

\* Threads of a block are not configured.
ProbeThreads == 256

\* SelectorKey: the probe shape, for the one topology.
Key(cfg) == <<cfg.probe_reads_log2, cfg.probe_sweeps>>

AllKeys == {<<r, s>> : r \in 2..5,
                s \in {DefaultConfig.probe_sweeps} \cup
                      {u["probe_sweeps"] : u \in {v \in Update : "probe_sweeps" \in DOMAIN v}}}

-----------------------------------------------------------------------------
(* Selection and its cutoff. *)

None == [observed |-> -1]

\* Selection::new: an estimator for the keep denominator in force.
NewSelection(cfg) ==
    [observed |-> 0, keep |-> cfg.keep_denominator, kept |-> 0, audits |-> 0]

Least(a, b) == IF a <= b THEN a ELSE b

\* A cutoff observes one probe.  What matters of the count is whether there is
\* a cutoff yet.
Observe(s) == [s EXCEPT !.observed = Least(@ + 1, MinSamples)]

\* record_full of a kept salt: the oldest of KeptMax energies makes room.
RecordKept(s) == [s EXCEPT !.kept = Least(@ + 1, KeptMax)]

\* Of an audited one: compared with the median of those, if there are any.
RecordAudit(s) == [s EXCEPT !.audits = 1]

\* Bug: a changed keep denominator leaves the estimators in place.
ResetsShapeOnly(before, after) == Key(before) # Key(after)

Resets(before, after) ==
    \/ before.keep_denominator # after.keep_denominator
    \/ Key(before) # Key(after)

-----------------------------------------------------------------------------
NoPending == [keep |-> 0, audit |-> 0]

PolicyInit ==
    /\ config = DefaultConfig
    /\ selections = [k \in AllKeys |-> None]
    /\ lease = [at |-> "waiting", key |-> NoKey]
    /\ pending = NoPending

\* The reader applies a screen table.
Reconfigure ==
    /\ \E update \in Update :
           /\ config' = Merge(config, update)
           /\ selections' = IF Resets(config, config')
                            THEN [k \in AllKeys |-> None]
                            ELSE selections
    /\ UNCHANGED <<lease, pending>>

\* A lease has its turn: it screens for as long as it works if the screen is
\* enabled now and its domain admits the topology, with the probe shape of now.
LeaseOpens ==
    /\ lease.at = "waiting"
    /\ \/ /\ config.enabled
          /\ lease' = [at |-> "probing", key |-> Key(config)]
       \/ lease' = [at |-> "probing", key |-> NoKey]
    /\ UNCHANGED <<config, selections, pending>>

\* The lease's own decision on one probe of the chunk: its estimator is made if
\* it is missing, decides on the cutoff it had before, then observes.
Decide ==
    /\ lease.at = "probing" /\ lease.key # NoKey /\ config.enabled
    /\ pending.keep + pending.audit < Chunk
    /\ LET found     == selections[lease.key]
           selection == IF found = None THEN NewSelection(config) ELSE found
       IN  /\ selections' = [selections EXCEPT ![lease.key] = Observe(selection)]
           /\ \E hitsTarget, belowCutoff, audited \in BOOLEAN :
                  LET keeps == hitsTarget \/ (belowCutoff /\ selection.observed >= MinSamples)
                      audits == ~keeps /\ audited /\ config.audit_denominator # 0
                  IN  pending' = [keep  |-> pending.keep + IF keeps THEN 1 ELSE 0,
                                  audit |-> pending.audit + IF audits THEN 1 ELSE 0]
    /\ UNCHANGED <<config, lease>>

\* A disabled selector keeps every salt and observes none; a lease without a
\* screen does not ask it.
KeepAll ==
    /\ lease.at = "probing"
    /\ lease.key = NoKey \/ ~config.enabled
    /\ pending.keep + pending.audit < Chunk
    /\ pending' = [pending EXCEPT !.keep = @ + 1]
    /\ UNCHANGED <<config, selections, lease>>

\* The chunk is decided; its full solves run.
FullSolve ==
    /\ lease.at = "probing"
    /\ lease' = [lease EXCEPT !.at = "solving"]
    /\ UNCHANGED <<config, selections, pending>>

\* A full solve is delivered and recorded, if its estimator is still there; a
\* lease without a screen records nothing.
Recorded(record(_)) ==
    selections' =
        IF lease.key = NoKey \/ selections[lease.key] = None THEN selections
        ELSE [selections EXCEPT ![lease.key] = record(@)]

RecordFull ==
    /\ lease.at = "solving"
    /\ \/ /\ pending.keep > 0
          /\ pending' = [pending EXCEPT !.keep = @ - 1]
          /\ Recorded(RecordKept)
       \/ /\ pending.audit > 0
          /\ pending' = [pending EXCEPT !.audit = @ - 1]
          /\ Recorded(RecordAudit)
    /\ UNCHANGED <<config, lease>>

\* The next chunk, or the end of the lease: a stop or a failure drops what is
\* pending without recording it.
ChunkEnds ==
    /\ lease.at = "solving"
    /\ \/ pending = NoPending /\ lease' = [lease EXCEPT !.at = "probing"]
       \/ lease' = [at |-> "waiting", key |-> NoKey]
    /\ pending' = NoPending
    /\ UNCHANGED <<config, selections>>

PolicyNext ==
    \/ Reconfigure \/ LeaseOpens \/ Decide \/ KeepAll
    \/ FullSolve \/ RecordFull \/ ChunkEnds

PolicySpec == PolicyInit /\ [][PolicyNext]_policyVars

-----------------------------------------------------------------------------
\* Denominators of a cutoff, in quarters: it starts at keep_min and is clamped
\* between keep_min and keep_max, which must be a range that holds its target.
KeepMin(d) == IF d < 8 THEN 8 ELSE d
KeepMax(d) == 16 * d

\* Whatever an operator writes in the middle of a chunk, between a decision and
\* its record or between leases, an estimator decides for the keep denominator
\* in force, which lies inside its clamp, and no change leaves one behind that
\* was made for another; a lease that opens has a probe the domain admits, and
\* not every reject is audited.
SelectorSound ==
    /\ \A k \in AllKeys :
           selections[k] # None => selections[k].keep = config.keep_denominator
    /\ KeepMin(config.keep_denominator) <= 4 * config.keep_denominator
    /\ 4 * config.keep_denominator <= KeepMax(config.keep_denominator)
    /\ config.audit_denominator # 1
    /\ lease.key # NoKey => ShapeOk(lease.key[1], lease.key[2], ProbeThreads)
=============================================================================
