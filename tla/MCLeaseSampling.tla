-------------------------- MODULE MCLeaseSampling --------------------------
(***************************************************************************)
(* LeaseSampling for TLC: a lease of several chunks and one of a single     *)
(* salt.                                                                    *)
(***************************************************************************)
EXTENDS LeaseSampling

CONSTANTS l1, l2, SaltsOfL1

MCSalts == [l \in Lease |-> IF l = l1 THEN SaltsOfL1 ELSE 1]
=============================================================================
