--------------------------- MODULE MCSelfFeeding ---------------------------
(***************************************************************************)
(* SelfFeeding for TLC: the jobs are interchangeable in every property     *)
(* that is not a liveness property.                                        *)
(***************************************************************************)
EXTENDS SelfFeeding, TLC

JobSymmetry == Permutations(Job)
=============================================================================
