-------------------------- MODULE MCStreamDriver --------------------------
(***************************************************************************)
(* StreamDriver for TLC: jobs of two generations that run on two kinds of  *)
(* session, one no session can hold and one with an empty graph.           *)
(***************************************************************************)
EXTENDS StreamDriver, TLC

CONSTANTS a1, a2, a3, b, big, empty

MCGen == [j \in Job |-> IF j = a1 THEN 1 ELSE 2]
MCKey == [j \in Job |-> CASE j = b     -> "B"
                          [] j = big   -> Refused
                          [] j = empty -> EmptyGraph
                          [] OTHER     -> "A"]

Symmetry == Permutations({a2, a3})
=============================================================================
