----------------------------- MODULE NonceWorker -----------------------------
(***************************************************************************)
(* What the other side of the control words may rely on of one nonce: a    *)
(* single worker that claims one READY slot at a time, anneals every chunk *)
(* of its model exactly once, marks the slot COMPLETE, and at some point   *)
(* leaves for good.  SelfFeeding's Block(n) is such a worker; so are the   *)
(* blocks of a Gibbs nonce together, while their threads meet (GibbsNonce: *)
(* ImplementsWorker).                                                      *)
(***************************************************************************)
EXTENDS Integers

CONSTANTS Slot, Chunk

VARIABLES
    ctrl,       \* the status word of each slot
    annealed,   \* of the claimed model, the chunks that are done
    leaving     \* the worker claims nothing any more

vars == <<ctrl, annealed, leaving>>

Claimed == {s \in Slot : ctrl[s] = "ACTIVE"}

Init == /\ ctrl = [s \in Slot |-> "EMPTY"]
        /\ annealed = {}
        /\ leaving = FALSE

\* The host hands over a model.
Upload(s) == /\ ctrl[s] \in {"EMPTY", "COMPLETE"}
             /\ ctrl' = [ctrl EXCEPT ![s] = "READY"]
             /\ UNCHANGED <<annealed, leaving>>

Claim(s) == /\ Claimed = {}
            /\ ~leaving
            /\ ctrl[s] = "READY"
            /\ ctrl' = [ctrl EXCEPT ![s] = "ACTIVE"]
            /\ UNCHANGED <<annealed, leaving>>

Anneal(c) == /\ Claimed # {}
             /\ c \notin annealed
             /\ annealed' = annealed \cup {c}
             /\ UNCHANGED <<ctrl, leaving>>

Complete(s) == /\ s \in Claimed
               /\ annealed = Chunk
               /\ ctrl' = [ctrl EXCEPT ![s] = "COMPLETE"]
               /\ annealed' = {}
               /\ UNCHANGED leaving

Leave == /\ Claimed = {}
         /\ leaving' = TRUE
         /\ UNCHANGED <<ctrl, annealed>>

Next == \/ \E s \in Slot : Upload(s) \/ Claim(s) \/ Complete(s)
        \/ \E c \in Chunk : Anneal(c)
        \/ Leave

Spec == Init /\ [][Next]_vars
=============================================================================
