------------------------------ MODULE SlotQueue ------------------------------
(***************************************************************************)
(* What a self-feeding session promises the driver around it: every nonce  *)
(* is a queue of at most two jobs (ACTIVE, then NEXT).  Jobs enter at the  *)
(* back and are answered at the front, with their own samples or with a    *)
(* rejection; giving the session up rejects everything it still holds.     *)
(* Slots, streams, control words and blocks are not visible here.          *)
(***************************************************************************)
EXTENDS Integers, Sequences

CONSTANTS Width, Job, Unanswered, Rejected

Nonce == 1..Width
Depth == 2

VARIABLES
    queue,      \* the jobs each nonce holds, oldest first
    unseen,     \* jobs the session has not been handed
    out         \* the answer of each job

vars == <<queue, unseen, out>>

Queued(n, j) == \E i \in 1..Len(queue[n]) : queue[n][i] = j

Init ==
    /\ queue = [n \in Nonce |-> <<>>]
    /\ unseen = Job
    /\ out = [j \in Job |-> Unanswered]

Enqueue(n, j) ==
    /\ j \in unseen
    /\ Len(queue[n]) < Depth
    /\ queue' = [queue EXCEPT ![n] = Append(@, j)]
    /\ unseen' = unseen \ {j}
    /\ UNCHANGED out

Refuse(j) ==
    /\ j \in unseen
    /\ unseen' = unseen \ {j}
    /\ out' = [out EXCEPT ![j] = Rejected]
    /\ UNCHANGED queue

Answer(n) ==
    /\ queue[n] # <<>>
    /\ \E a \in {Head(queue[n]), Rejected} : out' = [out EXCEPT ![Head(queue[n])] = a]
    /\ queue' = [queue EXCEPT ![n] = Tail(@)]
    /\ UNCHANGED unseen

GiveUp ==
    /\ out' = [j \in Job |-> IF \E n \in Nonce : Queued(n, j) THEN Rejected ELSE out[j]]
    /\ queue' = [n \in Nonce |-> <<>>]
    /\ UNCHANGED unseen

Next ==
    \/ \E n \in Nonce : Answer(n) \/ \E j \in Job : Enqueue(n, j)
    \/ \E j \in Job : Refuse(j)
    \/ GiveUp

Spec == Init /\ [][Next]_vars
=============================================================================
