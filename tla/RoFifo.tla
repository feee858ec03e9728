------------------------------- MODULE RoFifo -------------------------------
(***************************************************************************)
(* What the command queue promises to its users: every handle is a bounded *)
(* first-in first-out channel to the transport.  Commands enter in         *)
(* batches, one per active lane, leave one by one at the other end, and    *)
(* nothing else ever happens to them.                                      *)
(***************************************************************************)
EXTENDS Integers, Sequences

CONSTANTS Handle, QueueOf, MaxBatch, Capacity

VARIABLES
  submitted,   \* submitted[h]: how many commands entered through handle h
  pending,     \* pending[h]: the commands on their way, oldest first
  q            \* the requests the transport has not completed

vars == <<submitted, pending, q>>

Init ==
  /\ submitted = [h \in Handle |-> 0]
  /\ pending = [h \in Handle |-> <<>>]
  /\ q = <<>>

\* n new commands, numbered consecutively, are appended together.
Submit(h, n) ==
  /\ Len(pending[h]) + n <= Capacity
  /\ submitted' = [submitted EXCEPT ![h] = @ + n]
  /\ \A g \in Handle \ {h} : pending'[g] = pending[g]
  /\ Len(pending'[h]) = Len(pending[h]) + n
  /\ SubSeq(pending'[h], 1, Len(pending[h])) = pending[h]
  /\ \A j \in 1 .. n :
       LET e == pending'[h][Len(pending[h]) + j] IN
       e.hnd = h /\ e.idx = submitted[h] + j - 1
  /\ UNCHANGED q

\* The oldest command of h reaches the transport.
Deliver(h) ==
  /\ pending[h] # <<>>
  /\ q' = Append(q, [elem |-> Head(pending[h]), queue |-> QueueOf[h]])
  /\ pending' = [pending EXCEPT ![h] = Tail(@)]
  /\ UNCHANGED submitted

\* The transport completes a request.
Complete(i) ==
  /\ q' = SubSeq(q, 1, i - 1) \o SubSeq(q, i + 1, Len(q))
  /\ UNCHANGED <<submitted, pending>>

Next ==
  \/ \E h \in Handle, n \in 1 .. MaxBatch : Submit(h, n)
  \/ \E h \in Handle : Deliver(h)
  \/ \E i \in 1 .. Len(q) : Complete(i)

Spec == Init /\ [][Next]_vars
=============================================================================
