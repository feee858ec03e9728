----------------------------- MODULE MCRoQueue -----------------------------
(***************************************************************************)
(* Instances of RoQueue.                                                   *)
(***************************************************************************)
EXTENDS RoQueue

\* One block: every wave shares the context of the block.
OneQueue == [h \in Handle |-> 0]
OneHandle == [w \in Wave |-> 0]

\* Every context has a queue of its own.
OwnQueues == [h \in Handle |-> h]

\* Each wave has a context of its own: in grid order, or the other way round
\* when the blocks happened to create their contexts in the opposite order.
HandlePerWave == [w \in Wave |-> w]
HandlesCrossed == [w \in Wave |-> 1 - w]
=============================================================================
