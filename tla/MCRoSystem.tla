----------------------------- MODULE MCRoSystem -----------------------------
(***************************************************************************)
(* Instances of RoSystem.                                                  *)
(***************************************************************************)
EXTENDS RoSystem

\* Two contexts with a queue each; the first two waves share the first one.
OwnQueues == [h \in Handle |-> h]
TwoHandles == [w \in Wave |-> IF w < 2 THEN 0 ELSE 1]
=============================================================================
