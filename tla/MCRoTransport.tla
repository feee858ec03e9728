--------------------------- MODULE MCRoTransport ---------------------------
(***************************************************************************)
(* Instances of RoTransport.                                               *)
(***************************************************************************)
EXTENDS RoTransport

\* As many status bytes as there are work-items.
AllBytes == 0 .. NumQueues * MAX_THREADS_PER_BLOCK - 1
=============================================================================
