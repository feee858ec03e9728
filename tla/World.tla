------------------------------- MODULE World -------------------------------
(***************************************************************************)
(* The PEs of one run of a program, and the instructions about all of them.*)
(***************************************************************************)
EXTENDS Instructions

CONSTANT num_pes   \* number of PEs

PE == 0 .. num_pes - 1
AllPEs == [start |-> 0, stride |-> 1, size |-> num_pes]
Drain == DrainTo(PE)
Flushed == FlushTo(PE)
=============================================================================
