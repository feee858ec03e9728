------------------------------ MODULE IpcTeam ------------------------------
(***************************************************************************)
(* What the two barriers of the IPC backend have in common.  A PE is named *)
(* by its offset in the team, so PE 0 is PE_start.                         *)
(***************************************************************************)
EXTENDS Integers

CONSTANTS
  n_pes,      \* PEs of the team
  MaxRounds   \* bound: barriers every PE takes part in

ASSUME BarrierAssumption == n_pes \in Nat \ {0} /\ MaxRounds \in Nat

Offset == 0 .. n_pes - 1
Other  == 1 .. n_pes - 1

SYNC_VALUE == 0
flag_val   == 1
=============================================================================
