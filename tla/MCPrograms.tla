----------------------------- MODULE MCPrograms -----------------------------
(***************************************************************************)
(* The kernels and host programs of MCOneSided and of MCCollectives: what  *)
(* every PE runs in a script.                                              *)
(***************************************************************************)
EXTENDS MCOneSided, MCCollectives

Chosen == Kernels \cup Collectives

\* The scripts of MCCollectives are the tuples of seven.
IsCollective(s) == Len(s) = 7
Size(s) == IF IsCollective(s) THEN s[2] ELSE KernelSize(s)
Program(s, me) == IF IsCollective(s) THEN CollectiveProgram(s, me) ELSE KernelProgram(s, me)

\* The PEs the script does not use have nothing to do.
Programs ==
  [s \in Scripts |-> [me \in PE |-> (IF me < Size(s) THEN Program(s, me) ELSE <<>>) \o <<End>>] @@ <<>>] @@ <<>>
Arrays ==
  [s \in Scripts |-> IF IsCollective(s) THEN CollectiveArrays(s) ELSE KernelArrays(s)] @@ <<>>
MCCode == Programs
MCMemory == Arrays

(***************************************************************************)
(* A work-group stays on its compute unit until it is done, and the        *)
(* network performs what was posted.  Only the kernels of MCOneSided poll: *)
(* in the collectives every step brings a PE forward, and NobodyStuck says *)
(* the same without fairness.                                              *)
(***************************************************************************)
MCSpec == Spec /\ \A p \in PE : WF_vars(~IsCollective(script) /\ Act(p))

\* Every call of every PE returns (wait_until and its variants, signals, the
\* loops of compare and swap): no flag is lost, and nobody waits for a value
\* that was overwritten before it was seen.
KernelsReturn == IsCollective(script) \/ <>AllDone
=============================================================================
