------------------------------ MODULE Barrier ------------------------------
(***************************************************************************)
(* What a barrier promises: a PE leaves its n-th barrier only when every   *)
(* PE has entered its n-th barrier.                                        *)
(***************************************************************************)
EXTENDS Integers

CONSTANT PE

VARIABLES
  entered,   \* entered[p]: barriers PE p has entered
  left       \* left[p]: barriers PE p has left

Init ==
  /\ entered = [p \in PE |-> 0]
  /\ left = [p \in PE |-> 0]

Enter(p) ==
  /\ entered[p] = left[p]
  /\ entered' = [entered EXCEPT ![p] = @ + 1]
  /\ UNCHANGED left

Leave(p) ==
  /\ entered[p] # left[p]
  /\ \A s \in PE : left[p] < entered[s]
  /\ left' = [left EXCEPT ![p] = @ + 1]
  /\ UNCHANGED entered

Next == \E p \in PE : Enter(p) \/ Leave(p)

Spec == Init /\ [][Next]_<<entered, left>>
=============================================================================
