----------------------------- MODULE IpcBarrier -----------------------------
(***************************************************************************)
(* IPCContext::internal_direct_barrier, the barrier of the IPC backend for *)
(* fewer than 64 PEs; sync, sync_all and barrier_all run it in the first   *)
(* work-item of the work-group.                                            *)
(*                                                                         *)
(* Every PE has an array pSync in its work buffer that the others can      *)
(* store to.  A store of another PE, a load and a store of one's own are   *)
(* single steps; the fences of the code order them.                        *)
(***************************************************************************)
EXTENDS IpcTeam

VARIABLES
  pSync,     \* pSync[p][s]: entry s of the array of PE p
  stage,     \* stage[p]: where PE p is
  peer,      \* the loop variable i of PE 0
  entered,   \* history: barriers PE p has entered
  left       \* history: barriers PE p has left

directVars == <<pSync, stage, peer, entered, left>>

TypeOK ==
  /\ pSync \in [Offset -> [Offset -> {SYNC_VALUE, flag_val}]]
  /\ stage \in [Offset -> {"idle", "collect", "clear", "announce", "wait", "reset"}]
  /\ peer \in 1 .. n_pes
  /\ entered \in [Offset -> Nat]
  /\ left \in [Offset -> Nat]

DirectInit ==
  /\ pSync = [p \in Offset |-> [s \in Offset |-> SYNC_VALUE]]
  /\ stage = [p \in Offset |-> "idle"]
  /\ peer = 1
  /\ entered = [p \in Offset |-> 0]
  /\ left = [p \in Offset |-> 0]

-----------------------------------------------------------------------------
(***************************************************************************)
(* PE 0.                                                                   *)
(***************************************************************************)
Enter0 ==
  /\ stage[0] = "idle"
  /\ entered[0] < MaxRounds
  /\ entered' = [entered EXCEPT ![0] = @ + 1]
  /\ stage' = [stage EXCEPT ![0] = "collect"]
  /\ peer' = 1
  /\ UNCHANGED <<pSync, left>>

\* wait_until(&pSync[i], EQ, flag_val)
Collect ==
  /\ stage[0] = "collect"
  /\ peer < n_pes
  /\ pSync[0][peer] = flag_val
  /\ stage' = [stage EXCEPT ![0] = "clear"]
  /\ UNCHANGED <<pSync, peer, entered, left>>

\* Mutant: the flag of the arrival stays set.
ClearKept ==
  /\ stage[0] = "clear"
  /\ stage' = [stage EXCEPT ![0] = "collect"]
  /\ peer' = peer + 1
  /\ UNCHANGED <<pSync, entered, left>>

\* pSync[i] = ROCSHMEM_SYNC_VALUE, and the next turn of the loop
Clear ==
  /\ stage[0] = "clear"
  /\ pSync' = [pSync EXCEPT ![0][peer] = SYNC_VALUE]
  /\ stage' = [stage EXCEPT ![0] = "collect"]
  /\ peer' = peer + 1
  /\ UNCHANGED <<entered, left>>

AllCollected ==
  /\ stage[0] = "collect"
  /\ peer = n_pes
  /\ stage' = [stage EXCEPT ![0] = "announce"]
  /\ peer' = 1
  /\ UNCHANGED <<pSync, entered, left>>

\* Mutant: off by one, the last PE is not told.
AnnounceAllButLast ==
  /\ stage[0] = "announce"
  /\ peer < n_pes
  /\ pSync' = IF peer = n_pes - 1 THEN pSync ELSE [pSync EXCEPT ![peer][0] = flag_val]
  /\ peer' = peer + 1
  /\ UNCHANGED <<stage, entered, left>>

\* internal_putmem(&pSync[0], &flag_val, ...) to the PE at offset i
Announce ==
  /\ stage[0] = "announce"
  /\ peer < n_pes
  /\ pSync' = [pSync EXCEPT ![peer][0] = flag_val]
  /\ peer' = peer + 1
  /\ UNCHANGED <<stage, entered, left>>

Leave0 ==
  /\ stage[0] = "announce"
  /\ peer = n_pes
  /\ stage' = [stage EXCEPT ![0] = "idle"]
  /\ left' = [left EXCEPT ![0] = @ + 1]
  /\ UNCHANGED <<pSync, peer, entered>>

-----------------------------------------------------------------------------
(***************************************************************************)
(* The other PEs.                                                          *)
(***************************************************************************)

\* internal_putmem(&pSync[pe_offset], &flag_val, ...) to PE_start
Enter(p) ==
  /\ stage[p] = "idle"
  /\ entered[p] < MaxRounds
  /\ entered' = [entered EXCEPT ![p] = @ + 1]
  /\ pSync' = [pSync EXCEPT ![0][p] = flag_val]
  /\ stage' = [stage EXCEPT ![p] = "wait"]
  /\ UNCHANGED <<peer, left>>

\* wait_until(&pSync[0], EQ, flag_val)
Wait(p) ==
  /\ stage[p] = "wait"
  /\ pSync[p][0] = flag_val
  /\ stage' = [stage EXCEPT ![p] = "reset"]
  /\ UNCHANGED <<pSync, peer, entered, left>>

\* Mutant: the PE does not reset its own entry.
LeaveKept(p) ==
  /\ stage[p] = "reset"
  /\ stage' = [stage EXCEPT ![p] = "idle"]
  /\ left' = [left EXCEPT ![p] = @ + 1]
  /\ UNCHANGED <<pSync, peer, entered>>

\* pSync[0] = ROCSHMEM_SYNC_VALUE
Leave(p) ==
  /\ stage[p] = "reset"
  /\ pSync' = [pSync EXCEPT ![p][0] = SYNC_VALUE]
  /\ stage' = [stage EXCEPT ![p] = "idle"]
  /\ left' = [left EXCEPT ![p] = @ + 1]
  /\ UNCHANGED <<peer, entered>>

Root == Enter0 \/ Collect \/ Clear \/ AllCollected \/ Announce \/ Leave0
Peer(p) == Enter(p) \/ Wait(p) \/ Leave(p)

\* All PEs are back from the last barrier.
DirectFinished ==
  /\ \A p \in Offset : stage[p] = "idle" /\ entered[p] = MaxRounds
  /\ UNCHANGED directVars

DirectNext == Root \/ (\E p \in Other : Peer(p)) \/ DirectFinished

DirectSpec == DirectInit /\ [][DirectNext]_directVars

\* Every PE runs on a GPU of its own and its work-item is never descheduled.
FairDirectSpec ==
  DirectSpec /\ WF_directVars(Root) /\ \A p \in Other : WF_directVars(Peer(p))

-----------------------------------------------------------------------------
(***************************************************************************)
(* Properties.                                                             *)
(***************************************************************************)

\* No PE returns from its n-th barrier before every PE has entered its n-th
\* barrier, although the PEs reuse the same pSync entries in every round and a
\* fast PE may be in the next barrier while others are still in this one.
Separation == \A p, s \in Offset : left[p] <= entered[s]

\* The direct barrier implements the abstract one.
Abstract == INSTANCE Barrier WITH PE <- Offset
ImplementsBarrier == Abstract!Spec

\* Every PE that enters a barrier leaves it.
EveryoneLeaves == \A p \in Offset : entered[p] > left[p] ~> entered[p] = left[p]

-----------------------------------------------------------------------------
(***************************************************************************)
(* The inductive invariant.  The flags count: what PE 0 has collected from *)
(* p lies between what it has told p and what p has entered.               *)
(***************************************************************************)

\* Rounds for which PE 0 has cleared the arrival of p.
Collected(p) ==
  left[0] + (IF stage[0] = "announce" \/ (stage[0] \in {"collect", "clear"} /\ p < peer)
             THEN 1 ELSE 0)

\* Rounds for which PE 0 has told p to go on.
Told(p) == left[0] + (IF stage[0] = "announce" /\ p < peer THEN 1 ELSE 0)

PeerInv(p) ==
  /\ stage[p] \in {"idle", "wait", "reset"}
  /\ pSync[0][p] = entered[p] - Collected(p)
  /\ pSync[p][0] = Told(p) - left[p]
  /\ Told(p) >= left[p]
  /\ entered[p] = left[p] + (IF stage[p] = "idle" THEN 0 ELSE 1)
  /\ stage[p] = "reset" => pSync[p][0] = flag_val

RootInv ==
  /\ stage[0] \in {"idle", "collect", "clear", "announce"}
  /\ entered[0] = left[0] + (IF stage[0] = "idle" THEN 0 ELSE 1)
  /\ stage[0] = "clear" => peer < n_pes /\ pSync[0][peer] = flag_val

IInv == TypeOK /\ RootInv /\ \A p \in Other : PeerInv(p)
=============================================================================
