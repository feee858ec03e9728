-------------------------- MODULE IpcAtomicBarrier --------------------------
(***************************************************************************)
(* IPCContext::internal_atomic_barrier, the barrier of the IPC backend for *)
(* 64 PEs and more: the arrivals are counted by amo_add on pSync[0] of     *)
(* PE_start instead of being flagged one by one.                           *)
(*                                                                         *)
(* pSync lives in the work and sync buffer.  internal_putmem translates an *)
(* address with the bases of that buffer, amo_add with the bases of the    *)
(* symmetric heap, so an amo_add reaches pSync[0] of PE_start only when    *)
(* the two buffers are equally far apart in the two mappings.  Both are    *)
(* separate allocations, opened separately by hipIpcOpenMemHandle, so the  *)
(* distances are up to the allocator: the layout is any of Layouts.        *)
(***************************************************************************)
EXTENDS IpcTeam, FiniteSets

CONSTANT Layouts   \* what the allocators may do

ASSUME LayoutAssumption == Layouts \subseteq [Other -> [own : Int, root : Int]]

VARIABLES
  layout,     \* layout[p].own: work buffer of p minus heap of p, layout[p].root:
              \* work buffer of PE 0 minus heap of PE 0, both as p maps them
  aSync,      \* aSync[p]: pSync[0] of PE p
  aStage,     \* aStage[p]: where PE p is
  aPeer,      \* the loop variable i of PE 0
  aEntered,   \* history: barriers PE p has entered
  aLeft       \* history: barriers PE p has left

atomicVars == <<layout, aSync, aStage, aPeer, aEntered, aLeft>>

AtomicInit ==
  /\ layout \in Layouts
  /\ aSync = [p \in Offset |-> SYNC_VALUE]
  /\ aStage = [p \in Offset |-> "idle"]
  /\ aPeer = 1
  /\ aEntered = [p \in Offset |-> 0]
  /\ aLeft = [p \in Offset |-> 0]

AtomicEnterBarrier(p) ==
  /\ aStage[p] = "idle"
  /\ aEntered[p] < MaxRounds
  /\ aEntered' = [aEntered EXCEPT ![p] = @ + 1]

-----------------------------------------------------------------------------
(***************************************************************************)
(* PE 0.                                                                   *)
(***************************************************************************)
AtomicEnter0 ==
  /\ AtomicEnterBarrier(0)
  /\ aStage' = [aStage EXCEPT ![0] = "count"]
  /\ UNCHANGED <<layout, aSync, aPeer, aLeft>>

\* Mutant: off by one, the last arrival is not awaited.
CountOffByOne ==
  /\ aStage[0] = "count"
  /\ aSync[0] >= n_pes - 2
  /\ aStage' = [aStage EXCEPT ![0] = "reset"]
  /\ UNCHANGED <<layout, aSync, aPeer, aEntered, aLeft>>

\* wait_until(&pSync[0], EQ, n_pes - 1)
Count ==
  /\ aStage[0] = "count"
  /\ aSync[0] = n_pes - 1
  /\ aStage' = [aStage EXCEPT ![0] = "reset"]
  /\ UNCHANGED <<layout, aSync, aPeer, aEntered, aLeft>>

\* Mutant: the first PE is told before the counter is reset.
ResetCountLate ==
  /\ aStage[0] = "reset"
  /\ \/ aPeer = 1 /\ aSync' = [aSync EXCEPT ![1] = flag_val] /\ aPeer' = 2 /\ UNCHANGED aStage
     \/ /\ aPeer = 2
        /\ aSync' = [aSync EXCEPT ![0] = SYNC_VALUE]
        /\ aStage' = [aStage EXCEPT ![0] = "announce"]
        /\ UNCHANGED aPeer
  /\ UNCHANGED <<layout, aEntered, aLeft>>

\* pSync[0] = ROCSHMEM_SYNC_VALUE
ResetCount ==
  /\ aStage[0] = "reset"
  /\ aSync' = [aSync EXCEPT ![0] = SYNC_VALUE]
  /\ aStage' = [aStage EXCEPT ![0] = "announce"]
  /\ aPeer' = 1
  /\ UNCHANGED <<layout, aEntered, aLeft>>

\* Mutant: off by one, the last PE is not told.
AtomicAnnounceAllButLast ==
  /\ aStage[0] = "announce"
  /\ aPeer < n_pes
  /\ aSync' = IF aPeer = n_pes - 1 THEN aSync ELSE [aSync EXCEPT ![aPeer] = flag_val]
  /\ aPeer' = aPeer + 1
  /\ UNCHANGED <<layout, aStage, aEntered, aLeft>>

\* internal_putmem(&pSync[0], &flag_val, ...) to the PE at offset i
AtomicAnnounce ==
  /\ aStage[0] = "announce"
  /\ aPeer < n_pes
  /\ aSync' = [aSync EXCEPT ![aPeer] = flag_val]
  /\ aPeer' = aPeer + 1
  /\ UNCHANGED <<layout, aStage, aEntered, aLeft>>

AtomicLeave0 ==
  /\ aStage[0] = "announce"
  /\ aPeer = n_pes
  /\ aStage' = [aStage EXCEPT ![0] = "idle"]
  /\ aLeft' = [aLeft EXCEPT ![0] = @ + 1]
  /\ aPeer' = 1
  /\ UNCHANGED <<layout, aSync, aEntered>>

-----------------------------------------------------------------------------
(***************************************************************************)
(* The other PEs.                                                          *)
(***************************************************************************)

\* ipc_bases[PE_start] + (&pSync[0] - ipc_bases[my_pe]) is pSync[0] of PE 0.
Reaches(p) == layout[p].own = layout[p].root
AllReach == \A p \in Other : Reaches(p)

\* amo_add<int64_t>(&pSync[0], flag_val, PE_start)
AtomicEnter(p) ==
  /\ AtomicEnterBarrier(p)
  /\ aSync' = IF Reaches(p) THEN [aSync EXCEPT ![0] = @ + flag_val] ELSE aSync
  /\ aStage' = [aStage EXCEPT ![p] = "wait"]
  /\ UNCHANGED <<layout, aPeer, aLeft>>

\* wait_until(&pSync[0], EQ, flag_val)
AtomicWait(p) ==
  /\ aStage[p] = "wait"
  /\ aSync[p] = flag_val
  /\ aStage' = [aStage EXCEPT ![p] = "reset"]
  /\ UNCHANGED <<layout, aSync, aPeer, aEntered, aLeft>>

\* Mutant: the PE does not reset its own entry.
AtomicLeaveKept(p) ==
  /\ aStage[p] = "reset"
  /\ aStage' = [aStage EXCEPT ![p] = "idle"]
  /\ aLeft' = [aLeft EXCEPT ![p] = @ + 1]
  /\ UNCHANGED <<layout, aSync, aPeer, aEntered>>

\* pSync[0] = ROCSHMEM_SYNC_VALUE
AtomicLeave(p) ==
  /\ aStage[p] = "reset"
  /\ aSync' = [aSync EXCEPT ![p] = SYNC_VALUE]
  /\ aStage' = [aStage EXCEPT ![p] = "idle"]
  /\ aLeft' = [aLeft EXCEPT ![p] = @ + 1]
  /\ UNCHANGED <<layout, aPeer, aEntered>>

AtomicRoot == AtomicEnter0 \/ Count \/ ResetCount \/ AtomicAnnounce \/ AtomicLeave0
AtomicPeer(p) == AtomicEnter(p) \/ AtomicWait(p) \/ AtomicLeave(p)

\* All PEs are back from the last barrier.
AtomicFinished ==
  /\ \A p \in Offset : aStage[p] = "idle" /\ aEntered[p] = MaxRounds
  /\ UNCHANGED atomicVars

AtomicNext == AtomicRoot \/ (\E p \in Other : AtomicPeer(p)) \/ AtomicFinished

AtomicSpec == AtomicInit /\ [][AtomicNext]_atomicVars

\* Every PE runs on a GPU of its own and its work-item is never descheduled.
FairAtomicSpec ==
  AtomicSpec /\ WF_atomicVars(AtomicRoot) /\ \A p \in Other : WF_atomicVars(AtomicPeer(p))

-----------------------------------------------------------------------------
(***************************************************************************)
(* Properties.                                                             *)
(***************************************************************************)

\* An early arrival of the next round is never wiped by the reset of this one
\* and never counted for it: the counter of PE 0 is exactly the number of PEs
\* that have entered a round PE 0 has not collected yet and whose amo_add
\* reaches it.
CounterExact ==
  aSync[0] = Cardinality({p \in Other :
               Reaches(p) /\ aEntered[p] > aLeft[0] + (IF aStage[0] = "announce" THEN 1 ELSE 0)})

\* internal_atomic_barrier implements the abstract barrier in every layout: a PE
\* leaves its n-th barrier only when every PE has entered its n-th barrier.
AtomicAbstract == INSTANCE Barrier WITH PE <- Offset, entered <- aEntered, left <- aLeft
AtomicImplementsBarrier == AtomicAbstract!Spec

\* One PE whose amo_add goes astray closes the barrier for good: a PE has left
\* internal_atomic_barrier only if every PE reaches the counter.
OpensOnlyWhenAllReach == (\E p \in Offset : aLeft[p] > 0) => AllReach

\* Where every amo_add reaches the counter, every PE that enters the barrier
\* leaves it: internal_atomic_barrier blocks the caller until the barrier is
\* resolved, and no longer.
AtomicEveryoneLeaves == \A p \in Offset : AllReach /\ aEntered[p] > aLeft[p] ~> aEntered[p] = aLeft[p]
=============================================================================
