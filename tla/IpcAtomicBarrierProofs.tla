----------------------- MODULE IpcAtomicBarrierProofs -----------------------
(***************************************************************************)
(* The counting barrier is a barrier for every number of PEs and of        *)
(* rounds, wherever the allocators put the buffers; it opens only where    *)
(* every amo_add reaches the counter of PE 0.                              *)
(***************************************************************************)
EXTENDS IpcAtomicBarrier, FiniteSetTheorems, TLAPS

TypeOK ==
  /\ aSync \in [Offset -> Int]
  /\ aStage \in [Offset -> {"idle", "count", "announce", "wait", "reset"}]
  /\ aPeer \in 1 .. n_pes
  /\ aEntered \in [Offset -> Nat]
  /\ aLeft \in [Offset -> Nat]

\* Rounds whose arrivals PE 0 has taken off the counter.
Taken == aLeft[0] + (IF aStage[0] = "announce" THEN 1 ELSE 0)

\* Rounds for which PE 0 has told p to go on.
Told(p) == aLeft[0] + (IF aStage[0] = "announce" /\ p < aPeer THEN 1 ELSE 0)

\* The PEs that have entered a round PE 0 has not collected, and those of them
\* the counter stands for.
Arrived == {p \in Other : aEntered[p] > Taken}
Counted == {p \in Arrived : Reaches(p)}

RootInv ==
  /\ aStage[0] # "wait"
  /\ aEntered[0] = aLeft[0] + (IF aStage[0] = "idle" THEN 0 ELSE 1)
  /\ aStage[0] # "announce" => aPeer = 1
  /\ aStage[0] = "reset" => Counted = Other
  /\ Taken > 0 => AllReach

PeerInv(p) ==
  /\ aStage[p] \in {"idle", "wait", "reset"}
  /\ aSync[p] = Told(p) - aLeft[p]
  /\ aLeft[p] <= Told(p)
  /\ Taken <= aEntered[p] /\ aEntered[p] <= Taken + 1
  /\ aEntered[p] = aLeft[p] + (IF aStage[p] = "idle" THEN 0 ELSE 1)
  /\ aStage[p] = "reset" => aSync[p] = flag_val

IInv ==
  /\ TypeOK /\ RootInv
  /\ \A p \in Other : PeerInv(p)
  /\ aSync[0] = Cardinality(Counted)

-----------------------------------------------------------------------------
\* PE 0 and the others, and the types in one place.
LEMMA PEs == /\ 0 \in Offset /\ n_pes \in Nat \ {0} /\ \A p \in Offset : p = 0 \/ p \in Other
             /\ \A p \in Other : p \in Offset /\ p # 0 /\ p \in Nat /\ p < n_pes /\ 1 <= p
BY BarrierAssumption DEF Offset, Other

\* PE 0 waits for n_pes - 1 arrivals: there are that many other PEs.
LEMMA OthersFinite == IsFiniteSet(Other) /\ Cardinality(Other) = n_pes - 1
<1>1. n_pes \in Nat \ {0} /\ n_pes - 1 \in Int /\ 1 \in Int
      BY PEs
<1>2. /\ IsFiniteSet(1 .. n_pes - 1)
      /\ Cardinality(1 .. n_pes - 1) = IF 1 > n_pes - 1 THEN 0 ELSE (n_pes - 1) - 1 + 1
      BY <1>1, FS_Interval, Zenon
<1> QED BY <1>1, <1>2 DEF Other

\* A full counter stands for every other PE, and then all of them reach it.
LEMMA CountedFinite ==
  /\ IsFiniteSet(Counted) /\ Cardinality(Counted) \in Nat
  /\ Cardinality(Counted) = n_pes - 1 => Counted = Other
<1>1. Counted \in SUBSET Other
      BY Zenon DEF Arrived, Counted
<1> QED BY <1>1, OthersFinite, FS_Subset, FS_CardinalityType, Zenon

LEMMA CountedOther == Counted = Other => Arrived = Other /\ AllReach
BY Zenon DEF Arrived, Counted, AllReach

LEMMA InitIInv == AtomicInit => IInv
<1> SUFFICES ASSUME AtomicInit PROVE IInv
    BY Zenon
<1>1. TypeOK
      BY PEs DEF AtomicInit, TypeOK, SYNC_VALUE
<1>2. Counted = {}
      BY PEs DEF AtomicInit, Counted, Arrived, Taken
<1>3. RootInv
      BY PEs DEF AtomicInit, RootInv, Taken
<1>4. \A p \in Other : PeerInv(p)
      BY PEs DEF AtomicInit, PeerInv, Told, Taken, SYNC_VALUE
<1>5. aSync[0] = Cardinality(Counted)
      BY <1>2, PEs, FS_EmptySet, Zenon DEF AtomicInit, SYNC_VALUE
<1> QED BY <1>1, <1>3, <1>4, <1>5, Zenon DEF IInv

\* A step of PE 0 that takes no arrival off the counter leaves it as it is.
LEMMA RootStep == ASSUME IInv, AtomicRoot PROVE IInv'
<1> USE DEF SYNC_VALUE, flag_val
<1>1. /\ TypeOK /\ RootInv /\ aSync[0] = Cardinality(Counted) /\ \A p \in Other : PeerInv(p)
      BY Zenon DEF IInv
<1>2. UNCHANGED layout
      BY Zenon DEF AtomicRoot, AtomicEnter0, Count, ResetCount, AtomicAnnounce, AtomicLeave0
<1>9. AllReach' = AllReach /\ \A p \in Other : Reaches(p)' = Reaches(p)
      BY <1>2, Zenon DEF AllReach, Reaches
<1>10. ASSUME Taken' = Taken, UNCHANGED aEntered \/ \A p \in Other : aEntered'[p] = aEntered[p]
       PROVE  Counted' = Counted
      BY <1>9, <1>10, Zenon DEF Counted, Arrived
<1>3. \A p \in Offset : aLeft[p] \in Nat /\ aEntered[p] \in Nat /\ aSync[p] \in Int
      BY <1>1, Zenon DEF TypeOK
<1>4. CASE AtomicEnter0
  <2>1. /\ TypeOK' /\ aStage[0] = "idle" /\ aStage'[0] = "count" /\ aEntered'[0] = aEntered[0] + 1
        /\ \A p \in Other : aStage'[p] = aStage[p] /\ aEntered'[p] = aEntered[p]
        /\ UNCHANGED <<aSync, aPeer, aLeft>>
        BY <1>1, <1>3, <1>4, PEs DEF AtomicEnter0, AtomicEnterBarrier, TypeOK
  <2>2. Taken' = Taken /\ \A p \in Other : Told(p)' = Told(p)
        BY <2>1, Zenon DEF Taken, Told
  <2>3. Counted' = Counted
        BY <1>10, <2>1, <2>2, Zenon
  <2>4. RootInv' /\ \A p \in Other : PeerInv(p)'
        BY <1>1, <1>3, <1>9, <2>1, <2>2, PEs DEF RootInv, PeerInv
  <2> QED BY <1>1, <2>1, <2>3, <2>4, Zenon DEF IInv
<1>5. CASE Count
  <2>1. /\ TypeOK' /\ aStage[0] = "count" /\ aStage'[0] = "reset" /\ aSync[0] = n_pes - 1
        /\ \A p \in Other : aStage'[p] = aStage[p]
        /\ UNCHANGED <<aSync, aPeer, aLeft, aEntered>>
        BY <1>1, <1>3, <1>5, PEs, Zenon DEF Count, TypeOK
  <2>2. Taken' = Taken /\ \A p \in Other : Told(p)' = Told(p)
        BY <2>1, Zenon DEF Taken, Told
  <2>3. Counted' = Counted /\ Counted = Other
        BY <1>1, <1>10, <2>1, <2>2, CountedFinite, Zenon
  <2>4. RootInv' /\ \A p \in Other : PeerInv(p)'
        BY <1>1, <1>3, <1>9, <2>1, <2>2, <2>3, PEs, Zenon DEF RootInv, PeerInv
  <2> QED BY <1>1, <2>1, <2>3, <2>4, Zenon DEF IInv
<1>6. CASE ResetCount
  <2>1. /\ TypeOK' /\ aStage[0] = "reset" /\ aStage'[0] = "announce" /\ aSync'[0] = 0 /\ aPeer = 1 /\ aPeer' = 1
        /\ \A p \in Other : aStage'[p] = aStage[p] /\ aSync'[p] = aSync[p]
        /\ UNCHANGED <<aLeft, aEntered>> /\ Counted = Other
        BY <1>1, <1>3, <1>6, PEs DEF ResetCount, TypeOK, RootInv
  <2>2. Taken = aLeft[0] /\ Taken' = aLeft[0] + 1 /\ \A p \in Other : Told(p)' = Told(p)
        BY <1>3, <2>1, PEs DEF Taken, Told
  <2>3. \A p \in Other : aEntered[p] = aLeft[0] + 1
        BY <1>1, <1>3, <2>1, <2>2, CountedOther, PEs DEF Arrived, PeerInv
  <2>4. Counted' = {}
        BY <1>3, <2>1, <2>2, <2>3, PEs DEF Counted, Arrived
  <2>5. RootInv'
        BY <1>1, <1>3, <1>9, <2>1, CountedOther, PEs, Zenon DEF RootInv
  <2>6. \A p \in Other : PeerInv(p)'
        BY <1>1, <1>3, <2>1, <2>2, <2>3, PEs DEF PeerInv
  <2> QED BY <2>1, <2>4, <2>5, <2>6, FS_EmptySet, Zenon DEF IInv
<1>7. CASE AtomicAnnounce
  <2>1. /\ aStage[0] = "announce" /\ aPeer \in Other /\ aPeer' = aPeer + 1 /\ aPeer' \in 1 .. n_pes
        /\ UNCHANGED <<aStage, aLeft, aEntered>> /\ aSync' = [aSync EXCEPT ![aPeer] = 1]
        BY <1>1, <1>7, PEs DEF AtomicAnnounce, TypeOK, Other
  <2>2. TypeOK' /\ aSync'[0] = aSync[0] /\ aSync'[aPeer] = 1 /\ \A p \in Other : p # aPeer => aSync'[p] = aSync[p]
        BY <1>1, <2>1, PEs DEF TypeOK
  <2>3. Taken' = Taken /\ Taken = aLeft[0] + 1
        BY <2>1, Zenon DEF Taken
  <2>4. Counted' = Counted
        BY <1>10, <2>1, <2>3, Zenon
  <2>5. RootInv'
        BY <1>1, <1>9, <2>1, <2>3, <2>4, Zenon DEF RootInv
  <2>6. ASSUME NEW p \in Other PROVE PeerInv(p)'
    <3>1. PeerInv(p) /\ aLeft[p] \in Nat /\ aLeft[0] \in Nat /\ aEntered[p] \in Nat /\ p \in Nat /\ aPeer \in Nat
          BY <1>1, <1>3, <2>1, PEs, Zenon
    <3>2. CASE p = aPeer
      <4>1. Told(p) = aLeft[0] /\ Told(p)' = aLeft[0] + 1
            BY <2>1, <3>1, <3>2 DEF Told
      <4>2. aLeft[p] = aLeft[0]
            BY <2>3, <3>1, <4>1 DEF PeerInv
      <4> QED BY <2>1, <2>2, <2>3, <3>1, <3>2, <4>1, <4>2 DEF PeerInv
    <3>3. CASE p # aPeer
      <4>1. Told(p)' = Told(p)
            BY <2>1, <3>1, <3>3 DEF Told
      <4> QED BY <2>1, <2>2, <2>3, <3>1, <3>3, <4>1, Zenon DEF PeerInv
    <3> QED BY <3>2, <3>3, Zenon
  <2> QED BY <1>1, <2>2, <2>4, <2>5, <2>6, Zenon DEF IInv
<1>8. CASE AtomicLeave0
  <2>1. /\ TypeOK' /\ aStage[0] = "announce" /\ aStage'[0] = "idle" /\ aLeft'[0] = aLeft[0] + 1
        /\ aPeer = n_pes /\ aPeer' = 1
        /\ \A p \in Other : aStage'[p] = aStage[p] /\ aLeft'[p] = aLeft[p]
        /\ UNCHANGED <<aSync, aEntered>>
        BY <1>1, <1>3, <1>8, PEs DEF AtomicLeave0, TypeOK
  <2>2. Taken' = Taken /\ \A p \in Other : Told(p)' = Told(p)
        BY <1>3, <2>1, PEs DEF Taken, Told
  <2>3. Counted' = Counted
        BY <1>10, <2>1, <2>2, Zenon
  <2>4. RootInv' /\ \A p \in Other : PeerInv(p)'
        BY <1>1, <1>3, <1>9, <2>1, <2>2, PEs DEF RootInv, PeerInv
  <2> QED BY <1>1, <2>1, <2>3, <2>4, Zenon DEF IInv
<1> QED BY <1>4, <1>5, <1>6, <1>7, <1>8, Zenon DEF AtomicRoot

LEMMA PeerStep == ASSUME IInv, NEW s \in Other, AtomicPeer(s) PROVE IInv'
<1> USE DEF SYNC_VALUE, flag_val
<1>1. /\ TypeOK /\ RootInv /\ aSync[0] = Cardinality(Counted) /\ \A p \in Other : PeerInv(p)
      BY Zenon DEF IInv
<1>2. s \in Offset /\ s # 0 /\ 0 \in Offset
      BY PEs, Zenon
<1>8. UNCHANGED layout
      BY Zenon DEF AtomicPeer, AtomicEnter, AtomicWait, AtomicLeave
<1>9. AllReach' = AllReach /\ \A p \in Other : Reaches(p)' = Reaches(p)
      BY <1>8, Zenon DEF AllReach, Reaches
<1>3. \A p \in Offset : aLeft[p] \in Nat /\ aEntered[p] \in Nat /\ aSync[p] \in Int
      BY <1>1, Zenon DEF TypeOK
<1>4. Taken \in Nat /\ Told(s) \in Nat /\ Told(s) <= Taken
      BY <1>2, <1>3 DEF Taken, Told
<1>5. CASE AtomicEnter(s)
  <2>1. /\ aStage[s] = "idle" /\ aStage' = [aStage EXCEPT ![s] = "wait"] /\ aEntered' = [aEntered EXCEPT ![s] = @ + 1]
        /\ aSync' = IF Reaches(s) THEN [aSync EXCEPT ![0] = @ + 1] ELSE aSync
        /\ UNCHANGED <<aPeer, aLeft>>
        BY <1>5, Zenon DEF AtomicEnter, AtomicEnterBarrier
  <2>2. /\ TypeOK' /\ aStage'[s] = "wait" /\ aEntered'[s] = aEntered[s] + 1 /\ aSync'[0] = aSync[0] + IF Reaches(s) THEN 1 ELSE 0
        /\ \A p \in Offset : p # s => aStage'[p] = aStage[p] /\ aEntered'[p] = aEntered[p]
        /\ \A p \in Other : aSync'[p] = aSync[p]
        BY <1>1, <1>2, <1>3, <2>1, PEs DEF TypeOK
  <2>3. Taken' = Taken /\ \A p \in Other : Told(p)' = Told(p)
        BY <1>2, <2>1, <2>2, Zenon DEF Taken, Told
  <2>4. aEntered[s] = Taken
        BY <1>1, <1>2, <1>3, <1>4, <2>1 DEF PeerInv
  <2>5. Arrived' = Arrived \cup {s} /\ s \notin Arrived
        BY <1>2, <1>4, <2>2, <2>3, <2>4, PEs DEF Arrived
  <2>6. aSync'[0] = Cardinality(Counted')
    <3>1. CASE Reaches(s)
      <4>1. Counted' = Counted \cup {s} /\ s \notin Counted
            BY <1>9, <2>5, <3>1 DEF Counted, Arrived
      <4>2. Cardinality(Counted \cup {s}) = Cardinality(Counted) + 1
            BY <4>1, CountedFinite, FS_AddElement, Zenon
      <4> QED BY <1>1, <2>2, <3>1, <4>1, <4>2, Zenon
    <3>2. CASE ~Reaches(s)
      <4>1. Counted' = Counted
            BY <1>9, <2>5, <3>2, Zenon DEF Counted, Arrived
      <4> QED BY <1>1, <1>2, <1>3, <2>2, <3>2, <4>1
    <3> QED BY <3>1, <3>2, Zenon
  <2>7. RootInv'
    <3>1. aStage[0] # "reset"
          BY <1>1, <2>5, CountedOther, Zenon DEF RootInv
    <3> QED BY <1>1, <1>2, <1>9, <2>1, <2>2, <2>3, <3>1, Zenon DEF RootInv
  <2>8. \A p \in Other : PeerInv(p)'
    <3>1. PeerInv(s)'
          BY <1>1, <1>2, <1>3, <1>4, <2>1, <2>2, <2>3, <2>4 DEF PeerInv
    <3>2. ASSUME NEW p \in Other, p # s PROVE PeerInv(p)'
          BY <1>1, <2>1, <2>2, <2>3, <3>2, PEs DEF PeerInv
    <3> QED BY <3>1, <3>2, Zenon
  <2> QED BY <2>2, <2>6, <2>7, <2>8, Zenon DEF IInv
<1>6. CASE AtomicWait(s)
  <2>1. /\ TypeOK' /\ aStage[s] = "wait" /\ aStage'[s] = "reset" /\ aSync[s] = 1 /\ UNCHANGED <<aSync, aPeer, aEntered, aLeft>>
        /\ \A p \in Offset : p # s => aStage'[p] = aStage[p]
        BY <1>1, <1>2, <1>6, Zenon DEF AtomicWait, TypeOK
  <2>2. Taken' = Taken /\ \A p \in Other : Told(p)' = Told(p)
        BY <1>2, <2>1, Zenon DEF Taken, Told
  <2>3. Counted' = Counted
        BY <1>9, <2>1, <2>2, Zenon DEF Counted, Arrived
  <2>4. RootInv' /\ \A p \in Other : PeerInv(p)'
        BY <1>1, <1>2, <1>9, <2>1, <2>2, <2>3, PEs, Zenon DEF RootInv, PeerInv
  <2> QED BY <1>1, <2>1, <2>3, <2>4, Zenon DEF IInv
<1>7. CASE AtomicLeave(s)
  <2>1. /\ TypeOK' /\ aStage[s] = "reset" /\ aStage'[s] = "idle" /\ aSync'[s] = 0 /\ aLeft'[s] = aLeft[s] + 1
        /\ UNCHANGED <<aPeer, aEntered>>
        /\ \A p \in Offset : p # s => aStage'[p] = aStage[p] /\ aSync'[p] = aSync[p] /\ aLeft'[p] = aLeft[p]
        BY <1>1, <1>2, <1>3, <1>7 DEF AtomicLeave, TypeOK
  <2>2. Taken' = Taken /\ \A p \in Other : Told(p)' = Told(p)
        BY <1>2, <2>1, Zenon DEF Taken, Told
  <2>3. Counted' = Counted
        BY <1>9, <2>1, <2>2, Zenon DEF Counted, Arrived
  <2>4. Told(s) = aLeft[s] + 1
        BY <1>1, <1>2, <1>3, <1>4, <2>1 DEF PeerInv
  <2>5. RootInv'
        BY <1>1, <1>2, <1>9, <2>1, <2>2, <2>3, Zenon DEF RootInv
  <2>6. \A p \in Other : PeerInv(p)'
        BY <1>1, <1>2, <1>3, <1>4, <2>1, <2>2, <2>4, PEs DEF PeerInv
  <2> QED BY <1>1, <1>2, <2>1, <2>3, <2>5, <2>6, Zenon DEF IInv
<1> QED BY <1>5, <1>6, <1>7, Zenon DEF AtomicPeer

LEMMA NextIInv == IInv /\ [AtomicNext]_atomicVars => IInv'
<1> SUFFICES ASSUME IInv, [AtomicNext]_atomicVars PROVE IInv'
    BY Zenon
<1>1. CASE UNCHANGED atomicVars
  <2>1. UNCHANGED <<layout, aSync, aStage, aPeer, aEntered, aLeft>>
        BY <1>1, Zenon DEF atomicVars
  <2>2. Counted' = Counted /\ AllReach' = AllReach /\ Taken' = Taken /\ \A p \in Other : Told(p)' = Told(p)
        BY <2>1, Zenon DEF AllReach, Reaches, Counted, Arrived, Taken, Told
  <2> QED BY <2>1, <2>2, Zenon DEF IInv, TypeOK, RootInv, PeerInv
<1>2. CASE AtomicRoot
      BY <1>2, RootStep, Zenon
<1>3. CASE \E p \in Other : AtomicPeer(p)
      BY <1>3, PeerStep, Zenon
<1> QED BY <1>1, <1>2, <1>3, Zenon DEF AtomicNext, AtomicFinished

LEMMA AlwaysIInv == AtomicSpec => []IInv
<1> QED BY InitIInv, NextIInv, PTL DEF AtomicSpec

\* In every layout of the buffers, pSync[0] of PE_start is the number of PEs that
\* have entered a round PE_start has not collected and whose amo_add reaches it:
\* the reset in internal_atomic_barrier wipes no arrival of the next round, for
\* any team.
THEOREM CounterIsExact == AtomicSpec => []CounterExact
<1>1. Counted = {p \in Other : Reaches(p) /\ aEntered[p] > Taken}
      BY Zenon DEF Counted, Arrived
<1>2. IInv => CounterExact
      BY <1>1, Zenon DEF IInv, CounterExact, Taken
<1> QED BY <1>2, AlwaysIInv, PTL

\* internal_atomic_barrier lets nobody out, ever, unless the amo_add of every PE
\* reaches the counter: the layouts it works in are exactly those, for any team.
THEOREM AstrayAddClosesBarrier == AtomicSpec => []OpensOnlyWhenAllReach
<1>1. ASSUME IInv, NEW p \in Offset, aLeft[p] > 0 PROVE AllReach
  <2>1. TypeOK /\ RootInv /\ (p \in Other => PeerInv(p)) /\ aLeft[p] \in Nat /\ aLeft[0] \in Nat
        BY <1>1, PEs, Zenon DEF IInv, TypeOK
  <2>2. aLeft[0] <= Taken /\ Told(p) <= Taken /\ Taken \in Nat /\ Told(p) \in Nat
        BY <2>1 DEF Taken, Told
  <2>3. aLeft[p] <= Taken
        BY <2>1, <2>2, PEs DEF PeerInv
  <2>4. Taken > 0
        BY <1>1, <2>1, <2>2, <2>3
  <2> QED BY <2>1, <2>4, Zenon DEF RootInv
<1>2. IInv => OpensOnlyWhenAllReach
      BY <1>1, Zenon DEF OpensOnlyWhenAllReach
<1> QED BY <1>2, AlwaysIInv, PTL

\* Every step maps to a step of the abstract barrier, or to none.
LEMMA AbstractStep == IInv /\ [AtomicNext]_atomicVars => [AtomicAbstract!Next]_<<aEntered, aLeft>>
<1> SUFFICES ASSUME IInv, [AtomicNext]_atomicVars PROVE [AtomicAbstract!Next]_<<aEntered, aLeft>>
    BY Zenon
<1>1. /\ TypeOK /\ RootInv /\ \A p \in Other : PeerInv(p)
      /\ \A p \in Offset : aLeft[p] \in Nat /\ aEntered[p] \in Nat
      BY Zenon DEF IInv, TypeOK
<1>2. \A s \in Other : Taken <= aEntered[s] /\ aLeft[s] <= Told(s)
      BY <1>1, Zenon DEF PeerInv
<1>3. aLeft[0] <= aEntered[0] /\ (aStage[0] # "idle" => aEntered[0] = aLeft[0] + 1)
      BY <1>1, PEs DEF RootInv
<1>4. CASE \E p \in Offset : AtomicEnterBarrier(p) /\ UNCHANGED aLeft
  <2>1. PICK p \in Offset : AtomicEnterBarrier(p) /\ UNCHANGED aLeft
        BY <1>4, Zenon
  <2>2. aEntered[p] = aLeft[p]
        BY <1>1, <2>1, PEs DEF AtomicEnterBarrier, RootInv, PeerInv
  <2> QED BY <2>1, <2>2, Zenon DEF AtomicEnterBarrier, AtomicAbstract!Next, AtomicAbstract!Enter
<1>5. CASE AtomicLeave0
  <2>1. \A s \in Offset : aLeft[0] < aEntered[s]
        BY <1>1, <1>2, <1>3, <1>5, PEs DEF AtomicLeave0, Taken
  <2>2. 0 \in Offset /\ aEntered[0] # aLeft[0]
        BY <1>1, <2>1, PEs
  <2> QED BY <1>5, <2>1, <2>2, Zenon DEF AtomicLeave0, AtomicAbstract!Next, AtomicAbstract!Leave
<1>6. CASE \E p \in Other : AtomicLeave(p)
  <2>1. PICK p \in Other : AtomicLeave(p)
        BY <1>6, Zenon
  <2>2. Told(p) = aLeft[p] + 1 /\ aEntered[p] = aLeft[p] + 1
        BY <1>1, <2>1, PEs DEF AtomicLeave, PeerInv, Told, flag_val
  <2>3. Told(p) <= Taken /\ Told(p) <= aEntered[0]
        BY <1>1, <1>3, PEs DEF Taken, Told
  <2>4. \A s \in Offset : aLeft[p] < aEntered[s]
        BY <1>1, <1>2, <2>2, <2>3, PEs DEF Taken, Told
  <2>5. p \in Offset /\ aEntered[p] # aLeft[p]
        BY <1>1, <2>2, PEs
  <2> QED BY <2>1, <2>4, <2>5, Zenon DEF AtomicLeave, AtomicAbstract!Next, AtomicAbstract!Leave
<1>7. CASE UNCHANGED <<aEntered, aLeft>>
      BY <1>7, Zenon
<1>8. CASE AtomicRoot
      BY <1>4, <1>5, <1>7, <1>8, PEs, Zenon DEF AtomicRoot, AtomicEnter0, Count, ResetCount, AtomicAnnounce
<1>9. CASE \E p \in Other : AtomicPeer(p)
      BY <1>4, <1>6, <1>7, <1>9, PEs, Zenon DEF AtomicPeer, AtomicEnter, AtomicWait
<1> QED BY <1>7, <1>8, <1>9, Zenon DEF AtomicNext, AtomicFinished, atomicVars

\* internal_atomic_barrier implements the abstract barrier in every layout: no PE
\* returns from its n-th barrier before every PE has entered its n-th barrier,
\* for every number of PEs and of rounds.
THEOREM AtomicBarrierIsABarrier == AtomicSpec => AtomicImplementsBarrier
<1>1. AtomicInit => AtomicAbstract!Init
      BY Zenon DEF AtomicInit, AtomicAbstract!Init
<1> QED BY <1>1, AlwaysIInv, AbstractStep, PTL DEF AtomicSpec, AtomicImplementsBarrier, AtomicAbstract!Spec
=============================================================================
