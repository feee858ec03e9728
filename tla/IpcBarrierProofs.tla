-------------------------- MODULE IpcBarrierProofs --------------------------
(***************************************************************************)
(* The direct barrier is a barrier for every number of PEs and of rounds.  *)
(***************************************************************************)
EXTENDS IpcBarrier, TLAPS

\* What the invariant says about one peer, in numbers: PE 0 has told p at most
\* what it has collected from p, and collected at most what p has entered.
LEMMA PeerNumbers ==
  ASSUME IInv, NEW p \in Other
  PROVE  /\ left[p] <= Told(p) /\ Told(p) <= Collected(p) /\ Collected(p) <= entered[p]
         /\ entered[p] <= left[p] + 1
         /\ left[0] <= Told(p) /\ Collected(p) <= left[0] + 1
         /\ left[p] \in Nat /\ entered[p] \in Nat /\ left[0] \in Nat
<1> USE BarrierAssumption
<1>1. /\ p \in Offset /\ 0 \in Offset /\ left[p] \in Nat /\ entered[p] \in Nat /\ left[0] \in Nat
      /\ pSync[0][p] \in {0, 1} /\ pSync[p][0] \in {0, 1} /\ peer \in Nat /\ p \in Nat
  BY DEF IInv, TypeOK, Offset, Other, SYNC_VALUE, flag_val
<1>2. PeerInv(p)
  BY DEF IInv
<1>3. Told(p) \in Nat /\ Collected(p) \in Nat /\ left[0] <= Told(p)
      /\ Told(p) <= Collected(p) /\ Collected(p) <= left[0] + 1
  BY <1>1, SMT DEF Told, Collected
<1> QED BY <1>1, <1>2, <1>3, SMT DEF PeerInv

\* PE 0 tells somebody to go on only when everybody has entered the round.
LEMMA IInvSeparation == IInv => Separation
<1> SUFFICES ASSUME IInv, NEW p \in Offset, NEW s \in Offset PROVE left[p] <= entered[s]
  BY DEF Separation
<1> USE BarrierAssumption
<1>1. /\ 0 \in Offset /\ left[0] \in Nat /\ entered[0] \in Nat
      /\ left[0] <= entered[0] /\ entered[0] <= left[0] + 1
      /\ stage[0] = "announce" => entered[0] = left[0] + 1
  BY SMT DEF IInv, RootInv, TypeOK, Offset
<1>2. \A r \in Offset : r = 0 \/ r \in Other
  BY SMT DEF Offset, Other
<1>3. left[0] <= entered[s]
  <2>1. CASE s = 0
    BY <1>1, <2>1
  <2>2. CASE s \in Other
    BY <2>2, PeerNumbers, SMT DEF Told, Collected
  <2> QED BY <1>2, <2>1, <2>2
<1>4. ASSUME stage[0] = "announce" PROVE left[0] + 1 <= entered[s]
  <2>1. CASE s = 0
    BY <1>1, <1>4, <2>1, SMT
  <2>2. CASE s \in Other
    BY <1>4, <2>2, PeerNumbers, SMT DEF Collected
  <2> QED BY <1>2, <2>1, <2>2
<1>5. CASE p = 0
  BY <1>3, <1>5
<1>6. CASE p \in Other
  <2>1. left[p] <= Told(p) /\ left[p] \in Nat
    BY <1>6, PeerNumbers
  <2>2. Told(p) = left[0] \/ (stage[0] = "announce" /\ Told(p) = left[0] + 1)
    BY <1>1, SMT DEF Told
  <2>3. entered[s] \in Nat
    BY DEF IInv, TypeOK
  <2> QED BY <1>1, <1>3, <1>4, <2>1, <2>2, <2>3, SMT
<1> QED BY <1>2, <1>5, <1>6

\* With every pSync entry at ROCSHMEM_SYNC_VALUE nobody has entered.
LEMMA InitIInv == DirectInit => IInv
BY BarrierAssumption, SMT DEF DirectInit, IInv, TypeOK, RootInv, PeerInv, Told, Collected,
   Offset, Other, SYNC_VALUE, flag_val

\* Steps of PE 0 preserve the invariant.
LEMMA RootStep == ASSUME IInv, Root PROVE IInv'
<1> USE BarrierAssumption DEF SYNC_VALUE, flag_val
<1>0. /\ TypeOK /\ RootInv /\ 0 \in Offset
      /\ \A p \in Other : p \in Offset /\ p # 0 /\ p \in Nat /\ PeerInv(p)
      /\ \A p \in Other : p < n_pes
  BY SMT DEF IInv, Offset, Other
<1>a. \A p \in Offset : left[p] \in Nat /\ entered[p] \in Nat
  BY <1>0 DEF TypeOK
<1>b. peer \in 1 .. n_pes /\ n_pes \in Nat
  BY <1>0 DEF TypeOK
<1>1. CASE Enter0
  <2>1. /\ TypeOK' /\ stage'[0] = "collect" /\ entered'[0] = entered[0] + 1 /\ peer' = 1
        /\ \A p \in Other : stage'[p] = stage[p] /\ entered'[p] = entered[p]
        /\ stage[0] = "idle" /\ pSync' = pSync /\ left' = left
    BY <1>0, <1>1, <1>a, SMT DEF TypeOK, Enter0
  <2>2. RootInv'
    BY <1>0, <1>a, <2>1, SMT DEF RootInv
  <2>3. ASSUME NEW p \in Other PROVE PeerInv(p)'
    <3>1. Collected(p)' = Collected(p) /\ Told(p)' = Told(p)
      BY <1>0, <2>1, SMT DEF Collected, Told
    <3> QED BY <1>0, <2>1, <3>1 DEF PeerInv
  <2> QED BY <2>1, <2>2, <2>3 DEF IInv
<1>2. CASE Collect
  <2>1. /\ TypeOK' /\ stage[0] = "collect" /\ stage'[0] = "clear" /\ peer < n_pes
        /\ \A p \in Other : stage'[p] = stage[p]
        /\ pSync[0][peer] = 1 /\ UNCHANGED <<pSync, peer, entered, left>>
    BY <1>0, <1>2 DEF TypeOK, Collect
  <2>2. RootInv'
    BY <1>0, <2>1 DEF RootInv
  <2>3. ASSUME NEW p \in Other PROVE PeerInv(p)'
    <3>1. Collected(p)' = Collected(p) /\ Told(p)' = Told(p)
      BY <2>1, SMT DEF Collected, Told
    <3> QED BY <1>0, <2>1, <3>1 DEF PeerInv
  <2> QED BY <2>1, <2>2, <2>3 DEF IInv
<1>3. CASE Clear
  <2>1. /\ stage[0] = "clear" /\ stage'[0] = "collect" /\ peer < n_pes /\ peer' = peer + 1
        /\ stage' \in [Offset -> {"idle", "collect", "clear", "announce", "wait", "reset"}]
        /\ \A p \in Other : stage'[p] = stage[p]
        /\ peer \in Other /\ peer \in Offset /\ pSync[0][peer] = 1 /\ UNCHANGED <<entered, left>>
    BY <1>0, <1>3, <1>b, SMT DEF TypeOK, RootInv, Clear, Other, Offset
  <2>2. /\ pSync' \in [Offset -> [Offset -> {0, 1}]]
        /\ pSync'[0][peer] = 0
        /\ \A p, s \in Offset : ~ (p = 0 /\ s = peer) => pSync'[p][s] = pSync[p][s]
    BY <1>0, <1>3, <2>1 DEF TypeOK, Clear
  <2>3. TypeOK' /\ RootInv'
    BY <1>0, <1>b, <2>1, <2>2, SMT DEF TypeOK, RootInv
  <2>4. ASSUME NEW p \in Other PROVE PeerInv(p)'
    <3>0. /\ p \in Nat /\ peer \in Nat /\ left[0] \in Nat /\ left' = left /\ peer' = peer + 1
          /\ stage[0] = "clear" /\ stage'[0] = "collect"
      BY <1>0, <1>a, <1>b, <2>1
    <3>1. /\ Collected(p)' = IF p = peer THEN Collected(p) + 1 ELSE Collected(p)
          /\ Told(p)' = Told(p)
      BY <3>0, SMT DEF Collected, Told
    <3>2. pSync'[p][0] = pSync[p][0] /\ pSync'[0][p] = IF p = peer THEN 0 ELSE pSync[0][p]
      BY <1>0, <2>2
    <3>3. Collected(p) \in Nat
      BY <1>0, <1>a, SMT DEF Collected
    <3> QED BY <1>0, <1>a, <2>1, <3>1, <3>2, <3>3, SMT DEF PeerInv
  <2> QED BY <2>3, <2>4 DEF IInv
<1>4. CASE AllCollected
  <2>1. /\ TypeOK' /\ stage[0] = "collect" /\ stage'[0] = "announce" /\ peer = n_pes /\ peer' = 1
        /\ \A p \in Other : stage'[p] = stage[p]
        /\ UNCHANGED <<pSync, entered, left>>
    BY <1>0, <1>4, <1>b, SMT DEF TypeOK, AllCollected
  <2>2. RootInv'
    BY <1>0, <2>1 DEF RootInv
  <2>3. ASSUME NEW p \in Other PROVE PeerInv(p)'
    <3>1. Collected(p)' = Collected(p) /\ Told(p)' = Told(p)
      BY <1>0, <2>1, SMT DEF Collected, Told
    <3> QED BY <1>0, <2>1, <3>1 DEF PeerInv
  <2> QED BY <2>1, <2>2, <2>3 DEF IInv
<1>5. CASE Announce
  <2>1. /\ stage[0] = "announce" /\ stage' = stage /\ peer < n_pes /\ peer' = peer + 1
        /\ peer \in Other /\ peer \in Offset /\ UNCHANGED <<entered, left>>
    BY <1>5, <1>b, SMT DEF Announce, Other, Offset
  <2>2. /\ pSync' \in [Offset -> [Offset -> {0, 1}]]
        /\ pSync'[peer][0] = 1
        /\ \A p, s \in Offset : ~ (p = peer /\ s = 0) => pSync'[p][s] = pSync[p][s]
    BY <1>0, <1>5, <2>1 DEF TypeOK, Announce
  <2>3. TypeOK' /\ RootInv'
    BY <1>0, <1>b, <2>1, <2>2, SMT DEF TypeOK, RootInv
  <2>4. ASSUME NEW p \in Other PROVE PeerInv(p)'
    <3>1. /\ Told(p)' = IF p = peer THEN Told(p) + 1 ELSE Told(p)
          /\ Collected(p)' = Collected(p)
      BY <1>0, <1>a, <1>b, <2>1, SMT DEF Collected, Told
    <3>2. pSync'[0][p] = pSync[0][p] /\ pSync'[p][0] = IF p = peer THEN 1 ELSE pSync[p][0]
      BY <1>0, <2>2
    <3>3. p = peer => Told(p) = left[p]
      <4>1. p = peer => Told(p) = left[0] /\ Collected(p) = left[0] + 1
        BY <1>0, <1>a, <2>1, SMT DEF Told, Collected
      <4> QED BY <1>0, <1>a, <4>1, PeerNumbers, SMT
    <3>4. Told(p) \in Nat
      BY <1>0, <1>a, SMT DEF Told
    <3> QED BY <1>0, <1>a, <2>1, <3>1, <3>2, <3>3, <3>4, SMT DEF PeerInv
  <2> QED BY <2>3, <2>4 DEF IInv
<1>6. CASE Leave0
  <2>1. /\ TypeOK' /\ stage[0] = "announce" /\ stage'[0] = "idle" /\ peer = n_pes
        /\ \A p \in Other : stage'[p] = stage[p] /\ left'[p] = left[p]
        /\ left'[0] = left[0] + 1 /\ UNCHANGED <<pSync, peer, entered>>
    BY <1>0, <1>6, <1>a, SMT DEF TypeOK, Leave0
  <2>2. RootInv'
    BY <1>0, <1>a, <2>1, SMT DEF RootInv
  <2>3. ASSUME NEW p \in Other PROVE PeerInv(p)'
    <3>1. Collected(p)' = Collected(p) /\ Told(p)' = Told(p)
      BY <1>0, <1>a, <2>1, SMT DEF Collected, Told
    <3> QED BY <1>0, <2>1, <3>1 DEF PeerInv
  <2> QED BY <2>1, <2>2, <2>3 DEF IInv
<1> QED BY <1>1, <1>2, <1>3, <1>4, <1>5, <1>6 DEF Root

\* Steps of another PE preserve the invariant.
LEMMA PeerStep == ASSUME IInv, NEW p \in Other, Peer(p) PROVE IInv'
<1> USE BarrierAssumption DEF SYNC_VALUE, flag_val
<1>0. /\ TypeOK /\ RootInv /\ 0 \in Offset
      /\ \A s \in Other : s \in Offset /\ s # 0 /\ PeerInv(s)
  BY SMT DEF IInv, Offset, Other
<1>a. \A s \in Offset : left[s] \in Nat /\ entered[s] \in Nat
  BY <1>0 DEF TypeOK
<1>1. CASE Enter(p)
  <2>1. /\ stage[p] = "idle" /\ stage'[p] = "wait" /\ entered'[p] = entered[p] + 1
        /\ stage' \in [Offset -> {"idle", "collect", "clear", "announce", "wait", "reset"}]
        /\ entered' \in [Offset -> Nat]
        /\ \A s \in Offset : s # p => stage'[s] = stage[s] /\ entered'[s] = entered[s]
        /\ UNCHANGED <<peer, left>>
    BY <1>0, <1>1, <1>a, SMT DEF TypeOK, Enter
  <2>2. /\ pSync' \in [Offset -> [Offset -> {0, 1}]]
        /\ pSync'[0][p] = 1
        /\ \A r, s \in Offset : ~ (r = 0 /\ s = p) => pSync'[r][s] = pSync[r][s]
    BY <1>0, <1>1 DEF TypeOK, Enter
  <2>3. TypeOK'
    BY <1>0, <2>1, <2>2 DEF TypeOK
  <2>4. \A s \in Other : Collected(s)' = Collected(s) /\ Told(s)' = Told(s)
    BY <1>0, <2>1 DEF Collected, Told
  <2>5. RootInv'
    <3>1. stage[0] = "clear" => pSync'[0][peer] = 1
      <4>1. stage[0] = "clear" => peer \in Offset
        BY <1>0, SMT DEF RootInv, TypeOK, Offset
      <4> QED BY <1>0, <2>2, <4>1 DEF RootInv
    <3> QED BY <1>0, <2>1, <3>1 DEF RootInv
  <2>6. ASSUME NEW s \in Other PROVE PeerInv(s)'
    <3>1. CASE s # p
      BY <1>0, <2>1, <2>2, <2>4, <3>1 DEF PeerInv
    <3>2. CASE s = p
      <4>1. Collected(p) = entered[p]
        BY <1>0, <2>1, PeerNumbers, <1>a, SMT DEF PeerInv, Collected, Told
      <4>2. pSync'[p][0] = pSync[p][0]
        BY <1>0, <2>2
      <4>3. /\ stage'[p] = "wait" /\ entered'[p] = entered[p] + 1 /\ entered[p] = left[p]
            /\ left'[p] = left[p] /\ pSync'[0][p] = 1 /\ pSync[p][0] = Told(p) - left[p]
            /\ Told(p) >= left[p] /\ Collected(p)' = entered[p] /\ Told(p)' = Told(p)
            /\ entered[p] \in Nat /\ left[p] \in Nat
        BY <1>0, <1>a, <2>1, <2>2, <2>4, <4>1, SMT DEF PeerInv
      <4> QED BY <3>2, <4>2, <4>3, SMT DEF PeerInv
    <3> QED BY <3>1, <3>2
  <2> QED BY <2>3, <2>5, <2>6 DEF IInv
<1>2. CASE Wait(p)
  <2>1. /\ TypeOK' /\ stage[p] = "wait" /\ stage'[p] = "reset" /\ pSync[p][0] = 1
        /\ \A s \in Offset : s # p => stage'[s] = stage[s]
        /\ UNCHANGED <<pSync, peer, entered, left>>
    BY <1>0, <1>2 DEF TypeOK, Wait
  <2>2. \A s \in Other : Collected(s)' = Collected(s) /\ Told(s)' = Told(s)
    BY <1>0, <2>1 DEF Collected, Told
  <2>3. RootInv'
    BY <1>0, <2>1 DEF RootInv
  <2>4. ASSUME NEW s \in Other PROVE PeerInv(s)'
    BY <1>0, <2>1, <2>2 DEF PeerInv
  <2> QED BY <2>1, <2>3, <2>4 DEF IInv
<1>3. CASE Leave(p)
  <2>1. /\ stage[p] = "reset" /\ stage'[p] = "idle" /\ left'[p] = left[p] + 1
        /\ stage' \in [Offset -> {"idle", "collect", "clear", "announce", "wait", "reset"}]
        /\ left' \in [Offset -> Nat]
        /\ \A s \in Offset : s # p => stage'[s] = stage[s] /\ left'[s] = left[s]
        /\ UNCHANGED <<peer, entered>>
    BY <1>0, <1>3, <1>a, SMT DEF TypeOK, Leave
  <2>2. /\ pSync' \in [Offset -> [Offset -> {0, 1}]]
        /\ pSync'[p][0] = 0 /\ pSync[p][0] = 1
        /\ \A r, s \in Offset : ~ (r = p /\ s = 0) => pSync'[r][s] = pSync[r][s]
    BY <1>0, <1>3, <2>1 DEF TypeOK, Leave, PeerInv
  <2>3. TypeOK'
    BY <1>0, <2>1, <2>2 DEF TypeOK
  <2>4. \A s \in Other : Collected(s)' = Collected(s) /\ Told(s)' = Told(s)
    BY <1>0, <2>1 DEF Collected, Told
  <2>5. RootInv'
    <3>1. stage[0] = "clear" => pSync'[0][peer] = pSync[0][peer]
      <4>1. stage[0] = "clear" => peer \in Offset
        BY <1>0, SMT DEF RootInv, TypeOK, Offset
      <4> QED BY <1>0, <2>2, <4>1
    <3> QED BY <1>0, <2>1, <3>1 DEF RootInv
  <2>6. ASSUME NEW s \in Other PROVE PeerInv(s)'
    <3>1. CASE s # p
      BY <1>0, <2>1, <2>2, <2>4, <3>1 DEF PeerInv
    <3>2. CASE s = p
      <4>1. Told(p) \in Nat /\ pSync'[0][p] = pSync[0][p]
        BY <1>0, <1>a, <2>2, SMT DEF Told
      <4> QED BY <1>0, <1>a, <2>1, <2>2, <2>4, <3>2, <4>1, SMT DEF PeerInv
    <3> QED BY <3>1, <3>2
  <2> QED BY <2>3, <2>5, <2>6 DEF IInv
<1> QED BY <1>1, <1>2, <1>3 DEF Peer

\* A step that changes nothing.
LEMMA StutterStep == ASSUME IInv, UNCHANGED directVars PROVE IInv'
BY DEF IInv, directVars, TypeOK, RootInv, PeerInv, Collected, Told

\* Every step of internal_direct_barrier preserves the invariant.
LEMMA NextIInv == IInv /\ [DirectNext]_directVars => IInv'
BY RootStep, PeerStep, StutterStep DEF DirectNext, DirectFinished

-----------------------------------------------------------------------------
\* The inductive invariant of internal_direct_barrier.
THEOREM BarrierInvariant == DirectSpec => []IInv
BY InitIInv, NextIInv, PTL DEF DirectSpec

\* No PE leaves internal_direct_barrier before every PE has entered it, for
\* any number of PEs and however often the pSync entries are reused.
THEOREM BarrierSeparation == DirectSpec => []Separation
BY BarrierInvariant, IInvSeparation, PTL

\* internal_direct_barrier implements the abstract barrier.
THEOREM BarrierRefinement == DirectSpec => ImplementsBarrier
<1> USE BarrierAssumption
<1>1. DirectInit => Abstract!Init
  BY DEF DirectInit, Abstract!Init
<1>a. IInv' => Separation'
  BY IInvSeparation, PTL
<1>2. IInv /\ IInv' /\ [DirectNext]_directVars => [Abstract!Next]_<<entered, left>>
  <2> SUFFICES ASSUME IInv, IInv', [DirectNext]_directVars PROVE [Abstract!Next]_<<entered, left>>
    OBVIOUS
  <2>0. 0 \in Offset /\ (\A p \in Other : p \in Offset) /\ TypeOK /\ RootInv
        /\ \A p \in Other : PeerInv(p)
    BY SMT DEF IInv, Offset, Other
  <2>a. \A p \in Offset : left[p] \in Nat /\ entered[p] \in Nat
    BY <2>0 DEF TypeOK
  <2>b. \A p, s \in Offset : left'[p] <= entered'[s]
    BY <1>a DEF Separation
  <2>1. CASE Enter0
    <3>1. Abstract!Enter(0)
      BY <2>0, <2>1, <2>a, SMT DEF Enter0, RootInv, Abstract!Enter
    <3> QED BY <2>0, <3>1 DEF Abstract!Next
  <2>2. CASE Leave0
    <3>1. entered[0] # left[0] /\ left' = [left EXCEPT ![0] = @ + 1] /\ entered' = entered
      BY <2>0, <2>2, <2>a, SMT DEF Leave0, RootInv
    <3>2. \A s \in Offset : left[0] < entered[s]
      BY <2>0, <2>a, <2>b, <3>1, SMT DEF TypeOK
    <3>3. Abstract!Leave(0)
      BY <3>1, <3>2 DEF Abstract!Leave
    <3> QED BY <2>0, <3>3 DEF Abstract!Next
  <2>3. ASSUME NEW p \in Other, Enter(p) PROVE Abstract!Next
    <3>1. Abstract!Enter(p)
      BY <2>0, <2>3, <2>a, SMT DEF Enter, PeerInv, Abstract!Enter
    <3> QED BY <2>0, <3>1 DEF Abstract!Next
  <2>4. ASSUME NEW p \in Other, Leave(p) PROVE Abstract!Next
    <3>1. entered[p] # left[p] /\ left' = [left EXCEPT ![p] = @ + 1] /\ entered' = entered
      BY <2>0, <2>4, <2>a, SMT DEF Leave, PeerInv
    <3>2. \A s \in Offset : left[p] < entered[s]
      BY <2>0, <2>a, <2>b, <3>1, SMT DEF TypeOK
    <3>3. Abstract!Leave(p)
      BY <3>1, <3>2 DEF Abstract!Leave
    <3> QED BY <2>0, <3>3 DEF Abstract!Next
  <2>5. CASE UNCHANGED <<entered, left>>
    BY <2>5
  <2> QED BY <2>1, <2>2, <2>3, <2>4, <2>5 DEF DirectNext, Root, Peer, Collect, Clear,
          AllCollected, Announce, Wait, DirectFinished, directVars
<1> QED BY <1>1, <1>2, BarrierInvariant, PTL DEF DirectSpec, ImplementsBarrier, Abstract!Spec
=============================================================================
