-------------------------- MODULE DeviceSyncProofs --------------------------
(***************************************************************************)
(* ABQLBlockMutex excludes, for every number of blocks and of slots in     *)
(* turns_, under every client of this module; SlabHeap::malloc, which      *)
(* relies on it, gives out each byte once; Notifier::sync, whose last      *)
(* block is found by counting the arrivals, is a barrier; and the FreeList *)
(* loses no context.                                                       *)
(***************************************************************************)
EXTENDS DeviceSync, TLAPS, FiniteSetTheorems

Active(b, m) == (pc[b] = "wait" \/ pc[b] \notin Outside) /\ MutexOf(b) = m

\* n is the ticket that is served.
Serves(m, n) ==
  /\ n <= ticket_[m]
  /\ \A i \in 0 .. memory_channels - 1 : turns_[m][i] <= n
  /\ \A b \in Block : Active(b, m) => n <= ticket[b] /\ ticket[b] < ticket_[m]
  /\ \A b \in Block : Inside(b, m) => ticket[b] = n
  /\ \A a, b \in Block : Active(a, m) /\ Active(b, m) /\ a # b => ticket[a] # ticket[b]

MutexTypes ==
  /\ ticket_ \in [Lock -> Nat]
  /\ turns_ \in [Lock -> [0 .. memory_channels - 1 -> Nat]]
  /\ ticket \in [Block -> Nat]
  /\ pc = [b \in Block |-> pc[b]] /\ DOMAIN script = Block

IInv == MutexTypes /\ \A m \in Lock : \E n \in Nat : Serves(m, n)

\* A ticket names a slot of turns_.
LEMMA SlotExists ==
  ASSUME NEW t \in Nat
  PROVE  t % memory_channels \in 0 .. memory_channels - 1
  BY SyncAssumption, SMT

\* The inductive invariant implies exclusion: whoever is inside has the ticket served.
LEMMA IInvExcludes == IInv => MutualExclusion
<1> SUFFICES ASSUME IInv, NEW m \in Lock, NEW a \in Block, NEW b \in Block,
                    Inside(a, m), Inside(b, m)
             PROVE  a = b
    BY Zenon DEF MutualExclusion
<1>1. PICK n \in Nat : Serves(m, n)
      BY Zenon DEF IInv
<1>2. Active(a, m) /\ Active(b, m)
      BY Zenon DEF Active, Inside
<1> QED BY <1>1, <1>2, Zenon DEF Serves

\* Nobody has a ticket at the start.
LEMMA InitIInv == Init => IInv
<1> SUFFICES ASSUME Init PROVE IInv
    BY Zenon
<1>1. MutexTypes
      BY SyncAssumption, Zenon DEF Init, MutexTypes
<1>2. ASSUME NEW m \in Lock PROVE Serves(m, 0)
      BY DEF Init, Serves, Active, Inside, Outside
<1> QED BY <1>1, <1>2, Zenon DEF IInv

\* A step of b that leaves the mutexes alone, and either stays inside or outside.
Neutral(b) ==
  /\ UNCHANGED mutex
  /\ \E l : pc' = [pc EXCEPT ![b] = l]
  /\ \/ script' = script /\ pc[b] \notin Outside /\ pc'[b] \notin Outside
     \/ /\ DOMAIN script' = Block /\ \A a \in Block : a # b => script'[a] = script[a]
        /\ pc[b] \in Outside \ {"wait"} /\ pc'[b] \in Outside \ {"wait"}

LEMMA NeutralKeeps ==
  ASSUME IInv, NEW b \in Block, Neutral(b) PROVE IInv'
<1>1. MutexTypes'
      BY Zenon DEF IInv, MutexTypes, Neutral, mutex
<1>2. ASSUME NEW m \in Lock, NEW n \in Nat, Serves(m, n) PROVE Serves(m, n)'
  <2>1. /\ ticket_' = ticket_ /\ turns_' = turns_ /\ ticket' = ticket
        /\ pc' \in [Block -> {pc'[a] : a \in Block}]
        /\ \A a \in Block : a # b => pc'[a] = pc[a] /\ script'[a] = script[a]
        BY Zenon DEF Neutral, mutex, IInv, MutexTypes
  <2>2. ASSUME NEW a \in Block PROVE Active(a, m)' => Active(a, m)
    <3>1. CASE a # b
          BY <2>1, <3>1, Zenon DEF Active, MutexOf
    <3>2. CASE a = b
          BY <3>2, Zenon DEF Neutral, Active, MutexOf, Outside
    <3> QED BY <3>1, <3>2, Zenon
  <2>3. ASSUME NEW a \in Block PROVE Inside(a, m)' => Inside(a, m)
    <3>1. CASE a # b
          BY <2>1, <3>1, Zenon DEF Inside, MutexOf
    <3>2. CASE a = b
          BY <3>2, Zenon DEF Neutral, Inside, MutexOf
    <3> QED BY <3>1, <3>2, Zenon
  <2> QED BY <1>2, <2>1, <2>2, <2>3, Zenon DEF Serves
<1> QED BY <1>1, <1>2, Zenon DEF IInv

\* The lock and the unlock themselves.
LEMMA MutexKeeps ==
  ASSUME IInv, NEW b \in Block, grab_ticket_(b) \/ wait_turn_(b) \/ signal_next_(b)
  PROVE  IInv'
<1>0a. MutexOf(b) \in Lock
      BY Zenon DEF MutexOf, Lock
<1>0b. PICK mine \in Lock : mine = MutexOf(b)
      BY <1>0a, Zenon
<1>0. mine \in Lock /\ MutexTypes /\ mine = MutexOf(b)
      BY <1>0b, Zenon DEF IInv
<1>1. ASSUME grab_ticket_(b) PROVE IInv'
  <2>1. MutexTypes'
    <3>1. pc' = [a \in Block |-> pc'[a]] /\ DOMAIN script' = Block /\ turns_' = turns_
          BY <1>0, <1>1, Zenon DEF MutexTypes, grab_ticket_, Goes, Stays
    <3>2. ticket_' \in [Lock -> Nat] /\ ticket' \in [Block -> Nat]
          BY <1>0, <1>1 DEF MutexTypes, grab_ticket_
    <3> QED BY <1>0, <3>1, <3>2, Zenon DEF MutexTypes
  <2>2. ASSUME NEW m \in Lock, NEW n \in Nat, Serves(m, n) PROVE Serves(m, n)'
    <3>1. /\ script' = script /\ turns_' = turns_ /\ pc[b] = "app" /\ pc'[b] = "wait"
          /\ \A a \in Block : a # b => pc'[a] = pc[a] /\ ticket'[a] = ticket[a]
          /\ ticket'[b] = ticket_[mine] /\ ticket_'[mine] = ticket_[mine] + 1
          /\ \A k \in Lock : k # mine => ticket_'[k] = ticket_[k]
          BY <1>0, <1>1, Zenon DEF MutexTypes, grab_ticket_, Goes, Stays
    <3>2. ASSUME NEW a \in Block, a # b
          PROVE  (Active(a, m)' <=> Active(a, m)) /\ (Inside(a, m)' <=> Inside(a, m))
          BY <3>1, <3>2, Zenon DEF Active, Inside, MutexOf
    <3>3. ~Inside(b, m)' /\ (Active(b, m)' <=> mine = m)
          BY <1>0, <3>1, Zenon DEF Active, Inside, Outside, MutexOf
    <3>4. ticket_[m] \in Nat /\ ticket_[mine] \in Nat /\ \A a \in Block : ticket[a] \in Nat
          BY <1>0, Zenon DEF MutexTypes
    <3>5. CASE m = mine
          BY <2>2, <3>1, <3>2, <3>3, <3>4, <3>5 DEF Serves
    <3>6. CASE m # mine
          BY <2>2, <3>1, <3>2, <3>3, <3>4, <3>6 DEF Serves
    <3> QED BY <3>5, <3>6, Zenon
  <2> QED BY <2>1, <2>2, Zenon DEF IInv
<1>2. ASSUME wait_turn_(b) PROVE IInv'
  <2>1. MutexTypes'
        BY <1>0, <1>2, Zenon DEF MutexTypes, wait_turn_, Goes, Stays, mutex
  <2>2. ASSUME NEW m \in Lock, NEW n \in Nat, Serves(m, n) PROVE Serves(m, n)'
    <3>1. /\ script' = script /\ turns_' = turns_ /\ ticket' = ticket /\ ticket_' = ticket_
          /\ pc[b] = "wait" /\ pc'[b] = "locked" /\ is_turn_(b)
          /\ \A a \in Block : a # b => pc'[a] = pc[a]
          BY <1>0, <1>2, Zenon DEF MutexTypes, wait_turn_, Goes, Stays, mutex
    <3>2. ASSUME NEW a \in Block
          PROVE  (Active(a, m)' <=> Active(a, m)) /\ (a # b => (Inside(a, m)' <=> Inside(a, m)))
          BY <3>1, <3>2, Zenon DEF Active, Inside, MutexOf, Outside
    <3>3. Inside(b, m)' => mine = m
          BY <1>0, <3>1, Zenon DEF Inside, MutexOf
    <3>4. mine = m => ticket[b] = n
      <4> SUFFICES ASSUME mine = m PROVE ticket[b] = n
          BY Zenon
      <4>1. ticket[b] \in Nat /\ ticket[b] % memory_channels \in 0 .. memory_channels - 1
            BY <1>0, SlotExists, Zenon DEF MutexTypes
      <4>2. turns_[m][ticket[b] % memory_channels] = ticket[b]
            BY <1>0, <3>1, Zenon DEF is_turn_
      <4>3. Active(b, m)
            BY <1>0, <3>1, Zenon DEF Active
      <4>4. n <= ticket[b] /\ ticket[b] <= n
            BY <2>2, <4>1, <4>2, <4>3, Zenon DEF Serves
      <4> QED BY <4>1, <4>4
    <3> QED BY <2>2, <3>1, <3>2, <3>3, <3>4, Zenon DEF Serves
  <2> QED BY <2>1, <2>2, Zenon DEF IInv
<1>3. ASSUME signal_next_(b) PROVE IInv'
  <2> DEFINE slot == (ticket[b] + 1) % memory_channels
  <2>0a. ticket[b] + 1 \in Nat
        BY <1>0 DEF MutexTypes
  <2>0. ticket[b] + 1 \in Nat /\ slot \in 0 .. memory_channels - 1
        BY <2>0a, SlotExists, Zenon
  <2>1. /\ turns_' = [turns_ EXCEPT ![mine][slot] = ticket[b] + 1]
        /\ ticket' = ticket /\ ticket_' = ticket_ /\ pc[b] = "unlock" /\ pc'[b] = "app"
        /\ \A a \in Block : a # b => pc'[a] = pc[a] /\ script'[a] = script[a]
        BY <1>0, <1>3, Zenon DEF MutexTypes, signal_next_, Goes, Returns
  <2>2. MutexTypes'
    <3>1. turns_' \in [Lock -> [0 .. memory_channels - 1 -> Nat]]
          BY <1>0, <2>0, <2>1, Zenon DEF MutexTypes
    <3>2. pc' = [a \in Block |-> pc'[a]] /\ DOMAIN script' = Block
          BY <1>0, <1>3, Zenon DEF MutexTypes, signal_next_, Goes, Returns
    <3> QED BY <1>0, <2>1, <3>1, <3>2, Zenon DEF MutexTypes
  <2>3. ASSUME NEW m \in Lock, NEW a \in Block
        PROVE  /\ a # b => (Active(a, m)' <=> Active(a, m)) /\ (Inside(a, m)' <=> Inside(a, m))
               /\ ~Active(b, m)' /\ ~Inside(b, m)'
        BY <2>1, <2>3, Zenon DEF Active, Inside, MutexOf, Outside
  <2>4. ASSUME NEW m \in Lock, NEW n \in Nat, Serves(m, n), m # mine PROVE Serves(m, n)'
    <3>1. turns_'[m] = turns_[m]
          BY <1>0, <2>1, <2>4, Zenon DEF MutexTypes
    <3> QED BY <2>1, <2>3, <2>4, <3>1, Zenon DEF Serves
  <2>5. ASSUME NEW n \in Nat, Serves(mine, n) PROVE Serves(mine, n + 1)'
    <3>1. /\ turns_'[mine][slot] = n + 1 /\ ticket[b] = n
          /\ \A i \in 0 .. memory_channels - 1 : i # slot => turns_'[mine][i] = turns_[mine][i]
          BY <1>0, <2>0, <2>1, <2>5, Zenon DEF MutexTypes, Serves, Inside, Outside
    <3>2. Active(b, mine)
          BY <1>0, <2>1, Zenon DEF Active, Outside
    <3>3a. n + 1 <= ticket_'[mine]
          BY <1>0, <2>1, <2>5, <3>1, <3>2 DEF Serves, MutexTypes
    <3>3b. ASSUME NEW i \in 0 .. memory_channels - 1 PROVE turns_'[mine][i] <= n + 1
      <4>1. CASE i = slot
            BY <3>1, <4>1
      <4>2. CASE i # slot
        <5>1. turns_'[mine][i] = turns_[mine][i]
              BY <3>1, <4>2, Zenon
        <5>2. turns_[mine][i] \in Nat /\ turns_[mine][i] <= n
              BY <1>0, <2>5, Zenon DEF Serves, MutexTypes
        <5> QED BY <5>1, <5>2
      <4> QED BY <4>1, <4>2, Zenon
    <3>3. n + 1 <= ticket_'[mine] /\ \A i \in 0 .. memory_channels - 1 : turns_'[mine][i] <= n + 1
          BY <3>3a, <3>3b, Zenon
    <3>4. ASSUME NEW a \in Block, Active(a, mine)'
          PROVE  a # b /\ Active(a, mine) /\ n + 1 <= ticket'[a] /\ ticket'[a] < ticket_'[mine]
          BY <1>0, <2>1, <2>3, <2>5, <3>1, <3>2, <3>4 DEF Serves, MutexTypes
    <3>5. ASSUME NEW a \in Block PROVE ~Inside(a, mine)'
          BY <1>0, <2>3, <2>5, <3>1, <3>2, Zenon DEF Serves, Inside, Active
    <3> QED BY <2>1, <2>5, <3>3, <3>4, <3>5, Zenon DEF Serves
  <2>6. ASSUME NEW m \in Lock PROVE \E n \in Nat : Serves(m, n)'
    <3>1. PICK n \in Nat : Serves(m, n)
          BY Zenon DEF IInv
    <3>2. CASE m = mine
          BY <2>5, <3>1, <3>2
    <3>3. CASE m # mine
          BY <2>4, <3>1, <3>3, Zenon
    <3> QED BY <3>2, <3>3, Zenon
  <2> QED BY <2>2, <2>6, Zenon DEF IInv
<1> QED BY <1>1, <1>2, <1>3, Zenon

\* Every step keeps the inductive invariant: the lock's own, and the neutral ones.
LEMMA NextIInv == IInv /\ [Next]_vars => IInv'
<1> SUFFICES ASSUME IInv, [Next]_vars PROVE IInv'
    BY Zenon
<1>0. pc = [b \in Block |-> pc[b]] /\ DOMAIN script = Block
      BY Zenon DEF IInv, MutexTypes
<1>1. CASE UNCHANGED vars
      BY <1>1 DEF vars, mutex, IInv, MutexTypes, Serves, Active, Inside, MutexOf
<1>2. ASSUME NEW b \in Block, Act(b) PROVE IInv'
  <2>1. CASE grab_ticket_(b) \/ wait_turn_(b) \/ signal_next_(b)
        BY <2>1, MutexKeeps, Zenon
  <2>2. CASE pop_front(b) \/ unlink(b) \/ deallocate_node(b) \/ allocate_node(b)
    <3>1. Neutral(b)
          BY <1>0, <2>2, Zenon DEF pop_front, unlink, deallocate_node, allocate_node,
                            Goes, Stays, Neutral, Outside
    <3> QED BY <3>1, NeutralKeeps, Zenon
  <2>3. CASE take_node(b) \/ insert_node_at_tail(b)
    <3>1. Neutral(b)
          BY <1>0, <2>3, Zenon DEF take_node, insert_node_at_tail, Goes, Stays, Neutral, Outside
    <3> QED BY <3>1, NeutralKeeps, Zenon
  <2>4. CASE no_ctx(b)
    <3>1. Neutral(b)
      <4>1. pc' = [pc EXCEPT ![b] = "app"] /\ pc'[b] = "app" /\ pc[b] = "app"
            BY <1>0, <2>4, Zenon DEF no_ctx
      <4> QED BY <1>0, <2>4, <4>1, Zenon DEF no_ctx, Returns, Neutral, Outside
    <3> QED BY <3>1, NeutralKeeps, Zenon
  <2>5. CASE alloc(b) \/ advance(b) \/ store(b) \/ load(b)
    <3>1. Neutral(b)
          BY <1>0, <2>5, Zenon DEF alloc, advance, store, load, Goes, Stays, Neutral, Outside
    <3> QED BY <3>1, NeutralKeeps, Zenon
  <2>6. CASE sync(b) \/ arrive(b) \/ reset_count(b) \/ raise_signal(b)
    <3>1. Neutral(b)
          BY <1>0, <2>6, Zenon DEF sync, arrive, reset_count, raise_signal, Goes, Stays, Neutral, Outside
    <3> QED BY <3>1, NeutralKeeps, Zenon
  <2>7. CASE sync_done(b)
    <3>1. Neutral(b)
          BY <1>0, <2>7, Zenon DEF sync_done, Goes, Returns, Neutral, Outside
    <3> QED BY <3>1, NeutralKeeps, Zenon
  <2> QED BY <1>2, <2>1, <2>2, <2>3, <2>4, <2>5, <2>6, <2>7, Zenon DEF Act
<1> QED BY <1>1, <1>2, Zenon DEF Next

\* ABQLBlockMutex lets one block at a time into pop_front, push_back or malloc, for
\* every number of blocks, slots, contexts and calls.
THEOREM MutexExcludes == Spec => []MutualExclusion
<1>1. Init => IInv
      BY InitIInv, Zenon
<1>2. IInv /\ [Next]_vars => IInv'
      BY NextIInv, Zenon
<1>3. IInv => MutualExclusion
      BY IInvExcludes, Zenon
<1> QED BY <1>1, <1>2, <1>3, PTL DEF Spec
-----------------------------------------------------------------------------
(***************************************************************************)
(* The calls of a block.                                                   *)
(***************************************************************************)
ScriptInv ==
  /\ pc = [b \in Block |-> pc[b]] /\ reg = [b \in Block |-> reg[b]]
  /\ script \in [Block -> Seq(Call)]
  /\ \A b \in Block : pc[b] # "app" => script[b] # <<>>

\* A step of b stays in a call or ends it.
Moves(b) ==
  /\ \E l : pc' = [pc EXCEPT ![b] = l]
  /\ \E v : reg' = [reg EXCEPT ![b] = v]
  /\ script[b] # <<>>
  /\ script' = script \/ (pc'[b] = "app" /\ Returns(b))

LEMMA ActMoves ==
  ASSUME ScriptInv, NEW b \in Block, Act(b) PROVE Moves(b)
<1>0. pc = [a \in Block |-> pc[a]] /\ reg = [a \in Block |-> reg[a]] /\ (pc[b] # "app" => script[b] # <<>>)
      BY Zenon DEF ScriptInv
<1>1. reg' = reg => \E v : reg' = [reg EXCEPT ![b] = v]
  <2>1. reg = [reg EXCEPT ![b] = reg[b]]
        BY <1>0, Zenon
  <2> QED BY <2>1, Zenon
<1>2. CASE grab_ticket_(b) \/ wait_turn_(b) \/ signal_next_(b)
      BY <1>0, <1>1, <1>2, Zenon DEF grab_ticket_, wait_turn_, signal_next_, Goes, Stays, Returns, Moves, Locks, Calls
<1>3. CASE pop_front(b) \/ unlink(b) \/ deallocate_node(b)
      BY <1>0, <1>1, <1>3, Zenon DEF pop_front, unlink, deallocate_node, Goes, Stays, Moves
<1>4. CASE allocate_node(b) \/ take_node(b) \/ insert_node_at_tail(b)
      BY <1>0, <1>1, <1>4, Zenon DEF allocate_node, take_node, insert_node_at_tail, Goes, Stays, Moves
<1>5. CASE no_ctx(b)
  <2>1. pc' = [pc EXCEPT ![b] = "app"] /\ pc'[b] = "app"
        BY <1>0, <1>5, Zenon DEF no_ctx
  <2> QED BY <1>1, <1>5, <2>1, Zenon DEF no_ctx, Calls, Moves
<1>6. CASE alloc(b) \/ advance(b) \/ store(b) \/ load(b)
      BY <1>0, <1>1, <1>6, Zenon DEF alloc, advance, store, load, Goes, Stays, Moves
<1>7. CASE sync(b) \/ arrive(b) \/ reset_count(b)
      BY <1>0, <1>1, <1>7, Zenon DEF sync, arrive, reset_count, Goes, Stays, Calls, Moves
<1>8. CASE raise_signal(b) \/ sync_done(b)
      BY <1>0, <1>1, <1>8, Zenon DEF raise_signal, sync_done, Goes, Stays, Returns, Moves
<1> QED BY <1>2, <1>3, <1>4, <1>5, <1>6, <1>7, <1>8, Zenon DEF Act

\* What a step of b leaves of the other blocks.
LEMMA MovesOne ==
  ASSUME ScriptInv, NEW b \in Block, Moves(b)
  PROVE  /\ \A a \in Block : a # b => pc'[a] = pc[a] /\ reg'[a] = reg[a] /\ script'[a] = script[a]
         /\ ScriptInv'
<1>1. /\ \A a \in Block : a # b => pc'[a] = pc[a] /\ reg'[a] = reg[a]
      /\ pc' = [a \in Block |-> pc'[a]] /\ reg' = [a \in Block |-> reg'[a]]
      BY Zenon DEF Moves, ScriptInv
<1>2. CASE script' = script
      BY <1>1, <1>2, Zenon DEF ScriptInv, Moves
<1>3. CASE pc'[b] = "app" /\ Returns(b)
  <2>1. script[b] \in Seq(Call) /\ script[b] # <<>>
        BY Zenon DEF Moves, ScriptInv
  <2>2. Tail(script[b]) \in Seq(Call)
        BY <2>1
  <2>3. script' \in [Block -> Seq(Call)] /\ \A a \in Block : a # b => script'[a] = script[a]
        BY <1>3, <2>2, Zenon DEF Returns, ScriptInv
  <2> QED BY <1>1, <1>3, <2>3, Zenon DEF ScriptInv
<1> QED BY <1>2, <1>3, Zenon DEF Moves

LEMMA ScriptInit == Init => ScriptInv
BY SyncAssumption, Zenon DEF Init, ScriptInv

LEMMA NextScript == ScriptInv /\ [Next]_vars => ScriptInv'
<1>1. ASSUME ScriptInv, UNCHANGED vars PROVE ScriptInv'
      BY <1>1, Zenon DEF vars, ScriptInv
<1>2. ASSUME ScriptInv, NEW b \in Block, Act(b) PROVE ScriptInv'
      BY <1>2, ActMoves, MovesOne, Zenon
<1> QED BY <1>1, <1>2, Zenon DEF Next
-----------------------------------------------------------------------------
(***************************************************************************)
(* SlabHeap::malloc.                                                       *)
(***************************************************************************)
Allocating == {"fits", "store", "load"}

\* All the memory given out ends at x or before.
EndsBy(x) == \A a \in Block : \A i \in DOMAIN got[a] : 1 <= got[a][i][1] /\ got[a][i][1] + got[a][i][2] <= x

\* What b works on is the free memory before advance, and the last piece after it.
Piece(b) ==
  /\ Calls(b, "malloc")
  /\ \/ reg[b] = nullptr
     \/ pc[b] = "fits" /\ reg[b] = current_ptr_ /\ current_ptr_ + Size(b) <= 1 + slab_size
     \/ pc[b] # "fits" /\ reg[b] \in Nat /\ reg[b] >= 1 /\ reg[b] + Size(b) = current_ptr_ /\ EndsBy(reg[b])
  /\ pc[b] = "load" => value_ = reg[b]

SlabInv ==
  /\ got \in [Block -> Seq(Nat \X Nat)]
  /\ current_ptr_ \in 1 .. 1 + slab_size /\ EndsBy(current_ptr_)
  /\ \A b \in Block : pc[b] \in Allocating => Piece(b)
  /\ SlabsDisjoint


LEMMA SizeIsNat ==
  ASSUME ScriptInv, NEW b \in Block, Calls(b, "malloc") PROVE Size(b) \in Nat
<1>1. Head(script[b]) \in Call /\ Head(script[b])[1] = "malloc"
      BY DEF Calls, ScriptInv
<1> QED BY <1>1 DEF Call, Size

\* One block at a time is between locked and unlock of malloc.
LEMMA AloneInHeap ==
  ASSUME MutualExclusion, SlabInv, NEW a \in Block, NEW b \in Block,
         pc[a] \in Allocating, pc[b] \in Allocating
  PROVE  a = b
<1>1. \A c \in Block : pc[c] \in Allocating => Inside(c, "slab_heap")
      BY Zenon DEF SlabInv, Piece, Calls, Inside, Outside, Allocating, MutexOf
<1> QED BY <1>1, Zenon DEF MutualExclusion, Lock

LEMMA SlabInit == Init => SlabInv
<1> SUFFICES ASSUME Init PROVE SlabInv
    BY Zenon
<1>1. /\ pc = [b \in Block |-> "app"] /\ current_ptr_ = 1 /\ got = [b \in Block |-> <<>>]
      BY Zenon DEF Init
<1>2. got \in [Block -> Seq(Nat \X Nat)] /\ \A a \in Block : DOMAIN got[a] = {}
      BY <1>1
<1>3. current_ptr_ \in 1 .. 1 + slab_size
      BY <1>1, SyncAssumption
<1> QED BY <1>1, <1>2, <1>3, Zenon DEF SlabInv, EndsBy, SlabsDisjoint, Allocating

\* What is said of the slabs given out stays where no block is given one.
LEMMA SlabsOfGot ==
  ASSUME got' = got
  PROVE (SlabsDisjoint => SlabsDisjoint') /\ \A x : EndsBy(x)' <=> EndsBy(x)
<1> DEFINE Apart(g) ==
      \A a, b \in Block : \A i \in DOMAIN g[a], j \in DOMAIN g[b] :
        LET r == g[a][i]
            s == g[b][j]
        IN  /\ r[1] >= 1 /\ r[1] + r[2] <= 1 + slab_size
            /\ <<a, i>> # <<b, j>> => r[1] + r[2] <= s[1] \/ s[1] + s[2] <= r[1]
<1> DEFINE Ends(g, x) == \A a \in Block : \A i \in DOMAIN g[a] : 1 <= g[a][i][1] /\ g[a][i][1] + g[a][i][2] <= x
<1>1. SlabsDisjoint <=> Apart(got)
      BY Zenon DEF SlabsDisjoint
<1>2. SlabsDisjoint' <=> Apart(got')
      BY Zenon DEF SlabsDisjoint
<1>3. ASSUME NEW x PROVE EndsBy(x) <=> Ends(got, x)
      BY Zenon DEF EndsBy
<1>4. ASSUME NEW x PROVE EndsBy(x)' <=> Ends(got', x)
      BY Zenon DEF EndsBy
<1> HIDE DEF Apart, Ends
<1> QED BY <1>1, <1>2, <1>3, <1>4, Zenon

\* A step of b that leaves the slab alone.
LEMMA SlabApart ==
  ASSUME ScriptInv, SlabInv, NEW b \in Block, Moves(b), UNCHANGED slab,
         pc'[b] \in Allocating => Piece(b)'
  PROVE  SlabInv'
<1>1. current_ptr_' = current_ptr_ /\ value_' = value_ /\ got' = got
      BY Zenon DEF slab
<1>2. EndsBy(current_ptr_)' /\ SlabsDisjoint' /\ \A x : EndsBy(x)' <=> EndsBy(x)
  <2>1. SlabsDisjoint' /\ \A x : EndsBy(x)' <=> EndsBy(x)
        BY <1>1, SlabsOfGot, Zenon DEF SlabInv
  <2>2. EndsBy(current_ptr_) /\ \A x : x = current_ptr_ => (EndsBy(x)' <=> EndsBy(current_ptr_)')
        BY <1>1, Zenon DEF SlabInv, EndsBy
  <2> QED BY <2>1, <2>2, Zenon
<1>3. ASSUME NEW a \in Block, a # b, pc'[a] \in Allocating PROVE Piece(a)'
  <2>1. pc'[a] = pc[a] /\ reg'[a] = reg[a] /\ script'[a] = script[a]
        BY <1>3, MovesOne, Zenon
  <2>2. Piece(a)
        BY <1>3, <2>1, Zenon DEF SlabInv
  <2> QED BY <1>1, <2>1, <2>2, Zenon DEF Piece, Calls, Size, EndsBy
<1> QED BY <1>1, <1>2, <1>3, Zenon DEF SlabInv

LEMMA AllocKeeps ==
  ASSUME ScriptInv, SlabInv, NEW b \in Block, alloc(b) PROVE SlabInv'
<1>1. /\ Moves(b) /\ script' = script /\ UNCHANGED slab /\ pc'[b] = "fits" /\ Calls(b, "malloc")
      /\ reg'[b] = IF Size(b) # 0 /\ current_ptr_ + Size(b) < 1 + slab_size THEN current_ptr_ ELSE nullptr
      /\ current_ptr_' = current_ptr_
      BY ActMoves, Zenon DEF Act, alloc, Goes, Stays, ScriptInv, slab
<1>2. Calls(b, "malloc")' /\ Size(b)' = Size(b)
      BY <1>1, Zenon DEF Calls, Size
<1>3. Size(b) \in Nat /\ current_ptr_ \in Nat /\ slab_size \in Nat
      BY <1>1, SizeIsNat, SyncAssumption DEF SlabInv
<1>4. Piece(b)'
      BY <1>1, <1>2, <1>3 DEF Piece
<1> QED BY <1>1, <1>4, SlabApart, Zenon

\* What the steps of the block in malloc have in common.
LEMMA InHeap ==
  ASSUME MutualExclusion, ScriptInv, SlabInv, NEW b \in Block, pc[b] \in Allocating,
         Moves(b), script' = script
  PROVE  /\ Piece(b) /\ Size(b) \in Nat /\ current_ptr_ \in Nat
         /\ Calls(b, "malloc") /\ Calls(b, "malloc")' /\ Size(b)' = Size(b)
         /\ \A a \in Block : pc'[a] \in Allocating => a = b
<1>1. Piece(b) /\ Calls(b, "malloc") /\ current_ptr_ \in Nat
      BY SyncAssumption DEF SlabInv, Piece
<1>2. Calls(b, "malloc")' /\ Size(b)' = Size(b)
      BY <1>1, Zenon DEF Calls, Size
<1>3. \A a \in Block : pc'[a] \in Allocating => a = b
      BY MovesOne, AloneInHeap, Zenon
<1> QED BY <1>1, <1>2, <1>3, SizeIsNat, Zenon

LEMMA AdvanceKeeps ==
  ASSUME MutualExclusion, ScriptInv, SlabInv, NEW b \in Block, advance(b) PROVE SlabInv'
<1>1. /\ Moves(b) /\ script' = script /\ pc[b] = "fits" /\ pc'[b] = "store" /\ reg' = reg /\ got' = got
      /\ current_ptr_' = IF reg[b] = nullptr THEN current_ptr_ ELSE reg[b] + Size(b)
      BY ActMoves, Zenon DEF Act, advance, Goes, Stays, ScriptInv
<1>2. /\ Piece(b) /\ Size(b) \in Nat /\ current_ptr_ \in Nat /\ Calls(b, "malloc")' /\ Size(b)' = Size(b)
      /\ \A a \in Block : pc'[a] \in Allocating => a = b
      BY <1>1, InHeap, Zenon DEF Allocating
<1>3. reg[b] # nullptr => reg[b] = current_ptr_ /\ current_ptr_ + Size(b) <= 1 + slab_size
      BY <1>1, <1>2, Zenon DEF Piece
<1>4. current_ptr_ >= 1 /\ current_ptr_ <= 1 + slab_size /\ slab_size \in Nat
      BY SyncAssumption DEF SlabInv
<1>5. current_ptr_' \in 1 .. 1 + slab_size /\ current_ptr_ <= current_ptr_'
      BY <1>1, <1>2, <1>3, <1>4
<1>6. ASSUME NEW a \in Block, NEW i \in DOMAIN got[a]
      PROVE  got[a][i][1] \in Nat /\ got[a][i][2] \in Nat
  <2>1. got[a] \in Seq(Nat \X Nat)
        BY Zenon DEF SlabInv
  <2>2. got[a][i] \in Nat \X Nat
        BY <2>1
  <2> QED BY <2>2, Zenon
<1>7. EndsBy(current_ptr_) /\ EndsBy(current_ptr_)'
  <2>1. EndsBy(current_ptr_)
        BY Zenon DEF SlabInv
  <2>2. PICK x, y \in Nat : x = current_ptr_ /\ y = current_ptr_' /\ x <= y
    <3>1. current_ptr_' \in Nat
          BY <1>4, <1>5
    <3> QED BY <1>2, <1>5, <3>1, Zenon
  <2>3. ASSUME NEW a \in Block, NEW i \in DOMAIN got[a]
        PROVE  1 <= got[a][i][1] /\ got[a][i][1] + got[a][i][2] <= y
    <3>1. PICK u, v \in Nat : u = got[a][i][1] /\ v = got[a][i][2]
          BY <1>6, Zenon
    <3>2. 1 <= u /\ u + v <= x
          BY <2>1, <2>2, <3>1, Zenon DEF EndsBy
    <3>3. u + v <= y
          BY <2>2, <3>2
    <3> QED BY <3>1, <3>2, <3>3, Zenon
  <2>4. EndsBy(current_ptr_)'
        BY <1>1, <2>2, <2>3, Zenon DEF EndsBy
  <2> QED BY <2>1, <2>4
<1>8. Piece(b)'
  <2>1. CASE reg[b] = nullptr
        BY <1>1, <1>2, <2>1, Zenon DEF Piece
  <2>2. CASE reg[b] # nullptr
    <3>1. EndsBy(reg[b])'
          BY <1>1, <1>3, <1>7, <2>2, Zenon DEF EndsBy
    <3>2. reg'[b] = current_ptr_ /\ reg'[b] \in Nat /\ reg'[b] >= 1 /\ reg'[b] + Size(b)' = current_ptr_'
          BY <1>1, <1>2, <1>3, <1>4, <2>2, Zenon
    <3> QED BY <1>1, <1>2, <3>1, <3>2, Zenon DEF Piece
  <2> QED BY <2>1, <2>2, Zenon
<1>9. SlabsDisjoint'
  <2>1. got' = got /\ SlabsDisjoint
        BY <1>1, Zenon DEF SlabInv
  <2> QED BY <2>1, SlabsOfGot, Zenon
<1> QED BY <1>1, <1>2, <1>5, <1>7, <1>8, <1>9, Zenon DEF SlabInv

LEMMA StoreKeeps ==
  ASSUME MutualExclusion, ScriptInv, SlabInv, NEW b \in Block, store(b) PROVE SlabInv'
<1>1. /\ Moves(b) /\ script' = script /\ pc[b] = "store" /\ pc'[b] = "load" /\ reg' = reg /\ got' = got
      /\ current_ptr_' = current_ptr_ /\ value_' = reg[b]
      BY ActMoves, Zenon DEF Act, store, Goes, Stays, ScriptInv
<1>2. /\ Piece(b) /\ Calls(b, "malloc")' /\ Size(b)' = Size(b)
      /\ \A a \in Block : pc'[a] \in Allocating => a = b
      BY <1>1, InHeap, Zenon DEF Allocating
<1>3. Piece(b)'
      BY <1>1, <1>2, Zenon DEF Piece, EndsBy
<1>4. EndsBy(current_ptr_)' /\ SlabsDisjoint'
  <2>1. SlabsDisjoint' /\ \A x : EndsBy(x)' <=> EndsBy(x)
        BY <1>1, SlabsOfGot, Zenon DEF SlabInv
  <2>2. EndsBy(current_ptr_) /\ \A x : x = current_ptr_ => (EndsBy(x)' <=> EndsBy(current_ptr_)')
        BY <1>1, Zenon DEF SlabInv, EndsBy
  <2> QED BY <2>1, <2>2, Zenon
<1> QED BY <1>1, <1>2, <1>3, <1>4, Zenon DEF SlabInv

LEMMA LoadKeeps ==
  ASSUME MutualExclusion, ScriptInv, SlabInv, NEW b \in Block, load(b) PROVE SlabInv'
<1>1. /\ Moves(b) /\ script' = script /\ pc[b] = "load" /\ pc'[b] = "unlock" /\ reg' = reg
      /\ got' = IF value_ = nullptr THEN got ELSE [got EXCEPT ![b] = Append(@, <<value_, Size(b)>>)]
      /\ current_ptr_' = current_ptr_ /\ value_' = value_
      BY ActMoves, Zenon DEF Act, load, Goes, Stays, ScriptInv
<1>2. /\ Piece(b) /\ Size(b) \in Nat /\ current_ptr_ \in Nat
      /\ \A a \in Block : pc'[a] \notin Allocating
      BY <1>1, InHeap, Zenon DEF Allocating
<1>3. CASE value_ = nullptr
  <2>1. EndsBy(current_ptr_)' /\ SlabsDisjoint' /\ got' = got
    <3>1. got' = got /\ current_ptr_' = current_ptr_
          BY <1>1, <1>3, Zenon
    <3>2. SlabsDisjoint' /\ \A x : EndsBy(x)' <=> EndsBy(x)
          BY <3>1, SlabsOfGot, Zenon DEF SlabInv
    <3>3. EndsBy(current_ptr_) /\ \A x : x = current_ptr_ => (EndsBy(x)' <=> EndsBy(current_ptr_)')
          BY <3>1, Zenon DEF SlabInv, EndsBy
    <3> QED BY <3>1, <3>2, <3>3, Zenon
  <2> QED BY <1>1, <1>2, <2>1, Zenon DEF SlabInv
<1>4. CASE value_ # nullptr
  <2>1. PICK v \in Nat : v = value_ /\ v >= 1 /\ v + Size(b) = current_ptr_ /\ EndsBy(v)
        BY <1>1, <1>2, <1>4, Zenon DEF Piece
  <2>2. PICK n \in Nat : n = Size(b)
        BY <1>2, Zenon
  <2>3. got \in [Block -> Seq(Nat \X Nat)] /\ <<v, n>> \in Nat \X Nat
        BY Zenon DEF SlabInv
  <2>4. got' = [got EXCEPT ![b] = Append(got[b], <<v, n>>)]
        BY <1>1, <1>4, <2>1, <2>2, Zenon
  <2>5. PICK l \in Nat : l = Len(got[b]) + 1
        BY <2>3
  <2>6. /\ Append(got[b], <<v, n>>) \in Seq(Nat \X Nat)
        /\ DOMAIN Append(got[b], <<v, n>>) = 1 .. l /\ Append(got[b], <<v, n>>)[l] = <<v, n>>
        /\ DOMAIN got[b] = 1 .. l - 1
        /\ \A i \in 1 .. l - 1 : Append(got[b], <<v, n>>)[i] = got[b][i]
        BY <2>3, <2>5
  <2>7. got' \in [Block -> Seq(Nat \X Nat)]
        BY <2>3, <2>4, <2>6, Zenon
  <2>8. ASSUME NEW a \in Block, NEW i \in DOMAIN got'[a]
        PROVE  \/ i \in DOMAIN got[a] /\ got'[a][i] = got[a][i]
               \/ a = b /\ i = l /\ got'[a][i] = <<v, n>>
    <3>1. CASE a # b
          BY <2>3, <2>4, <3>1, Zenon
    <3>2. CASE a = b
      <4>1. got'[a] = Append(got[b], <<v, n>>)
            BY <2>3, <2>4, <3>2, Zenon
      <4>2. i \in 1 .. l - 1 \/ i = l
            BY <2>6, <4>1
      <4> QED BY <2>6, <3>2, <4>1, <4>2, Zenon
    <3> QED BY <3>1, <3>2, Zenon
  <2>9. ASSUME NEW a \in Block, NEW i \in DOMAIN got[a]
        PROVE  /\ got[a][i][1] \in Nat /\ got[a][i][2] \in Nat
               /\ 1 <= got[a][i][1] /\ got[a][i][1] + got[a][i][2] <= v
    <3>1. got[a][i] \in Nat \X Nat
      <4>1. got[a] \in Seq(Nat \X Nat)
            BY <2>3, Zenon
      <4> QED BY <4>1
    <3> QED BY <2>1, <3>1, Zenon DEF EndsBy
  <2>10. v + n = current_ptr_ /\ v <= current_ptr_ /\ v + n <= 1 + slab_size /\ <<v, n>>[1] = v /\ <<v, n>>[2] = n
        BY <2>1, <2>2, SyncAssumption DEF SlabInv
  <2>11. EndsBy(current_ptr_)'
    <3> SUFFICES ASSUME NEW a \in Block, NEW i \in DOMAIN got'[a]
                 PROVE  1 <= got'[a][i][1] /\ got'[a][i][1] + got'[a][i][2] <= current_ptr_
        BY <1>1, Zenon DEF EndsBy
    <3>1. CASE i \in DOMAIN got[a] /\ got'[a][i] = got[a][i]
          BY <1>2, <2>9, <2>10, <3>1
    <3>2. CASE a = b /\ i = l /\ got'[a][i] = <<v, n>>
          BY <2>1, <2>10, <3>2
    <3> QED BY <2>8, <3>1, <3>2, Zenon
  <2>12. SlabsDisjoint'
    <3> SUFFICES ASSUME NEW a \in Block, NEW c \in Block, NEW i \in DOMAIN got'[a], NEW j \in DOMAIN got'[c]
                 PROVE  /\ got'[a][i][1] >= 1 /\ got'[a][i][1] + got'[a][i][2] <= 1 + slab_size
                        /\ <<a, i>> # <<c, j>> => \/ got'[a][i][1] + got'[a][i][2] <= got'[c][j][1]
                                                  \/ got'[c][j][1] + got'[c][j][2] <= got'[a][i][1]
        BY Zenon DEF SlabsDisjoint
    <3> DEFINE Old(x, k) == k \in DOMAIN got[x] /\ got'[x][k] = got[x][k]
               New(x, k) == x = b /\ k = l /\ got'[x][k] = <<v, n>>
    <3>1. (Old(a, i) \/ New(a, i)) /\ (Old(c, j) \/ New(c, j))
          BY <2>8, Zenon
    <3>2. CASE Old(a, i) /\ Old(c, j)
          BY <3>2, Zenon DEF SlabInv, SlabsDisjoint
    <3>3. CASE Old(a, i) /\ New(c, j)
          BY <2>1, <2>9, <2>10, <3>3, SyncAssumption
    <3>4. CASE New(a, i) /\ Old(c, j)
          BY <2>1, <2>9, <2>10, <3>4, SyncAssumption, Zenon
    <3>5. CASE New(a, i) /\ New(c, j)
          BY <2>1, <2>10, <3>5, Zenon
    <3> QED BY <3>1, <3>2, <3>3, <3>4, <3>5, Zenon
  <2> QED BY <1>1, <1>2, <2>7, <2>11, <2>12, Zenon DEF SlabInv
<1> QED BY <1>3, <1>4, Zenon

LEMMA NextSlab == MutualExclusion /\ ScriptInv /\ SlabInv /\ [Next]_vars => SlabInv'
<1> SUFFICES ASSUME MutualExclusion, ScriptInv, SlabInv, [Next]_vars PROVE SlabInv'
    BY Zenon
<1>0. pc = [b \in Block |-> pc[b]]
      BY Zenon DEF ScriptInv
<1>1. CASE UNCHANGED vars
  <2>1. /\ pc' = pc /\ reg' = reg /\ script' = script /\ got' = got
        /\ current_ptr_' = current_ptr_
        BY <1>1, Zenon DEF vars, slab
  <2>2. SlabsDisjoint'
        BY <2>1, SlabsOfGot, Zenon DEF SlabInv
  <2>4. EndsBy(current_ptr_)'
    <3>1. EndsBy(current_ptr_) /\ \A x : x = current_ptr_ => (EndsBy(x)' <=> EndsBy(current_ptr_)')
          BY <2>1, Zenon DEF SlabInv, EndsBy
    <3> QED BY <2>1, <3>1, SlabsOfGot, Zenon
  <2>3. ASSUME NEW b \in Block PROVE Piece(b)' <=> Piece(b)
    <3>1. value_' = value_ /\ Size(b)' = Size(b) /\ (Calls(b, "malloc")' <=> Calls(b, "malloc"))
          BY <1>1, <2>1, Zenon DEF Size, Calls, vars, slab
    <3>2. EndsBy(reg[b])' <=> EndsBy(reg[b])
      <4>1. \A x : x = reg[b] => (EndsBy(x)' <=> EndsBy(reg[b])')
            BY <2>1, Zenon DEF EndsBy
      <4> QED BY <2>1, <4>1, SlabsOfGot, Zenon
    <3> QED BY <2>1, <3>1, <3>2, SMTT(30) DEF Piece
  <2> QED BY <2>1, <2>2, <2>3, <2>4, Zenon DEF SlabInv
<1>2. ASSUME NEW b \in Block, Act(b) PROVE SlabInv'
  <2>0. Moves(b)
        BY <1>2, ActMoves, Zenon
  <2>1. CASE grab_ticket_(b) \/ wait_turn_(b) \/ signal_next_(b)
    <3>1. UNCHANGED slab /\ pc'[b] \notin Allocating
          BY <1>0, <2>1, Zenon DEF grab_ticket_, wait_turn_, signal_next_, Goes, Allocating
    <3> QED BY <2>0, <3>1, SlabApart, Zenon
  <2>2. CASE pop_front(b) \/ unlink(b) \/ deallocate_node(b)
    <3>1. UNCHANGED slab /\ pc'[b] \notin Allocating
          BY <1>0, <2>2, Zenon DEF pop_front, unlink, deallocate_node, Goes, Allocating
    <3> QED BY <2>0, <3>1, SlabApart, Zenon
  <2>3. CASE allocate_node(b) \/ take_node(b) \/ insert_node_at_tail(b) \/ no_ctx(b)
    <3>1. UNCHANGED slab /\ pc'[b] \notin Allocating
          BY <1>0, <2>3, Zenon DEF allocate_node, take_node, insert_node_at_tail, no_ctx, Goes, Allocating
    <3> QED BY <2>0, <3>1, SlabApart, Zenon
  <2>4. CASE alloc(b) \/ advance(b) \/ store(b) \/ load(b)
        BY <2>4, AllocKeeps, AdvanceKeeps, StoreKeeps, LoadKeeps, Zenon
  <2>5. CASE sync(b) \/ arrive(b) \/ reset_count(b) \/ raise_signal(b) \/ sync_done(b)
    <3>1. UNCHANGED slab /\ pc'[b] \notin Allocating
          BY <1>0, <2>5, Zenon DEF sync, arrive, reset_count, raise_signal, sync_done, Goes, Allocating
    <3> QED BY <2>0, <3>1, SlabApart, Zenon
  <2> QED BY <1>2, <2>1, <2>2, <2>3, <2>4, <2>5, Zenon DEF Act
<1> QED BY <1>1, <1>2, Zenon DEF Next

\* SlabHeap::malloc never gives out memory past the heap, nor the same byte twice, for
\* every number of blocks, size of the heap and sequence of sizes: the address each
\* block reads from the shared notifier is the one computed for it.
THEOREM SlabsNeverOverlap == Spec => []SlabsDisjoint
<1>1. Init => IInv /\ ScriptInv /\ SlabInv
      BY InitIInv, ScriptInit, SlabInit, Zenon
<1>2. IInv /\ ScriptInv /\ SlabInv /\ [Next]_vars => (IInv /\ ScriptInv /\ SlabInv)'
      BY NextIInv, IInvExcludes, NextScript, NextSlab, Zenon
<1>3. SlabInv => SlabsDisjoint
      BY Zenon DEF SlabInv
<1> QED BY <1>1, <1>2, <1>3, PTL DEF Spec

-----------------------------------------------------------------------------
(***************************************************************************)
(* Linked lists.  That a list has no node but those reached from its head  *)
(* is said with closed sets, so that no step needs an induction.           *)
(***************************************************************************)
ClosedUnder(nx, S) == \A x \in S : nx[x] # nullptr => nx[x] \in S

\* L are the nodes of the list that starts at n, linked by nx.
IsList(nx, n, L) ==
  /\ L \subseteq Context /\ ClosedUnder(nx, L)
  /\ n = nullptr => L = {}
  /\ n # nullptr => n \in L
  /\ \A S \in SUBSET Context : n \in S /\ ClosedUnder(nx, S) => L \subseteq S
  /\ n # nullptr => \A x \in L : nx[x] # n
  /\ \A x, y \in L : nx[x] = nx[y] /\ nx[x] # nullptr => x = y

LEMMA NullIsNoNode == nullptr \notin Context
BY DEF nullptr, Context

LEMMA ListIsFrom ==
  ASSUME NEW n, NEW L, IsList(next, n, L) PROVE From(n) = L
<1>1. CASE n = nullptr
      BY <1>1, Zenon DEF IsList, From
<1>2. CASE n # nullptr
  <2>1. \A S : Closed(S) <=> ClosedUnder(next, S)
        BY Zenon DEF Closed, ClosedUnder
  <2>2. n \in L /\ Closed(L) /\ L \in SUBSET Context
        BY <1>2, <2>1, Zenon DEF IsList
  <2>3. ASSUME NEW x \in From(n) PROVE x \in L
        BY <1>2, <2>2, Zenon DEF From
  <2>4. ASSUME NEW x \in L PROVE x \in From(n)
        BY <1>2, <2>1, <2>2, Zenon DEF From, IsList
  <2> QED BY <2>3, <2>4, Zenon
<1> QED BY <1>1, <1>2, Zenon

\* The list without its head.
LEMMA ListPop ==
  ASSUME NEW nx, NEW n, NEW L, IsList(nx, n, L), n # nullptr
  PROVE  /\ IsList(nx, nx[n], L \ {n})
         /\ nx[n] = nullptr <=> L \ {n} = {}
<1>1. /\ n \in L /\ L \subseteq Context /\ ClosedUnder(nx, L) /\ \A x \in L : nx[x] # n
      /\ \A x, y \in L : nx[x] = nx[y] /\ nx[x] # nullptr => x = y
      BY Zenon DEF IsList
<1>2. PICK m : m = nx[n]
      BY Zenon
<1>3. ClosedUnder(nx, L \ {n})
      BY <1>1, Zenon DEF ClosedUnder
<1>4. m # nullptr => m \in L \ {n}
      BY <1>1, <1>2, Zenon DEF ClosedUnder
<1>5. m = nullptr => L \ {n} = {}
  <2> SUFFICES ASSUME m = nullptr PROVE L \ {n} = {}
      BY Zenon
  <2>1. {n} \in SUBSET Context /\ ClosedUnder(nx, {n})
        BY <1>1, <1>2, Zenon DEF ClosedUnder
  <2> QED BY <2>1, Zenon DEF IsList
<1>6. ASSUME NEW S \in SUBSET Context, m \in S, ClosedUnder(nx, S) PROVE L \ {n} \subseteq S
  <2>1. S \union {n} \in SUBSET Context /\ ClosedUnder(nx, S \union {n})
        BY <1>1, <1>2, <1>6, Zenon DEF ClosedUnder
  <2>2. L \subseteq S \union {n}
        BY <2>1, Zenon DEF IsList
  <2> QED BY <2>2, Zenon
<1>7. m # nullptr => \A x \in L \ {n} : nx[x] # m
      BY <1>1, <1>2, Zenon
<1>8. IsList(nx, m, L \ {n})
      BY <1>1, <1>3, <1>4, <1>5, <1>6, <1>7, Zenon DEF IsList
<1> QED BY <1>2, <1>4, <1>5, <1>8, Zenon

\* Links elsewhere are of no concern to a list.
LEMMA ListSame ==
  ASSUME NEW nx, NEW ny, NEW n, NEW L, IsList(nx, n, L), \A x \in L : ny[x] = nx[x]
  PROVE  IsList(ny, n, L)
<1>1. L \subseteq Context /\ ClosedUnder(nx, L) /\ (n # nullptr => n \in L)
      BY Zenon DEF IsList
<1>2. ClosedUnder(ny, L)
      BY <1>1, Zenon DEF ClosedUnder
<1>3. ASSUME NEW S \in SUBSET Context, n \in S, ClosedUnder(ny, S) PROVE L \subseteq S
  <2>1. n # nullptr
        BY <1>3, NullIsNoNode, Zenon
  <2>2. S \intersect L \in SUBSET Context /\ ClosedUnder(nx, S \intersect L) /\ n \in S \intersect L
        BY <1>1, <1>3, <2>1, Zenon DEF ClosedUnder
  <2>3. L \subseteq S \intersect L
        BY <2>2, Zenon DEF IsList
  <2> QED BY <2>3, Zenon
<1> QED BY <1>2, <1>3, Zenon DEF IsList

\* A new head.
LEMMA ListPush ==
  ASSUME NEW nx, NEW ny, NEW n, NEW L, IsList(nx, n, L), \A y \in L : ny[y] = nx[y],
         NEW x \in Context, x \notin L, ny[x] = n
  PROVE  IsList(ny, x, L \union {x})
<1>1. IsList(ny, n, L)
      BY ListSame, Zenon
<1>2. /\ L \subseteq Context /\ ClosedUnder(ny, L) /\ (n # nullptr => n \in L) /\ (n = nullptr => L = {})
      /\ (n # nullptr => \A y \in L : ny[y] # n)
      /\ \A y, z \in L : ny[y] = ny[z] /\ ny[y] # nullptr => y = z
      BY <1>1, Zenon DEF IsList
<1>3. x # nullptr
      BY NullIsNoNode, Zenon
<1>4. ClosedUnder(ny, L \union {x})
      BY <1>2, Zenon DEF ClosedUnder
<1>5. ASSUME NEW S \in SUBSET Context, x \in S, ClosedUnder(ny, S) PROVE L \union {x} \subseteq S
  <2>1. CASE n = nullptr
        BY <1>2, <1>5, <2>1, Zenon
  <2>2. CASE n # nullptr
    <3>1. n \in S
          BY <1>5, <2>2, Zenon DEF ClosedUnder
    <3> QED BY <1>1, <1>5, <3>1, Zenon DEF IsList
  <2> QED BY <2>1, <2>2, Zenon
<1>6. \A y \in L \union {x} : ny[y] # x
      BY <1>2, <1>3, Zenon DEF ClosedUnder
<1>7. \A y, z \in L \union {x} : ny[y] = ny[z] /\ ny[y] # nullptr => y = z
      BY <1>2, Zenon
<1> QED BY <1>2, <1>3, <1>4, <1>5, <1>6, <1>7, Zenon DEF IsList

\* A new last node, behind t.
LEMMA ListAppend ==
  ASSUME NEW nx, NEW ny, NEW n, NEW L, IsList(nx, n, L), NEW t \in L, nx[t] = nullptr,
         \A y \in L \ {t} : ny[y] = nx[y],
         NEW x \in Context, x \notin L, ny[t] = x, ny[x] = nullptr
  PROVE  IsList(ny, n, L \union {x})
<1>1. /\ L \subseteq Context /\ ClosedUnder(nx, L) /\ (n # nullptr => n \in L) /\ (n = nullptr => L = {})
      /\ (n # nullptr => \A y \in L : nx[y] # n)
      /\ \A y, z \in L : nx[y] = nx[z] /\ nx[y] # nullptr => y = z
      BY Zenon DEF IsList
<1>2. n # nullptr /\ n \in L /\ x # nullptr
      BY <1>1, NullIsNoNode, Zenon
<1>3. ClosedUnder(ny, L \union {x})
      BY <1>1, Zenon DEF ClosedUnder
<1>4. ASSUME NEW S \in SUBSET Context, n \in S, ClosedUnder(ny, S) PROVE L \union {x} \subseteq S
  <2>1. S \intersect L \in SUBSET Context /\ n \in S \intersect L
        BY <1>2, <1>4, Zenon
  <2>2. ClosedUnder(nx, S \intersect L)
        BY <1>1, <1>4, Zenon DEF ClosedUnder
  <2>3. L \subseteq S
        BY <2>1, <2>2, Zenon DEF IsList
  <2>4. x \in S
        BY <1>2, <1>4, <2>3, Zenon DEF ClosedUnder
  <2> QED BY <2>3, <2>4, Zenon
<1>5. \A y \in L \union {x} : ny[y] # n
      BY <1>1, <1>2, Zenon
<1>6. \A y, z \in L \union {x} : ny[y] = ny[z] /\ ny[y] # nullptr => y = z
      BY <1>1, <1>2 DEF ClosedUnder
<1> QED BY <1>1, <1>2, <1>3, <1>4, <1>5, <1>6, Zenon DEF IsList

-----------------------------------------------------------------------------
(***************************************************************************)
(* Notifier::sync.                                                         *)
(***************************************************************************)
Syncing == {"arrive", "last", "signal", "spin"}

\* The blocks that count_ counts when signal_ has been raised r times.
Counted(r) == {b \in Block : pc[b] \in {"last", "signal"} \/ (pc[b] = "spin" /\ rounds[b] = r)}

\* signal_ has been raised r times: who is not in sync has returned r times, who is
\* waits for the next signal or has yet to see the last one.
Abreast(b, r) ==
  /\ pc[b] \notin Syncing => rounds[b] = r
  /\ pc[b] \in {"arrive", "last", "signal"} => rounds[b] = r /\ reg[b] = (signal_ + 1) % WORD
  /\ pc[b] = "spin" => \/ rounds[b] = r /\ reg[b] = (signal_ + 1) % WORD
                       \/ rounds[b] + 1 = r /\ reg[b] = signal_

Raised(r) ==
  /\ \A b \in Block : Abreast(b, r)
  /\ \A b \in Block : pc[b] \in {"last", "signal"} => Counted(r) = Block
  /\ \A a, b \in Block : pc[a] \in {"last", "signal"} /\ pc[b] \in {"last", "signal"} => a = b
  /\ count_ = IF \E b \in Block : pc[b] = "signal" THEN 0 ELSE Cardinality(Counted(r))

NotifierInv ==
  /\ pc = [b \in Block |-> pc[b]] /\ reg = [b \in Block |-> reg[b]]
  /\ rounds \in [Block -> Nat] /\ signal_ \in 0 .. WORD - 1
  /\ \E r \in Nat : Raised(r)


\* The next signal is another one, and (signal_ + 1) % WORD is one.
LEMMA NextSignal ==
  ASSUME NEW s \in 0 .. WORD - 1
  PROVE  (s + 1) % WORD \in 0 .. WORD - 1 /\ (s + 1) % WORD # s
<1>1. WORD \in Nat /\ WORD >= 2 /\ s \in Nat /\ s <= WORD - 1
      BY SyncAssumption
<1>2. CASE s + 1 = WORD
  <2>1. WORD % WORD = 0
        BY <1>1
  <2> QED BY <1>1, <1>2, <2>1
<1>3. CASE s + 1 < WORD
  <2>1. (s + 1) % WORD = s + 1
        BY <1>1, <1>3
  <2> QED BY <1>1, <1>3, <2>1
<1> QED BY <1>1, <1>2, <1>3

LEMMA CountedFinite ==
  ASSUME NEW r
  PROVE  /\ IsFiniteSet(Counted(r)) /\ Cardinality(Counted(r)) \in Nat
         /\ IsFiniteSet(Counted(r))' /\ Cardinality(Counted(r))' \in Nat
<1>1. Counted(r) \subseteq Block /\ Counted(r)' \subseteq Block /\ IsFiniteSet(Block)
      BY SyncAssumption, Zenon DEF Counted
<1> QED BY <1>1, FS_Subset, FS_CardinalityType, Zenon

LEMMA NotifierInit == Init => NotifierInv
<1> SUFFICES ASSUME Init PROVE NotifierInv
    BY Zenon
<1>1. /\ pc = [b \in Block |-> "app"] /\ reg = [b \in Block |-> nullptr]
      /\ count_ = 0 /\ signal_ = 0 /\ rounds = [b \in Block |-> 0]
      BY Zenon DEF Init
<1>2. Counted(0) = {}
      BY <1>1, Zenon DEF Counted
<1>3. Raised(0)
      BY <1>1, <1>2, FS_EmptySet, Zenon DEF Abreast, Raised, Syncing
<1>4. 0 \in 0 .. WORD - 1
      BY SyncAssumption
<1> QED BY <1>1, <1>3, <1>4, Zenon DEF NotifierInv

\* A step of b outside sync.
Apart(b) ==
  /\ UNCHANGED notifier
  /\ \E l : pc' = [pc EXCEPT ![b] = l]
  /\ \E v : reg' = [reg EXCEPT ![b] = v]
  /\ pc[b] \notin Syncing /\ pc'[b] \notin Syncing

LEMMA ApartKeeps ==
  ASSUME NotifierInv, NEW b \in Block, Apart(b) PROVE NotifierInv'
<1>1. /\ \A a \in Block : a # b => pc'[a] = pc[a] /\ reg'[a] = reg[a]
      /\ pc' = [a \in Block |-> pc'[a]] /\ reg' = [a \in Block |-> reg'[a]]
      /\ rounds' = rounds /\ count_' = count_ /\ signal_' = signal_
      /\ pc[b] \notin Syncing /\ pc'[b] \notin Syncing
      BY Zenon DEF Apart, NotifierInv, notifier
<1>2. ASSUME NEW r \in Nat, Raised(r) PROVE Raised(r)'
  <2>1. Counted(r)' = Counted(r)
        BY <1>1, Zenon DEF Counted, Syncing
  <2>2. (\E a \in Block : pc'[a] = "signal") <=> (\E a \in Block : pc[a] = "signal")
        BY <1>1, Zenon DEF Syncing
  <2>3. \A a \in Block : pc'[a] \in {"last", "signal"} => pc[a] \in {"last", "signal"}
        BY <1>1, Zenon DEF Syncing
  <2>4. ASSUME NEW a \in Block
        PROVE  Abreast(a, r)'
    <3>1. CASE a # b
          BY <1>1, <1>2, <3>1, Zenon DEF Abreast, Raised
    <3>2. CASE a = b
      <4>1. rounds[b] = r
            BY <1>1, <1>2, Zenon DEF Abreast, Raised
      <4> QED BY <1>1, <3>2, <4>1, Zenon DEF Abreast, Syncing
    <3> QED BY <3>1, <3>2, Zenon
  <2> QED BY <1>1, <1>2, <2>1, <2>2, <2>3, <2>4, Zenon DEF Raised
<1> QED BY <1>1, <1>2, Zenon DEF NotifierInv

\* What the places of the other blocks are good for: they stay as they are.
LEMMA OthersStay ==
  ASSUME NotifierInv, NEW r \in Nat, Raised(r), NEW b \in Block, signal_' = signal_,
         \A a \in Block : a # b => pc'[a] = pc[a] /\ reg'[a] = reg[a] /\ rounds'[a] = rounds[a]
  PROVE  \A a \in Block : a # b => Abreast(a, r)'
BY Zenon DEF Raised, Abreast

LEMMA SyncKeeps ==
  ASSUME NotifierInv, NEW b \in Block, sync(b) PROVE NotifierInv'
<1>1. /\ pc[b] = "app" /\ pc'[b] = "arrive" /\ reg'[b] = (signal_ + 1) % WORD
      /\ \A a \in Block : a # b => pc'[a] = pc[a] /\ reg'[a] = reg[a]
      /\ pc' = [a \in Block |-> pc'[a]] /\ reg' = [a \in Block |-> reg'[a]]
      /\ rounds' = rounds /\ count_' = count_ /\ signal_' = signal_
      BY Zenon DEF sync, Goes, NotifierInv, notifier
<1>2. ASSUME NEW r \in Nat, Raised(r) PROVE Raised(r)'
  <2>1. rounds[b] = r
        BY <1>1, <1>2, Zenon DEF Abreast, Raised, Syncing
  <2>2. Counted(r)' = Counted(r)
        BY <1>1, Zenon DEF Counted
  <2>3. (\E a \in Block : pc'[a] = "signal") <=> (\E a \in Block : pc[a] = "signal")
        BY <1>1, Zenon
  <2>4. \A a \in Block : pc'[a] \in {"last", "signal"} => pc[a] \in {"last", "signal"}
        BY <1>1, Zenon
  <2>5. rounds'[b] = r /\ reg'[b] = (signal_' + 1) % WORD /\ pc'[b] \in Syncing /\ pc'[b] # "spin"
        BY <1>1, <2>1, Zenon DEF Syncing
  <2>6. \A a \in Block : a # b => pc'[a] = pc[a] /\ reg'[a] = reg[a] /\ rounds'[a] = rounds[a]
        BY <1>1, Zenon
  <2>7. \A a \in Block : Abreast(a, r)'
    <3>1. Abreast(b, r)'
          BY <2>5, Zenon DEF Abreast
    <3> QED BY <1>1, <1>2, <2>6, <3>1, OthersStay, Zenon
  <2> QED BY <1>1, <1>2, <2>2, <2>3, <2>4, <2>7, Zenon DEF Raised
<1> QED BY <1>1, <1>2, Zenon DEF NotifierInv

\* The block that finds count_ at the number of the others is the last: all are counted.
LEMMA ArriveKeeps ==
  ASSUME NotifierInv, NEW b \in Block, arrive(b) PROVE NotifierInv'
<1>1. /\ pc[b] = "arrive" /\ pc'[b] = (IF count_ = Cardinality(Block) - 1 THEN "last" ELSE "spin")
      /\ \A a \in Block : a # b => pc'[a] = pc[a]
      /\ pc' = [a \in Block |-> pc'[a]] /\ reg' = reg
      /\ rounds' = rounds /\ count_' = count_ + 1 /\ signal_' = signal_
      BY Zenon DEF arrive, Goes, NotifierInv
<1>2. ASSUME NEW r \in Nat, Raised(r) PROVE Raised(r)'
  <2>1. rounds[b] = r /\ reg[b] = (signal_ + 1) % WORD
        BY <1>1, <1>2, Zenon DEF Abreast, Raised
  <2>2. b \notin Counted(r)
        BY <1>1, Zenon DEF Counted
  <2>3. \A a \in Block : pc[a] \notin {"last", "signal"}
        BY <1>2, <2>2, Zenon DEF Raised
  <2>4. Counted(r)' = Counted(r) \union {b}
        BY <1>1, <2>1, Zenon DEF Counted
  <2>5. count_ = Cardinality(Counted(r))
        BY <1>2, <2>3, Zenon DEF Raised
  <2>6. count_' = Cardinality(Counted(r)')
    <3>1. Cardinality(Counted(r) \union {b}) = Cardinality(Counted(r)) + 1
          BY <2>2, CountedFinite, FS_AddElement, Zenon
    <3> QED BY <1>1, <2>4, <2>5, <3>1, Zenon
  <2>7. pc'[b] = "last" => Counted(r)' = Block
    <3> SUFFICES ASSUME pc'[b] = "last" PROVE Counted(r)' = Block
        BY Zenon
    <3>1. count_ = Cardinality(Block) - 1
          BY <1>1, Zenon
    <3>2. IsFiniteSet(Block) /\ Counted(r)' \subseteq Block
          BY SyncAssumption, Zenon DEF Counted
    <3>3. Cardinality(Block) \in Nat /\ Cardinality(Counted(r)') \in Nat
          BY <3>2, FS_CardinalityType, FS_Subset, Zenon
    <3>4. Cardinality(Counted(r)') = Cardinality(Block)
          BY <1>1, <2>6, <3>1, <3>3
    <3> QED BY <3>2, <3>4, FS_Subset, Zenon
  <2>8. /\ \A a \in Block : pc'[a] # "signal"
        /\ \A a \in Block : pc'[a] \in {"last", "signal"} => a = b /\ pc'[b] = "last"
        BY <1>1, <2>3, Zenon
  <2>9. /\ rounds'[b] = r /\ reg'[b] = (signal_' + 1) % WORD /\ pc'[b] \in Syncing
        /\ \A a \in Block : a # b => pc'[a] = pc[a] /\ reg'[a] = reg[a] /\ rounds'[a] = rounds[a]
        BY <1>1, <2>1, Zenon DEF Syncing
  <2>10. \A a \in Block : Abreast(a, r)'
    <3>1. Abreast(b, r)'
          BY <2>9, Zenon DEF Abreast
    <3> QED BY <1>1, <1>2, <2>9, <3>1, OthersStay, Zenon
  <2>11. \A a \in Block : pc'[a] \in {"last", "signal"} => Counted(r)' = Block
        BY <2>7, <2>8, Zenon
  <2>12. \A a, c \in Block : pc'[a] \in {"last", "signal"} /\ pc'[c] \in {"last", "signal"} => a = c
        BY <2>8, Zenon
  <2> QED BY <2>6, <2>8, <2>10, <2>11, <2>12, Zenon DEF Raised
<1> QED BY <1>1, <1>2, Zenon DEF NotifierInv

LEMMA ResetKeeps ==
  ASSUME NotifierInv, NEW b \in Block, reset_count(b) PROVE NotifierInv'
<1>1. /\ pc[b] = "last" /\ pc'[b] = "signal" /\ \A a \in Block : a # b => pc'[a] = pc[a]
      /\ pc' = [a \in Block |-> pc'[a]] /\ reg' = reg
      /\ rounds' = rounds /\ count_' = 0 /\ signal_' = signal_
      BY Zenon DEF reset_count, Goes, NotifierInv
<1>2. ASSUME NEW r \in Nat, Raised(r) PROVE Raised(r)'
  <2>1. Counted(r)' = Counted(r)
        BY <1>1, Zenon DEF Counted
  <2>2. \A a \in Block : pc'[a] \in {"last", "signal"} <=> pc[a] \in {"last", "signal"}
        BY <1>1, Zenon
  <2>3. \A a \in Block : Abreast(a, r)'
    <3>1. Abreast(b, r)'
      <4>1. rounds[b] = r /\ reg[b] = (signal_ + 1) % WORD
            BY <1>1, <1>2, Zenon DEF Raised, Abreast
      <4> QED BY <1>1, <4>1, Zenon DEF Abreast, Syncing
    <3> QED BY <1>1, <1>2, <3>1, OthersStay, Zenon
  <2> QED BY <1>1, <1>2, <2>1, <2>2, <2>3, Zenon DEF Raised
<1> QED BY <1>1, <1>2, Zenon DEF NotifierInv

\* The signal is raised when every block spins for it: a new round begins.
LEMMA RaiseKeeps ==
  ASSUME NotifierInv, NEW b \in Block, raise_signal(b) PROVE NotifierInv'
<1>1. /\ pc[b] = "signal" /\ pc'[b] = "spin" /\ \A a \in Block : a # b => pc'[a] = pc[a]
      /\ pc' = [a \in Block |-> pc'[a]] /\ reg' = reg
      /\ rounds' = rounds /\ count_' = count_ /\ signal_' = (signal_ + 1) % WORD
      BY Zenon DEF raise_signal, Goes, NotifierInv
<1>2. signal_' \in 0 .. WORD - 1
      BY <1>1, NextSignal, Zenon DEF NotifierInv
<1>3. ASSUME NEW r \in Nat, Raised(r) PROVE Raised(r + 1)'
  <2>1. Counted(r) = Block /\ count_ = 0
        BY <1>1, <1>3, Zenon DEF Raised
  <2>2. ASSUME NEW a \in Block PROVE pc'[a] = "spin" /\ rounds'[a] = r /\ reg'[a] = signal_'
    <3>1. pc[a] \in {"last", "signal"} \/ (pc[a] = "spin" /\ rounds[a] = r)
          BY <2>1, Zenon DEF Counted
    <3>2. pc[a] \in {"last", "signal"} => a = b
          BY <1>1, <1>3, Zenon DEF Raised
    <3>3. rounds[a] = r /\ reg[a] = (signal_ + 1) % WORD
      <4>1. Abreast(a, r) /\ r \in Nat /\ r + 1 # r
            BY <1>3 DEF Raised
      <4> QED BY <3>1, <4>1, Zenon DEF Abreast
    <3> QED BY <1>1, <3>1, <3>2, <3>3, Zenon
  <2>3. Counted(r + 1)' = {}
        BY <2>2 DEF Counted
  <2>4. \A a \in Block : Abreast(a, r + 1)'
        BY <2>2, Zenon DEF Abreast, Syncing
  <2>5. count_' = Cardinality(Counted(r + 1)')
        BY <1>1, <2>1, <2>3, FS_EmptySet, Zenon
  <2> QED BY <2>2, <2>4, <2>5, Zenon DEF Raised
<1> QED BY <1>1, <1>2, <1>3 DEF NotifierInv

\* Only a block that waits for the signal raised last can see it.
LEMMA DoneKeeps ==
  ASSUME NotifierInv, NEW b \in Block, sync_done(b) PROVE NotifierInv'
<1>1. /\ pc[b] = "spin" /\ pc'[b] = "app" /\ \A a \in Block : a # b => pc'[a] = pc[a] /\ rounds'[a] = rounds[a]
      /\ pc' = [a \in Block |-> pc'[a]] /\ reg' = reg /\ signal_ = reg[b]
      /\ rounds' \in [Block -> Nat] /\ rounds'[b] = rounds[b] + 1 /\ count_' = count_ /\ signal_' = signal_
      BY DEF sync_done, Goes, NotifierInv
<1>2. (signal_ + 1) % WORD # signal_
      BY NextSignal, Zenon DEF NotifierInv
<1>3. ASSUME NEW r \in Nat, Raised(r) PROVE Raised(r)'
  <2>1. rounds[b] + 1 = r /\ rounds[b] # r
    <3>1. rounds[b] + 1 = r
          BY <1>1, <1>2, <1>3, Zenon DEF Raised, Abreast
    <3> QED BY <3>1 DEF NotifierInv
  <2>2. Counted(r)' = Counted(r)
        BY <1>1, <2>1, Zenon DEF Counted
  <2>3. \A a \in Block : Abreast(a, r)'
    <3>1. Abreast(b, r)'
          BY <1>1, <2>1, Zenon DEF Abreast
    <3>2. \A a \in Block : a # b => pc'[a] = pc[a] /\ reg'[a] = reg[a] /\ rounds'[a] = rounds[a]
          BY <1>1, Zenon
    <3> QED BY <1>1, <1>3, <3>1, <3>2, OthersStay, Zenon
  <2>4. /\ \A a \in Block : pc'[a] \in {"last", "signal"} => pc[a] \in {"last", "signal"}
        /\ (\E a \in Block : pc'[a] = "signal") <=> (\E a \in Block : pc[a] = "signal")
        BY <1>1, Zenon
  <2> QED BY <1>1, <1>3, <2>2, <2>3, <2>4, Zenon DEF Raised
<1> QED BY <1>1, <1>3, Zenon DEF NotifierInv

LEMMA NextNotifier == NotifierInv /\ [Next]_vars => NotifierInv'
<1> SUFFICES ASSUME NotifierInv, [Next]_vars PROVE NotifierInv'
    BY Zenon
<1>0. pc = [b \in Block |-> pc[b]] /\ reg = [b \in Block |-> reg[b]]
      BY Zenon DEF NotifierInv
<1>1. CASE UNCHANGED vars
      BY <1>1, Zenon DEF vars, notifier, NotifierInv, Raised, Abreast, Counted
<1>2. ASSUME NEW b \in Block, Act(b) PROVE NotifierInv'
  <2>0. reg' = reg => \E v : reg' = [reg EXCEPT ![b] = v]
    <3>1. reg = [reg EXCEPT ![b] = reg[b]]
          BY <1>0, Zenon
    <3> QED BY <3>1, Zenon
  <2>1. CASE grab_ticket_(b) \/ wait_turn_(b) \/ signal_next_(b)
    <3>1. Apart(b)
          BY <1>0, <2>0, <2>1, Zenon DEF grab_ticket_, wait_turn_, signal_next_, Goes, Apart, Syncing
    <3> QED BY <3>1, ApartKeeps, Zenon
  <2>2. CASE pop_front(b) \/ unlink(b) \/ deallocate_node(b)
    <3>1. Apart(b)
          BY <1>0, <2>0, <2>2, Zenon DEF pop_front, unlink, deallocate_node, Goes, Apart, Syncing
    <3> QED BY <3>1, ApartKeeps, Zenon
  <2>3. CASE allocate_node(b) \/ take_node(b) \/ insert_node_at_tail(b)
    <3>1. Apart(b)
          BY <1>0, <2>0, <2>3, Zenon DEF allocate_node, take_node, insert_node_at_tail, Goes, Apart, Syncing
    <3> QED BY <3>1, ApartKeeps, Zenon
  <2>4. CASE no_ctx(b)
    <3>1. pc' = [pc EXCEPT ![b] = "app"] /\ pc'[b] = "app" /\ pc[b] = "app"
          BY <1>0, <2>4, Zenon DEF no_ctx
    <3>2. Apart(b)
          BY <2>0, <2>4, <3>1, Zenon DEF no_ctx, Apart, Syncing
    <3> QED BY <3>2, ApartKeeps, Zenon
  <2>5. CASE alloc(b) \/ advance(b) \/ store(b) \/ load(b)
    <3>1. Apart(b)
          BY <1>0, <2>0, <2>5, Zenon DEF alloc, advance, store, load, Goes, Apart, Syncing
    <3> QED BY <3>1, ApartKeeps, Zenon
  <2>6. CASE sync(b) \/ arrive(b) \/ reset_count(b) \/ raise_signal(b) \/ sync_done(b)
        BY <2>6, SyncKeeps, ArriveKeeps, ResetKeeps, RaiseKeeps, DoneKeeps, Zenon
  <2> QED BY <1>2, <2>1, <2>2, <2>3, <2>4, <2>5, <2>6, Zenon DEF Act
<1> QED BY <1>1, <1>2, Zenon DEF Next

\* No block returns from its n-th Notifier::sync before every block has arrived at its
\* n-th, for every number of blocks and of calls, although count_ is reset and signal_
\* wraps around.
THEOREM SyncIsABarrier == Spec => []RoundsTogether
<1>1. NotifierInv => RoundsTogether
  <2> SUFFICES ASSUME NotifierInv, NEW a \in Block, NEW b \in Block PROVE rounds[a] <= Arrived(b)
      BY Zenon DEF RoundsTogether
  <2>1. PICK r \in Nat : Raised(r)
        BY Zenon DEF NotifierInv
  <2>2. rounds[a] \in Nat /\ rounds[b] \in Nat
        BY Zenon DEF NotifierInv
  <2>3. rounds[a] <= r
        BY <2>1, <2>2 DEF Raised, Abreast, Syncing
  <2>4. r <= Arrived(b)
        BY <2>1, <2>2 DEF Raised, Abreast, Syncing, Arrived
  <2>5. Arrived(b) \in Nat
        BY <2>2 DEF Arrived
  <2> QED BY <2>2, <2>3, <2>4, <2>5
<1> QED BY <1>1, NotifierInit, NextNotifier, PTL DEF Spec

-----------------------------------------------------------------------------
(***************************************************************************)
(* FreeList.                                                               *)
(***************************************************************************)
Linking == {"pop", "recycle", "allocated", "insert"}

\* The nodes in the hands of pop_front and push_back, and those that still have a context.
Loose == {reg[b] : b \in {b \in Block : pc[b] \in {"recycle", "insert"}}}
Popped == {reg[b] : b \in {b \in Block : pc[b] = "recycle"}}

\* L is the list, D the recycled nodes, W the loose nodes; those of F have a context.
Lists(L, D, W, F) ==
  /\ IsList(next, head_, L) /\ IsList(next, deallocated_nodes_, D)
  /\ L \cap D = {} /\ W \cap (L \cup D) = {} /\ L \cup D \cup W = Context
  /\ L = {} => tail_ = nullptr
  /\ L # {} => tail_ \in L /\ next[tail_] = nullptr
  /\ \A c \in Context : (\E n \in F : data[n] = c) \/ (\E b \in Block : c \in held[b])
  /\ \A x, y \in F : data[x] = data[y] => x = y
  /\ \A b \in Block : \A n \in F : data[n] \notin held[b]

\* What a block in pop_front or push_back relies on.
Owner(b) ==
  /\ pc[b] \in {"pop", "recycle"} => Calls(b, "create_ctx")
  /\ pc[b] = "pop" => reg[b] = head_ /\ head_ # nullptr
  /\ pc[b] \in {"allocated", "insert"} => Calls(b, "destroy_ctx") /\ held[b] # {}
  /\ pc[b] = "allocated" => reg[b] = deallocated_nodes_ /\ reg[b] # nullptr
  /\ pc[b] \in {"wait", "locked"} /\ Calls(b, "destroy_ctx") => held[b] # {}

ContextTypes ==
  /\ next \in [Context -> Context \cup {nullptr}] /\ data \in [Context -> Context]
  /\ held \in [Block -> SUBSET Context]
  /\ \A a, b \in Block : a # b => held[a] \cap held[b] = {}

ContextInv ==
  /\ ContextTypes
  /\ \A b \in Block : Owner(b)
  /\ \E L, D \in SUBSET Context : Lists(L, D, Loose, L \cup Popped)

\* One block at a time is in pop_front or push_back.
LEMMA AloneInList ==
  ASSUME MutualExclusion, \A c \in Block : Owner(c), NEW a \in Block, NEW b \in Block, pc[a] \in Linking,
         \/ pc[b] \in Linking
         \/ pc[b] = "locked" /\ (Calls(b, "create_ctx") \/ Calls(b, "destroy_ctx"))
  PROVE  a = b
<1>1. \A c \in Block : pc[c] \in Linking => Inside(c, "ctx_free_list")
      BY Zenon DEF Owner, Calls, Inside, Outside, Linking, MutexOf
<1>2. Inside(b, "ctx_free_list")
  <2>1. CASE pc[b] \in Linking
        BY <1>1, <2>1, Zenon
  <2>2. CASE pc[b] = "locked" /\ (Calls(b, "create_ctx") \/ Calls(b, "destroy_ctx"))
        BY <2>2, Zenon DEF Calls, Inside, Outside, MutexOf
  <2> QED BY <2>1, <2>2, Zenon
<1> QED BY <1>1, <1>2, Zenon DEF MutualExclusion, Lock

LEMMA LooseAlone ==
  ASSUME NEW b \in Block, \A a \in Block : pc[a] \in Linking => a = b
  PROVE  /\ Loose = IF pc[b] \in {"recycle", "insert"} THEN {reg[b]} ELSE {}
         /\ Popped = IF pc[b] = "recycle" THEN {reg[b]} ELSE {}
BY Zenon DEF Loose, Popped, Linking

LEMMA LooseAloneNext ==
  ASSUME NEW b \in Block, \A a \in Block : pc'[a] \in Linking => a = b
  PROVE  /\ Loose' = IF pc'[b] \in {"recycle", "insert"} THEN {reg'[b]} ELSE {}
         /\ Popped' = IF pc'[b] = "recycle" THEN {reg'[b]} ELSE {}
BY Zenon DEF Loose, Popped, Linking

\* The list of the host: every closed set that has 1 has all contexts.
LEMMA CountsUp ==
  ASSUME NEW S, 1 \in S, \A x \in S : x + 1 \in Context => x + 1 \in S
  PROVE  Context \subseteq S
<1> SUFFICES ASSUME NEW c \in Context, c \notin S PROVE FALSE
    BY Zenon
<1> DEFINE T == Context \ S
           Less == {s \in Nat \X Nat : s[1] < s[2]}
<1>1. IsWellFoundedOn(Less, Nat)
      BY NatLessThanWellFounded, Zenon DEF OpToRel
<1>2. T \subseteq Nat /\ T # {}
      BY DEF Context
<1>3. PICK x \in T : \A y \in T : ~ (<<y, x>> \in Less)
      BY <1>1, <1>2, WFMin, Zenon
<1>4. x \in Nat /\ x >= 1 /\ x <= maximum_num_contexts_ /\ maximum_num_contexts_ \in Nat /\ x # 1
      BY SyncAssumption DEF Context
<1>5. x - 1 \in Context /\ x - 1 \in Nat /\ x - 1 < x /\ (x - 1) + 1 = x
      BY <1>4 DEF Context
<1>6. x - 1 \in S
      BY <1>3, <1>4, <1>5, Zenon
<1> QED BY <1>5, <1>6, Zenon

LEMMA ContextInit == Init => ContextInv
<1> SUFFICES ASSUME Init PROVE ContextInv
    BY Zenon
<1>1. /\ pc = [b \in Block |-> "app"] /\ held = [b \in Block |-> {}]
      /\ head_ = (IF Context = {} THEN nullptr ELSE 1) /\ tail_ = maximum_num_contexts_
      /\ deallocated_nodes_ = nullptr
      /\ next = [n \in Context |-> IF n + 1 \in Context THEN n + 1 ELSE nullptr]
      /\ data = [n \in Context |-> n]
      BY Zenon DEF Init
<1>2. ContextTypes
      BY <1>1, Zenon DEF ContextTypes
<1>3. \A b \in Block : Owner(b)
      BY <1>1, Zenon DEF Owner
<1>4. Loose = {} /\ Popped = {}
      BY <1>1, Zenon DEF Loose, Popped
<1>5. IsList(next, deallocated_nodes_, {})
      BY <1>1, NullIsNoNode, Zenon DEF IsList, ClosedUnder
<1>6. IsList(next, head_, Context) /\ (Context # {} => tail_ \in Context /\ next[tail_] = nullptr)
  <2>1. CASE Context = {}
        BY <1>1, <2>1, Zenon DEF IsList, ClosedUnder
  <2>2. CASE Context # {}
    <3>1. maximum_num_contexts_ \in Nat /\ maximum_num_contexts_ >= 1 /\ 1 \in Context
          BY <2>2, SyncAssumption DEF Context
    <3>2. head_ = 1 /\ nullptr = 0
          BY <1>1, <2>2, Zenon DEF nullptr
    <3>3. \A n \in Context : n \in Nat /\ n >= 1 /\ next[n] = IF n + 1 \in Context THEN n + 1 ELSE nullptr
          BY <1>1, <3>1 DEF Context
    <3>4. tail_ \in Context /\ next[tail_] = nullptr
          BY <1>1, <3>1, <3>3 DEF Context
    <3>5. ASSUME NEW S \in SUBSET Context, 1 \in S, ClosedUnder(next, S) PROVE Context \subseteq S
      <4>1. \A x \in S : x + 1 \in Context => x + 1 \in S
            BY <3>2, <3>3, <3>5 DEF ClosedUnder
      <4> QED BY <3>5, <4>1, CountsUp, Zenon
    <3>6. ClosedUnder(next, Context)
          BY <3>3, Zenon DEF ClosedUnder
    <3>7. /\ \A x \in Context : next[x] # 1
          /\ \A x, y \in Context : next[x] = next[y] /\ next[x] # nullptr => x = y
          BY <3>2, <3>3
    <3> QED BY <3>1, <3>2, <3>4, <3>5, <3>6, <3>7, Zenon DEF IsList
  <2> QED BY <2>1, <2>2, Zenon
<1>7. Context = {} => tail_ = nullptr
  <2>1. maximum_num_contexts_ # 0 => 1 \in Context
        BY SyncAssumption DEF Context
  <2> QED BY <1>1, <2>1, Zenon DEF nullptr
<1>8. Lists(Context, {}, Loose, Context \cup Popped)
      BY <1>1, <1>4, <1>5, <1>6, <1>7, Zenon DEF Lists
<1> QED BY <1>2, <1>3, <1>8, Zenon DEF ContextInv

\* A step of b that leaves the lists alone.
LEMMA ListApart ==
  ASSUME ScriptInv, ContextInv, NEW b \in Block, Moves(b), UNCHANGED list, Owner(b)',
         pc[b] \notin {"recycle", "insert"}, pc'[b] \notin {"recycle", "insert"}
  PROVE  ContextInv'
<1>1. /\ head_' = head_ /\ tail_' = tail_ /\ deallocated_nodes_' = deallocated_nodes_
      /\ next' = next /\ data' = data /\ held' = held
      BY Zenon DEF list
<1>2. \A a \in Block : a # b => pc'[a] = pc[a] /\ reg'[a] = reg[a] /\ script'[a] = script[a]
      BY MovesOne, Zenon
<1>3. Loose' = Loose /\ Popped' = Popped
      BY <1>2 DEF Loose, Popped
<1>4. ContextTypes'
      BY <1>1, Zenon DEF ContextTypes, ContextInv
<1>5. ASSUME NEW a \in Block PROVE Owner(a)'
  <2>1. CASE a # b
    <3>1. Owner(a) /\ pc'[a] = pc[a] /\ reg'[a] = reg[a] /\ script'[a] = script[a]
          BY <1>2, <2>1, Zenon DEF ContextInv
    <3> QED BY <1>1, <3>1, Zenon DEF Owner, Calls
  <2> QED BY <2>1, Zenon
<1>6. ASSUME NEW L \in SUBSET Context, NEW D \in SUBSET Context, Lists(L, D, Loose, L \cup Popped)
      PROVE  Lists(L, D, Loose, L \cup Popped)'
      BY <1>1, <1>3, <1>6, Zenon DEF Lists
<1> QED BY <1>4, <1>5, <1>6, Zenon DEF ContextInv

\* What the steps of the block in pop_front or push_back have in common.
LEMMA InList ==
  ASSUME MutualExclusion, ScriptInv, ContextInv, NEW b \in Block, pc[b] \in Linking,
         Moves(b), script' = script, \A a \in Block : a # b => held'[a] = held[a]
  PROVE  /\ Owner(b) /\ \A fn : Calls(b, fn)' <=> Calls(b, fn)
         /\ Loose = IF pc[b] \in {"recycle", "insert"} THEN {reg[b]} ELSE {}
         /\ Popped = IF pc[b] = "recycle" THEN {reg[b]} ELSE {}
         /\ Loose' = IF pc'[b] \in {"recycle", "insert"} THEN {reg'[b]} ELSE {}
         /\ Popped' = IF pc'[b] = "recycle" THEN {reg'[b]} ELSE {}
         /\ \A a \in Block : a # b => Owner(a)'
<1>1. \A c \in Block : Owner(c)
      BY Zenon DEF ContextInv
<1>2. \A a \in Block : pc[a] \in Linking => a = b
      BY <1>1, AloneInList, Zenon
<1>3. \A a \in Block : a # b => pc'[a] = pc[a] /\ pc'[a] \notin Linking
      BY <1>2, MovesOne, Zenon
<1>4. \A a \in Block : pc'[a] \in Linking => a = b
      BY <1>3, Zenon
<1>5. ASSUME NEW a \in Block, a # b PROVE Owner(a)'
  <2>1. Calls(a, "destroy_ctx")' <=> Calls(a, "destroy_ctx")
        BY Zenon DEF Calls
  <2>2. pc'[a] = pc[a] /\ pc'[a] \notin Linking /\ Owner(a) /\ held'[a] = held[a]
        BY <1>1, <1>3, <1>5, Zenon
  <2> QED BY <2>1, <2>2, Zenon DEF Owner, Linking
<1>6. \A fn : Calls(b, fn)' <=> Calls(b, fn)
      BY Zenon DEF Calls
<1> QED BY <1>1, <1>2, <1>4, <1>5, <1>6, LooseAlone, LooseAloneNext, Zenon

LEMMA UnlinkKeeps ==
  ASSUME MutualExclusion, ScriptInv, ContextInv, NEW b \in Block, unlink(b) PROVE ContextInv'
<1>1. /\ Moves(b) /\ script' = script /\ pc[b] = "pop" /\ pc'[b] = "recycle" /\ reg' = reg
      /\ head_' = next[reg[b]] /\ tail_' = (IF next[reg[b]] = nullptr THEN nullptr ELSE tail_)
      /\ deallocated_nodes_' = deallocated_nodes_ /\ next' = next /\ data' = data /\ held' = held
      BY ActMoves, Zenon DEF Act, unlink, Goes, Stays, ScriptInv
<1>2. /\ Owner(b) /\ Loose = {} /\ Popped = {} /\ Loose' = {reg[b]} /\ Popped' = {reg[b]}
      /\ \A a \in Block : a # b => Owner(a)'
      /\ \A fn : Calls(b, fn)' <=> Calls(b, fn)
      BY <1>1, InList, Zenon DEF Linking
<1>3. PICK h : h = reg[b] /\ h = head_ /\ h # nullptr
      BY <1>1, <1>2, Zenon DEF Owner
<1>4. PICK L \in SUBSET Context, D \in SUBSET Context : Lists(L, D, {}, L)
  <2>1. PICK L \in SUBSET Context, D \in SUBSET Context : Lists(L, D, Loose, L \cup Popped)
        BY Zenon DEF ContextInv
  <2>2. L \cup Popped = L
        BY <1>2, Zenon
  <2> QED BY <1>2, <2>1, <2>2, Zenon
<1>5. IsList(next, next[h], L \ {h}) /\ (next[h] = nullptr <=> L \ {h} = {}) /\ h \in L
  <2>1. IsList(next, h, L)
        BY <1>3, <1>4, Zenon DEF Lists
  <2>2. h \in L
        BY <1>3, <2>1, Zenon DEF IsList
  <2> QED BY <1>3, <2>1, <2>2, ListPop, Zenon
<1>6. L \ {h} # {} => tail_ \in L \ {h} /\ next[tail_] = nullptr
      BY <1>4, <1>5, Zenon DEF Lists
<1>7. Lists(L \ {h}, D, {h}, L)'
      BY <1>1, <1>3, <1>4, <1>5, <1>6 DEF Lists
<1>8. (L \ {h}) \cup Popped' = L /\ Loose' = {h}
      BY <1>2, <1>3, <1>5, Zenon
<1>9. ContextTypes' /\ Owner(b)'
      BY <1>1, <1>2, Zenon DEF ContextInv, ContextTypes, Owner
<1>10. \E M, E \in SUBSET Context : Lists(M, E, Loose, M \cup Popped)'
      BY <1>7, <1>8, Zenon
<1> QED BY <1>2, <1>9, <1>10, Zenon DEF ContextInv

LEMMA DeallocateKeeps ==
  ASSUME MutualExclusion, ScriptInv, ContextInv, NEW b \in Block, deallocate_node(b) PROVE ContextInv'
<1>1. /\ Moves(b) /\ script' = script /\ pc[b] = "recycle" /\ pc'[b] = "unlock"
      /\ next' = [next EXCEPT ![reg[b]] = deallocated_nodes_] /\ deallocated_nodes_' = reg[b]
      /\ held' = [held EXCEPT ![b] = @ \cup {data[reg[b]]}]
      /\ head_' = head_ /\ tail_' = tail_ /\ data' = data
      BY ActMoves, Zenon DEF Act, deallocate_node, Goes, Stays, ScriptInv
<1>2. PICK x : x = reg[b]
      BY Zenon
<1>3. ContextTypes
      BY Zenon DEF ContextInv
<1>4. \A a \in Block : a # b => held'[a] = held[a]
      BY <1>1, <1>3, Zenon DEF ContextTypes
<1>5. /\ Loose = {x} /\ Popped = {x} /\ Loose' = {} /\ Popped' = {}
      /\ \A a \in Block : a # b => Owner(a)'
      BY <1>1, <1>2, <1>4, InList, Zenon DEF Linking
<1>6. PICK L \in SUBSET Context, D \in SUBSET Context : Lists(L, D, {x}, L \cup {x})
      BY <1>5, Zenon DEF ContextInv
<1>7. x \in Context /\ x \notin L /\ x \notin D
      BY <1>6, Zenon DEF Lists
<1>8. next'[x] = deallocated_nodes_ /\ \A y \in Context : y # x => next'[y] = next[y]
      BY <1>1, <1>2, <1>3, <1>7, Zenon DEF ContextTypes
<1>9. IsList(next', x, D \union {x})
      BY <1>6, <1>7, <1>8, ListPush DEF Lists
<1>10. IsList(next', head_, L)
      BY <1>6, <1>7, <1>8, ListSame, Zenon DEF Lists
<1>11. /\ held'[b] = held[b] \union {data[x]} /\ data[x] \in Context
       /\ \A a \in Block : data[x] \notin held[a]
       /\ \A n \in L : data[n] # data[x]
      BY <1>1, <1>2, <1>3, <1>6, <1>7 DEF ContextTypes, Lists
<1>12. ContextTypes'
  <2>1. held' \in [Block -> SUBSET Context] /\ \A a, c \in Block : a # c => held'[a] \cap held'[c] = {}
        BY <1>1, <1>3, <1>4, <1>11 DEF ContextTypes
  <2>2. deallocated_nodes_ \in Context \cup {nullptr}
        BY <1>6, Zenon DEF Lists, IsList
  <2>3. next' \in [Context -> Context \cup {nullptr}] /\ data' \in [Context -> Context]
        BY <1>1, <1>3, <2>2, Zenon DEF ContextTypes
  <2> QED BY <2>1, <2>3, Zenon DEF ContextTypes
<1>13. Owner(b)'
      BY <1>1, Zenon DEF Owner
<1>14. Lists(L, D \union {x}, {}, L)'
  <2>1. \A c \in Context : (\E n \in L : data'[n] = c) \/ (\E a \in Block : c \in held'[a])
        BY <1>1, <1>4, <1>6, <1>11 DEF Lists
  <2>2. \A a \in Block : \A n \in L : data'[n] \notin held'[a]
        BY <1>1, <1>4, <1>6, <1>11 DEF Lists
  <2>3. /\ L \cap (D \union {x}) = {} /\ L \cup (D \union {x}) = Context
        /\ L = {} => tail_' = nullptr
        /\ L # {} => tail_' \in L /\ next'[tail_'] = nullptr
        /\ \A y, z \in L : data'[y] = data'[z] => y = z
        BY <1>1, <1>6, <1>7, <1>8, Zenon DEF Lists
  <2> QED BY <1>1, <1>2, <1>9, <1>10, <2>1, <2>2, <2>3, Zenon DEF Lists
<1>15. L \cup Popped' = L /\ D \union {x} \in SUBSET Context
      BY <1>5, <1>7, Zenon
<1>16. \E M, E \in SUBSET Context : Lists(M, E, Loose, M \cup Popped)'
      BY <1>5, <1>14, <1>15, Zenon
<1> QED BY <1>5, <1>12, <1>13, <1>16, Zenon DEF ContextInv

\* push_back always finds a recycled node: with none, every context would be in the
\* list, the one to be given back too.
LEMMA NodeToAllocate ==
  ASSUME MutualExclusion, ScriptInv, ContextInv, NEW b \in Block, pc[b] = "locked", Calls(b, "destroy_ctx")
  PROVE  deallocated_nodes_ # nullptr
<1> SUFFICES ASSUME deallocated_nodes_ = nullptr PROVE FALSE
    BY Zenon
<1>1. \A c \in Block : Owner(c)
      BY Zenon DEF ContextInv
<1>2. \A a \in Block : pc[a] \in Linking => a = b
      BY <1>1, AloneInList, Zenon
<1>3. Loose = {} /\ Popped = {}
      BY <1>2, LooseAlone, Zenon
<1>4. PICK L \in SUBSET Context, D \in SUBSET Context : Lists(L, D, {}, L)
  <2>1. PICK L \in SUBSET Context, D \in SUBSET Context : Lists(L, D, Loose, L \cup Popped)
        BY Zenon DEF ContextInv
  <2>2. L \cup Popped = L
        BY <1>3, Zenon
  <2> QED BY <1>3, <2>1, <2>2, Zenon
<1>5. L = Context
      BY <1>4, Zenon DEF Lists, IsList
<1>6. PICK c \in Context : c \in held[b]
      BY <1>1, Zenon DEF Owner, ContextInv, ContextTypes
<1>7. data \in Injection(Context, Context)
      BY <1>4, <1>5, Zenon DEF ContextInv, ContextTypes, Lists, Injection, IsInjective
<1>8. IsFiniteSet(Context)
      BY FS_Interval, SyncAssumption DEF Context
<1>9. data \in Surjection(Context, Context)
      BY <1>7, <1>8, FS_Injection, Zenon
<1>10. PICK n \in Context : data[n] = c
      BY <1>9, Zenon DEF Surjection
<1> QED BY <1>4, <1>5, <1>6, <1>10, Zenon DEF Lists

LEMMA AllocateKeeps ==
  ASSUME MutualExclusion, ScriptInv, ContextInv, NEW b \in Block, allocate_node(b) PROVE ContextInv'
<1>1. /\ Moves(b) /\ script' = script /\ pc[b] = "locked" /\ Calls(b, "destroy_ctx")
      BY ActMoves, Zenon DEF Act, allocate_node, Goes, Stays
<1>2. deallocated_nodes_ # nullptr
      BY <1>1, NodeToAllocate, Zenon
<1>3. UNCHANGED list /\ pc'[b] = "allocated" /\ reg'[b] = deallocated_nodes_
      BY <1>2, Zenon DEF allocate_node, Goes, ScriptInv, list
<1>4. Owner(b)'
  <2>1. held[b] # {} /\ held' = held /\ deallocated_nodes_' = deallocated_nodes_
        BY <1>1, <1>3, Zenon DEF ContextInv, Owner, list
  <2>2. Calls(b, "destroy_ctx")'
        BY <1>1, Zenon DEF Calls
  <2> QED BY <1>2, <1>3, <2>1, <2>2, Zenon DEF Owner
<1> QED BY <1>1, <1>3, <1>4, ListApart, Zenon

LEMMA TakeKeeps ==
  ASSUME MutualExclusion, ScriptInv, ContextInv, NEW b \in Block, take_node(b) PROVE ContextInv'
<1>1. /\ Moves(b) /\ script' = script /\ pc[b] = "allocated" /\ pc'[b] = "insert" /\ reg' = reg
      /\ deallocated_nodes_' = next[reg[b]] /\ head_' = head_ /\ tail_' = tail_
      /\ next' = next /\ data' = data /\ held' = held
      BY ActMoves, Zenon DEF Act, take_node, Goes, Stays, ScriptInv
<1>2. /\ Owner(b) /\ Loose = {} /\ Popped = {} /\ Loose' = {reg[b]} /\ Popped' = {}
      /\ \A a \in Block : a # b => Owner(a)'
      /\ \A fn : Calls(b, fn)' <=> Calls(b, fn)
      BY <1>1, InList, Zenon DEF Linking
<1>3. PICK x : x = reg[b] /\ x = deallocated_nodes_ /\ x # nullptr
      BY <1>1, <1>2, Zenon DEF Owner
<1>4. PICK L \in SUBSET Context, D \in SUBSET Context : Lists(L, D, {}, L)
  <2>1. PICK L \in SUBSET Context, D \in SUBSET Context : Lists(L, D, Loose, L \cup Popped)
        BY Zenon DEF ContextInv
  <2>2. L \cup Popped = L
        BY <1>2, Zenon
  <2> QED BY <1>2, <2>1, <2>2, Zenon
<1>5. IsList(next, next[x], D \ {x}) /\ x \in D
  <2>1. IsList(next, x, D)
        BY <1>3, <1>4, Zenon DEF Lists
  <2>2. x \in D
        BY <1>3, <2>1, Zenon DEF IsList
  <2> QED BY <1>3, <2>1, <2>2, ListPop, Zenon
<1>6. Lists(L, D \ {x}, {x}, L)'
  <2>1. /\ IsList(next', head_', L) /\ IsList(next', deallocated_nodes_', D \ {x})
        /\ tail_' = tail_ /\ next' = next /\ data' = data /\ held' = held
        BY <1>1, <1>3, <1>4, <1>5, Zenon DEF Lists
  <2>2. L \cap D = {} /\ L \cup D = Context
        BY <1>4, Zenon DEF Lists
  <2>3. /\ L \cap (D \ {x}) = {} /\ {x} \cap (L \cup (D \ {x})) = {}
        /\ L \cup (D \ {x}) \cup {x} = Context
        BY <1>5, <2>2
  <2> QED BY <1>4, <2>1, <2>3, ZenonT(60) DEF Lists
<1>7. L \cup Popped' = L /\ Loose' = {x}
      BY <1>2, <1>3, Zenon
<1>8. ContextTypes' /\ Owner(b)'
      BY <1>1, <1>2, Zenon DEF ContextInv, ContextTypes, Owner
<1>9. \E M, E \in SUBSET Context : Lists(M, E, Loose, M \cup Popped)'
      BY <1>6, <1>7, Zenon
<1> QED BY <1>2, <1>8, <1>9, Zenon DEF ContextInv

LEMMA InsertKeeps ==
  ASSUME MutualExclusion, ScriptInv, ContextInv, NEW b \in Block, insert_node_at_tail(b) PROVE ContextInv'
<1>1. PICK x : x = reg[b]
      BY Zenon
<1>2. PICK c \in held[b] : data' = [data EXCEPT ![x] = c] /\ held' = [held EXCEPT ![b] = @ \ {c}]
      BY <1>1, Zenon DEF insert_node_at_tail
<1>3. /\ Moves(b) /\ script' = script /\ pc[b] = "insert" /\ pc'[b] = "unlock"
      /\ next' = [n \in DOMAIN next |-> IF n = x THEN nullptr
                                        ELSE IF n = tail_ /\ tail_ # nullptr THEN x ELSE next[n]]
      /\ tail_' = x /\ head_' = (IF head_ = nullptr THEN x ELSE head_)
      /\ deallocated_nodes_' = deallocated_nodes_
      BY <1>1, ActMoves, Zenon DEF Act, insert_node_at_tail, Goes, Stays, ScriptInv
<1>4. ContextTypes
      BY Zenon DEF ContextInv
<1>5. \A a \in Block : a # b => held'[a] = held[a]
      BY <1>2, <1>4, Zenon DEF ContextTypes
<1>6. /\ Loose = {x} /\ Popped = {} /\ Loose' = {} /\ Popped' = {}
      /\ \A a \in Block : a # b => Owner(a)'
      BY <1>1, <1>3, <1>5, InList, Zenon DEF Linking
<1>7. PICK L \in SUBSET Context, D \in SUBSET Context : Lists(L, D, {x}, L)
  <2>1. PICK L \in SUBSET Context, D \in SUBSET Context : Lists(L, D, Loose, L \cup Popped)
        BY Zenon DEF ContextInv
  <2>2. L \cup Popped = L
        BY <1>6, Zenon
  <2> QED BY <1>6, <2>1, <2>2, Zenon
<1>8. x \in Context /\ x \notin L /\ x \notin D /\ L \cap D = {}
      BY <1>7, Zenon DEF Lists
<1>9. /\ next'[x] = nullptr /\ (L # {} => next'[tail_] = x /\ tail_ \in L)
      /\ \A y \in Context : y # x /\ y # tail_ => next'[y] = next[y]
  <2>1. DOMAIN next = Context
        BY <1>4, Zenon DEF ContextTypes
  <2>2. L # {} => tail_ \in L /\ tail_ # nullptr /\ tail_ # x /\ tail_ \in Context
        BY <1>7, <1>8, NullIsNoNode, Zenon DEF Lists
  <2> QED BY <1>3, <1>8, <2>1, <2>2, Zenon
<1>10. L = {} => tail_ = nullptr
      BY <1>7, Zenon DEF Lists
<1>11. IsList(next', head_', L \union {x})
  <2>1. CASE L = {}
    <3>1. head_ = nullptr /\ IsList(next, nullptr, {})
          BY <1>7, <2>1, Zenon DEF Lists, IsList
    <3>2. IsList(next', x, {} \union {x})
          BY <1>8, <1>9, <3>1, ListPush, Zenon
    <3> QED BY <1>3, <2>1, <3>1, <3>2, Zenon
  <2>2. CASE L # {}
    <3>1. IsList(next, head_, L) /\ head_ # nullptr /\ next[tail_] = nullptr /\ tail_ \in L
          BY <1>7, <2>2, Zenon DEF Lists, IsList
    <3>2. \A y \in L \ {tail_} : next'[y] = next[y]
          BY <1>8, <1>9, Zenon
    <3>3. IsList(next', head_, L \union {x})
          BY <1>8, <1>9, <2>2, <3>1, <3>2, ListAppend
    <3> QED BY <1>3, <3>1, <3>3, Zenon
  <2> QED BY <2>1, <2>2, Zenon
<1>12. IsList(next', deallocated_nodes_, D)
  <2>1. \A y \in D : next'[y] = next[y]
        BY <1>8, <1>9, <1>10, NullIsNoNode, Zenon
  <2> QED BY <1>7, <2>1, ListSame, Zenon DEF Lists
<1>13. /\ c \in Context /\ held'[b] = held[b] \ {c} /\ data'[x] = c
       /\ \A n \in L : data'[n] = data[n] /\ data[n] # c
       /\ \A a \in Block : a # b => c \notin held[a]
      BY <1>2, <1>4, <1>7, <1>8 DEF ContextTypes, Lists
<1>14. ContextTypes'
  <2>1. held' \in [Block -> SUBSET Context] /\ \A a, e \in Block : a # e => held'[a] \cap held'[e] = {}
        BY <1>2, <1>4, <1>5, <1>13 DEF ContextTypes
  <2>2. next' \in [Context -> Context \cup {nullptr}] /\ data' \in [Context -> Context]
        BY <1>2, <1>3, <1>4, <1>8, <1>13, Zenon DEF ContextTypes
  <2> QED BY <2>1, <2>2, Zenon DEF ContextTypes
<1>15. Owner(b)'
      BY <1>3, Zenon DEF Owner
<1>16. Lists(L \union {x}, D, {}, L \union {x})'
  <2>1. \A e \in Context : (\E n \in L \union {x} : data'[n] = e) \/ (\E a \in Block : e \in held'[a])
        BY <1>5, <1>7, <1>13 DEF Lists
  <2>2. \A a \in Block : \A n \in L \union {x} : data'[n] \notin held'[a]
        BY <1>5, <1>7, <1>13, Zenon DEF Lists
  <2>3. \A y, z \in L \union {x} : data'[y] = data'[z] => y = z
        BY <1>7, <1>13 DEF Lists
  <2>4. (L \union {x}) \cap D = {} /\ (L \union {x}) \cup D = Context
        BY <1>7, <1>8, Zenon DEF Lists
  <2> QED BY <1>3, <1>9, <1>11, <1>12, <2>1, <2>2, <2>3, <2>4, Zenon DEF Lists
<1>17. (L \union {x}) \cup Popped' = L \union {x} /\ L \union {x} \in SUBSET Context
      BY <1>6, <1>8, Zenon
<1>18. \E M, E \in SUBSET Context : Lists(M, E, Loose, M \cup Popped)'
      BY <1>6, <1>16, <1>17, Zenon
<1> QED BY <1>6, <1>14, <1>15, <1>18, Zenon DEF ContextInv

LEMMA NextContext ==
  ASSUME MutualExclusion, ScriptInv, ContextInv, [Next]_vars PROVE ContextInv'
<1>1. CASE UNCHANGED vars
  <2>1. /\ pc' = pc /\ reg' = reg /\ script' = script
        /\ head_' = head_ /\ tail_' = tail_ /\ deallocated_nodes_' = deallocated_nodes_
        /\ next' = next /\ data' = data /\ held' = held
        BY <1>1, Zenon DEF vars, list
  <2>2. Loose' = Loose /\ Popped' = Popped
        BY <2>1, Zenon DEF Loose, Popped
  <2>3. ContextTypes'
        BY <2>1, Zenon DEF ContextInv, ContextTypes
  <2>4. \A b \in Block : Owner(b)'
        BY <2>1, Zenon DEF ContextInv, Owner, Calls
  <2>5. ASSUME NEW M, NEW E, NEW W, NEW F, Lists(M, E, W, F) PROVE Lists(M, E, W, F)'
        BY <2>1, <2>5, SMTT(30) DEF Lists
  <2> QED BY <2>1, <2>2, <2>3, <2>4, <2>5, Zenon DEF ContextInv
<1>2. ASSUME NEW b \in Block, Act(b) PROVE ContextInv'
  <2>1. Moves(b) /\ Owner(b) /\ pc \in [Block -> {pc[a] : a \in Block}] /\ DOMAIN pc = Block
    <3>1. pc = [a \in Block |-> pc[a]]
          BY Zenon DEF ScriptInv
    <3> QED BY <1>2, <3>1, ActMoves, Zenon DEF ContextInv
  <2>2. CASE grab_ticket_(b)
    <3>1. pc'[b] = "wait" /\ pc[b] = "app" /\ UNCHANGED list /\ script' = script /\ held' = held /\ Locks(b)
          BY <2>1, <2>2, Zenon DEF grab_ticket_, Goes, Stays, list
    <3>2. Calls(b, "destroy_ctx")' => held[b] # {}
          BY <3>1, Zenon DEF Locks, Calls
    <3>3. Owner(b)'
          BY <3>1, <3>2, Zenon DEF Owner
    <3> QED BY <2>1, <3>1, <3>3, ListApart, Zenon
  <2>3. CASE wait_turn_(b)
    <3>1. pc'[b] = "locked" /\ pc[b] = "wait" /\ UNCHANGED list /\ script' = script /\ held' = held
          BY <2>1, <2>3, Zenon DEF wait_turn_, Goes, Stays, list
    <3>2. Owner(b)'
          BY <2>1, <3>1, Zenon DEF Owner, Calls
    <3> QED BY <2>1, <3>1, <3>2, ListApart, Zenon
  <2>4. CASE pop_front(b)
    <3>1. /\ pc'[b] \in {"unlock", "pop"} /\ pc[b] = "locked" /\ UNCHANGED list /\ script' = script
          /\ head_' = head_ /\ reg'[b] = head_ /\ Calls(b, "create_ctx") /\ (pc'[b] = "pop" => head_ # nullptr)
          BY <2>1, <2>4, Zenon DEF pop_front, Goes, Stays, list, ScriptInv
    <3>2. Owner(b)'
          BY <3>1, Zenon DEF Owner, Calls
    <3> QED BY <2>1, <3>1, <3>2, ListApart, Zenon
  <2>5. CASE unlink(b)
        BY <2>5, UnlinkKeeps, Zenon
  <2>6. CASE deallocate_node(b)
        BY <2>6, DeallocateKeeps, Zenon
  <2>7. CASE allocate_node(b)
        BY <1>2, <2>7, AllocateKeeps, Zenon
  <2>8. CASE take_node(b)
        BY <2>8, TakeKeeps, Zenon
  <2>9. CASE insert_node_at_tail(b)
        BY <2>9, InsertKeeps, Zenon
  <2>10. ASSUME UNCHANGED list, pc[b] \notin {"recycle", "insert"},
                pc'[b] \notin {"pop", "recycle", "allocated", "insert", "wait", "locked"}
         PROVE  ContextInv'
    <3>1. Owner(b)'
          BY <2>10, Zenon DEF Owner
    <3> QED BY <2>1, <2>10, <3>1, ListApart, Zenon
  <2>11. CASE signal_next_(b) \/ no_ctx(b)
         BY <2>1, <2>10, <2>11, Zenon DEF signal_next_, no_ctx, Goes
  <2>12. CASE alloc(b) \/ advance(b) \/ store(b) \/ load(b)
         BY <2>1, <2>10, <2>12, Zenon DEF alloc, advance, store, load, Goes
  <2>13. CASE sync(b) \/ arrive(b) \/ reset_count(b) \/ raise_signal(b) \/ sync_done(b)
         BY <2>1, <2>10, <2>13, Zenon DEF sync, arrive, reset_count, raise_signal, sync_done, Goes
  <2> QED BY <1>2, <2>2, <2>3, <2>4, <2>5, <2>6, <2>7, <2>8, <2>9, <2>11, <2>12, <2>13, Zenon DEF Act
<1> QED BY <1>1, <1>2, Zenon DEF Next

LEMMA ContextInvConserves == ContextInv => ContextsConserved
<1> SUFFICES ASSUME ContextInv, \A b \in Block : ~Inside(b, "ctx_free_list")
             PROVE  LET linked == From(head_)
                    IN  /\ linked \cap From(deallocated_nodes_) = {}
                        /\ linked \cup From(deallocated_nodes_) = Context
                        /\ {data[n] : n \in linked} \cup UNION {held[b] : b \in Block} = Context
                        /\ \A a, b \in Block : a # b => held[a] \cap held[b] = {}
                        /\ \A b \in Block : held[b] \cap {data[n] : n \in linked} = {}
                        /\ IF linked = {} THEN tail_ = nullptr ELSE tail_ \in linked /\ next[tail_] = nullptr
    BY Zenon DEF ContextsConserved
<1>1. \A b \in Block : pc[b] \notin Linking
      BY Zenon DEF ContextInv, Owner, Inside, Outside, Linking, Calls, MutexOf
<1>2. Loose = {} /\ Popped = {}
      BY <1>1, Zenon DEF Loose, Popped, Linking
<1>3. PICK L \in SUBSET Context, D \in SUBSET Context : Lists(L, D, {}, L)
  <2>1. PICK L \in SUBSET Context, D \in SUBSET Context : Lists(L, D, Loose, L \cup Popped)
        BY Zenon DEF ContextInv
  <2>2. L \cup Popped = L
        BY <1>2, Zenon
  <2> QED BY <1>2, <2>1, <2>2, Zenon
<1>4. From(head_) = L /\ From(deallocated_nodes_) = D
      BY <1>3, ListIsFrom, Zenon DEF Lists
<1>5. ContextTypes
      BY Zenon DEF ContextInv
<1>6. {data[n] : n \in L} \cup UNION {held[b] : b \in Block} = Context
  <2>1. \A n \in L : data[n] \in Context
        BY <1>5, Zenon DEF ContextTypes
  <2>2. \A b \in Block : held[b] \subseteq Context
        BY <1>5, Zenon DEF ContextTypes
  <2>3. \A c \in Context : (\E n \in L : data[n] = c) \/ (\E b \in Block : c \in held[b])
        BY <1>3, Zenon DEF Lists
  <2> QED BY <2>1, <2>2, <2>3, Zenon
<1>7. \A b \in Block : held[b] \cap {data[n] : n \in L} = {}
      BY <1>3 DEF Lists
<1>8. L \cap D = {} /\ L \cup D = Context
      BY <1>3, Zenon DEF Lists
<1>9. IF L = {} THEN tail_ = nullptr ELSE tail_ \in L /\ next[tail_] = nullptr
      BY <1>3, Zenon DEF Lists
<1>10. \A a, b \in Block : a # b => held[a] \cap held[b] = {}
      BY <1>5, Zenon DEF ContextTypes
<1> QED BY <1>4, <1>6, <1>7, <1>8, <1>9, <1>10, Zenon

\* For every number of blocks, contexts and lock slots: when nobody is in
\* FreeList::pop_front or push_back, every context of the device is in the free list
\* or with exactly one work-group, no node is lost, and tail_ ends the list.
THEOREM ContextsNeverLost == Spec => []ContextsConserved
<1>1. Init => IInv /\ ScriptInv /\ ContextInv
      BY InitIInv, ScriptInit, ContextInit, Zenon
<1>2. IInv /\ ScriptInv /\ ContextInv /\ [Next]_vars => (IInv /\ ScriptInv /\ ContextInv)'
      BY NextIInv, IInvExcludes, NextScript, NextContext, Zenon
<1>3. ContextInv => ContextsConserved
      BY ContextInvConserves, Zenon
<1> QED BY <1>1, <1>2, <1>3, PTL DEF Spec
=============================================================================
