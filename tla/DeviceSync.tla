----------------------------- MODULE DeviceSync -----------------------------
(***************************************************************************)
(* What the work-groups of a kernel share beside the network: the array    *)
(* based queue lock ABQLBlockMutex, the FreeList the device contexts are   *)
(* handed out from, SlabHeap with its monotonic allocator, and the         *)
(* Notifier.  A block is its thread 0; SlabHeap::malloc takes a ticket per *)
(* thread and is called from blocks of one thread.  A step is one access   *)
(* to shared memory, or several that no other block can tell apart even    *)
(* without the lock.  The blocks of the kernel run at the same time.       *)
(***************************************************************************)
EXTENDS Integers, Sequences, FiniteSets

CONSTANTS
  Block,
  memory_channels,  \* the slots of turns_
  maximum_num_contexts_,
  slab_size,
  WORD,             \* signal_ counts modulo WORD
  Scripts           \* functions from blocks to the calls they make

\* What a block calls; malloc with the size it asks for.
Call == {<<"create_ctx">>, <<"destroy_ctx">>, <<"sync">>} \cup ({"malloc"} \X Nat)

ASSUME SyncAssumption ==
  /\ memory_channels \in Nat \ {0}
  /\ maximum_num_contexts_ \in Nat
  /\ slab_size \in Nat /\ WORD \in Nat \ {0, 1}
  /\ IsFiniteSet(Block) /\ \A s \in Scripts : s \in [Block -> Seq(Call)]

VARIABLES
  script,    \* script[b]: the calls left to b
  pc,        \* pc[b]: where b is in the first of them
  ticket_, turns_, \* of each lock
  ticket,    \* ticket[b]: the ticket b took
  head_, tail_, deallocated_nodes_, next, data,  \* of the free list
  reg,       \* reg[b]: the node, address or signal b works with
  held,      \* held[b]: the contexts b owns
  current_ptr_, value_, \* of the slab heap and its notifier
  got,       \* got[b]: the memory b was given
  count_, signal_,
  rounds     \* rounds[b]: how many times b has returned from Notifier::sync

mutex == <<ticket_, turns_, ticket>>
list == <<head_, tail_, deallocated_nodes_, next, data, held>>
slab == <<current_ptr_, value_, got>>
notifier == <<count_, signal_, rounds>>
vars == <<script, pc, mutex, list, slab, notifier, reg>>

Lock == {"ctx_free_list", "slab_heap"}
nullptr == 0

\* The contexts of ctx_array; node n of the list first holds context n.
Context == 1 .. maximum_num_contexts_

Calls(b, fn) == script[b] # <<>> /\ Head(script[b])[1] = fn
Goes(b, from, to) == pc[b] = from /\ pc' = [pc EXCEPT ![b] = to]
Stays == UNCHANGED script
Returns(b) == script' = [script EXCEPT ![b] = Tail(@)]

-----------------------------------------------------------------------------
(***************************************************************************)
(* ABQLBlockMutex, and TicketLockGuard that takes and releases it.         *)
(***************************************************************************)
MutexOf(b) == IF Head(script[b])[1] = "malloc" THEN "slab_heap" ELSE "ctx_free_list"

Locks(b) ==
  \/ Calls(b, "create_ctx") \/ Calls(b, "malloc")
  \/ Calls(b, "destroy_ctx") /\ held[b] # {}

grab_ticket_(b) ==
  /\ Locks(b) /\ Goes(b, "app", "wait") /\ Stays
  /\ ticket' = [ticket EXCEPT ![b] = ticket_[MutexOf(b)]]
  /\ ticket_' = [ticket_ EXCEPT ![MutexOf(b)] = @ + 1]
  /\ UNCHANGED <<turns_, list, slab, notifier, reg>>

\* Mutant: the slot is compared, not the ticket.
is_turn_BySlot(b) ==
  turns_[MutexOf(b)][ticket[b] % memory_channels] % memory_channels = ticket[b] % memory_channels
is_turn_(b) == turns_[MutexOf(b)][ticket[b] % memory_channels] = ticket[b]

wait_turn_(b) ==
  /\ Goes(b, "wait", "locked") /\ is_turn_(b) /\ Stays
  /\ UNCHANGED <<mutex, list, slab, notifier, reg>>

\* unlock, and the return of the call.
signal_next_(b) ==
  /\ Goes(b, "unlock", "app") /\ Returns(b)
  /\ turns_' = [turns_ EXCEPT ![MutexOf(b)][(ticket[b] + 1) % memory_channels] = ticket[b] + 1]
  /\ UNCHANGED <<ticket_, ticket, list, slab, notifier, reg>>

-----------------------------------------------------------------------------
(***************************************************************************)
(* FreeList::pop_front for create_ctx, push_back for destroy_ctx.          *)
(***************************************************************************)
pop_front(b) ==
  /\ Calls(b, "create_ctx")
  /\ Goes(b, "locked", IF head_ = nullptr THEN "unlock" ELSE "pop") /\ Stays
  /\ reg' = [reg EXCEPT ![b] = head_]
  /\ UNCHANGED <<mutex, list, slab, notifier>>

\* Mutant: tail_ keeps pointing to the node that has left.
unlinkTailKept(b) ==
  /\ Goes(b, "pop", "recycle") /\ Stays
  /\ head_' = next[reg[b]]
  /\ UNCHANGED <<mutex, tail_, deallocated_nodes_, next, data, held, slab, notifier, reg>>
unlink(b) ==
  /\ Goes(b, "pop", "recycle") /\ Stays
  /\ head_' = next[reg[b]]
  /\ tail_' = IF next[reg[b]] = nullptr THEN nullptr ELSE tail_
  /\ UNCHANGED <<mutex, deallocated_nodes_, next, data, held, slab, notifier, reg>>

deallocate_node(b) ==
  /\ Goes(b, "recycle", "unlock") /\ Stays
  /\ next' = [next EXCEPT ![reg[b]] = deallocated_nodes_]
  /\ deallocated_nodes_' = reg[b]
  /\ held' = [held EXCEPT ![b] = @ \cup {data[reg[b]]}]
  /\ UNCHANGED <<mutex, head_, tail_, data, slab, notifier, reg>>

\* push_back fails without a node, and the context is gone.
allocate_node(b) ==
  /\ Calls(b, "destroy_ctx")
  /\ Goes(b, "locked", IF deallocated_nodes_ = nullptr THEN "unlock" ELSE "allocated") /\ Stays
  /\ reg' = [reg EXCEPT ![b] = deallocated_nodes_]
  /\ held' = IF deallocated_nodes_ = nullptr THEN [held EXCEPT ![b] = {}] ELSE held
  /\ UNCHANGED <<mutex, head_, tail_, deallocated_nodes_, next, data, slab, notifier>>

take_node(b) ==
  /\ Goes(b, "allocated", "insert") /\ Stays
  /\ deallocated_nodes_' = next[reg[b]]
  /\ UNCHANGED <<mutex, head_, tail_, next, data, held, slab, notifier, reg>>

insert_node_at_tail(b) ==
  /\ Goes(b, "insert", "unlock") /\ Stays
  /\ \E c \in held[b] :
       /\ data' = [data EXCEPT ![reg[b]] = c]
       /\ held' = [held EXCEPT ![b] = @ \ {c}]
  /\ next' = [n \in DOMAIN next |->
                IF n = reg[b] THEN nullptr
                ELSE IF n = tail_ /\ tail_ # nullptr THEN reg[b] ELSE next[n]]
  /\ tail_' = reg[b]
  /\ head_' = IF head_ = nullptr THEN reg[b] ELSE head_
  /\ UNCHANGED <<mutex, deallocated_nodes_, slab, notifier, reg>>

\* A block that was refused a context has none to give back.
no_ctx(b) ==
  /\ Calls(b, "destroy_ctx") /\ pc[b] = "app" /\ held[b] = {}
  /\ Returns(b)
  /\ UNCHANGED <<pc, mutex, list, slab, notifier, reg>>

-----------------------------------------------------------------------------
(***************************************************************************)
(* SlabHeap::malloc with DevMonoLinear; the address goes through the       *)
(* notifier all blocks share.  The heap starts at address 1.               *)
(***************************************************************************)
Size(b) == Head(script[b])[2]

\* Mutant: the size is left out of the comparison.
allocSizeIgnored(b) ==
  /\ Calls(b, "malloc") /\ Goes(b, "locked", "fits") /\ Stays
  /\ reg' = [reg EXCEPT ![b] = IF current_ptr_ < 1 + slab_size THEN current_ptr_ ELSE nullptr]
  /\ UNCHANGED <<mutex, list, slab, notifier>>
alloc(b) ==
  /\ Calls(b, "malloc") /\ Goes(b, "locked", "fits") /\ Stays
  /\ reg' = [reg EXCEPT ![b] = IF Size(b) # 0 /\ current_ptr_ + Size(b) < 1 + slab_size
                               THEN current_ptr_ ELSE nullptr]
  /\ UNCHANGED <<mutex, list, slab, notifier>>

advance(b) ==
  /\ Goes(b, "fits", "store") /\ Stays
  /\ current_ptr_' = IF reg[b] = nullptr THEN current_ptr_ ELSE reg[b] + Size(b)
  /\ UNCHANGED <<mutex, list, value_, got, notifier, reg>>

store(b) ==
  /\ Goes(b, "store", "load") /\ Stays
  /\ value_' = reg[b]
  /\ UNCHANGED <<mutex, list, current_ptr_, got, notifier, reg>>

load(b) ==
  /\ Goes(b, "load", "unlock") /\ Stays
  /\ got' = IF value_ = nullptr THEN got ELSE [got EXCEPT ![b] = Append(@, <<value_, Size(b)>>)]
  /\ UNCHANGED <<mutex, list, current_ptr_, value_, notifier, reg>>

-----------------------------------------------------------------------------
(***************************************************************************)
(* Notifier::sync at the scope of the agent.                               *)
(***************************************************************************)
sync(b) ==
  /\ Calls(b, "sync") /\ Goes(b, "app", "arrive") /\ Stays
  /\ reg' = [reg EXCEPT ![b] = (signal_ + 1) % WORD]
  /\ UNCHANGED <<mutex, list, slab, notifier>>

\* Mutant: the last but one block counts as the last.
arriveEarly(b) ==
  /\ Goes(b, "arrive", IF count_ = Cardinality(Block) - 2 THEN "last" ELSE "spin") /\ Stays
  /\ count_' = count_ + 1
  /\ UNCHANGED <<mutex, list, slab, signal_, rounds, reg>>
arrive(b) ==
  /\ Goes(b, "arrive", IF count_ = Cardinality(Block) - 1 THEN "last" ELSE "spin") /\ Stays
  /\ count_' = count_ + 1
  /\ UNCHANGED <<mutex, list, slab, signal_, rounds, reg>>

\* Mutant: the count is kept.
reset_countKept(b) ==
  /\ Goes(b, "last", "signal") /\ Stays
  /\ UNCHANGED <<mutex, list, slab, notifier, reg>>
reset_count(b) ==
  /\ Goes(b, "last", "signal") /\ Stays
  /\ count_' = 0
  /\ UNCHANGED <<mutex, list, slab, signal_, rounds, reg>>

raise_signal(b) ==
  /\ Goes(b, "signal", "spin") /\ Stays
  /\ signal_' = (signal_ + 1) % WORD
  /\ UNCHANGED <<mutex, list, slab, count_, rounds, reg>>

sync_done(b) ==
  /\ Goes(b, "spin", "app") /\ Returns(b)
  /\ signal_ = reg[b]
  /\ rounds' = [rounds EXCEPT ![b] = @ + 1]
  /\ UNCHANGED <<mutex, list, slab, count_, signal_, reg>>

-----------------------------------------------------------------------------
\* setup_ctxs has pushed the contexts from the host, in order.
Init ==
  /\ script \in Scripts
  /\ pc = [b \in Block |-> "app"]
  /\ ticket_ = [m \in Lock |-> 0] /\ ticket = [b \in Block |-> 0]
  /\ turns_ = [m \in Lock |-> [i \in 0 .. memory_channels - 1 |-> 0]]
  /\ head_ = IF Context = {} THEN nullptr ELSE 1
  /\ tail_ = maximum_num_contexts_ /\ deallocated_nodes_ = nullptr
  /\ next = [n \in Context |-> IF n + 1 \in Context THEN n + 1 ELSE nullptr]
  /\ data = [n \in Context |-> n]
  /\ reg = [b \in Block |-> nullptr] /\ held = [b \in Block |-> {}]
  /\ current_ptr_ = 1 /\ value_ = nullptr /\ got = [b \in Block |-> <<>>]
  /\ count_ = 0 /\ signal_ = 0 /\ rounds = [b \in Block |-> 0]

Act(b) ==
  \/ grab_ticket_(b) \/ wait_turn_(b) \/ signal_next_(b)
  \/ pop_front(b) \/ unlink(b) \/ deallocate_node(b)
  \/ allocate_node(b) \/ take_node(b) \/ insert_node_at_tail(b) \/ no_ctx(b)
  \/ alloc(b) \/ advance(b) \/ store(b) \/ load(b)
  \/ sync(b) \/ arrive(b) \/ reset_count(b) \/ raise_signal(b) \/ sync_done(b)

Next == \E b \in Block : Act(b)

Spec == Init /\ [][Next]_vars
FairSpec == Spec /\ \A b \in Block : WF_vars(Act(b))

-----------------------------------------------------------------------------
(***************************************************************************)
(* Properties.                                                             *)
(***************************************************************************)
Outside == {"app", "wait", "arrive", "last", "signal", "spin"}
Inside(b, m) == pc[b] \notin Outside /\ MutexOf(b) = m

\* Two blocks are never both between lock and unlock of the same mutex, with any
\* number of blocks waiting for a slot of turns_.
MutualExclusion ==
  \A m \in Lock : \A a, b \in Block : Inside(a, m) /\ Inside(b, m) => a = b

\* The nodes reached from n: those in every set that has n and the successor of
\* each of its nodes.
Closed(S) == \A x \in S : next[x] # nullptr => next[x] \in S
From(n) ==
  IF n = nullptr THEN {}
  ELSE {x \in Context : \A S \in SUBSET Context : n \in S /\ Closed(S) => x \in S}

\* Whenever nobody is in pop_front or push_back, every context is in the free list or
\* with exactly one block, every node is linked or recycled, so the next push_back
\* finds one, and tail_ is the last of the list.
ContextsConserved ==
  (\A b \in Block : ~Inside(b, "ctx_free_list")) =>
    LET linked == From(head_)
    IN  /\ linked \cap From(deallocated_nodes_) = {}
        /\ linked \cup From(deallocated_nodes_) = Context
        /\ {data[n] : n \in linked} \cup UNION {held[b] : b \in Block} = Context
        /\ \A a, b \in Block : a # b => held[a] \cap held[b] = {}
        /\ \A b \in Block : held[b] \cap {data[n] : n \in linked} = {}
        /\ IF linked = {} THEN tail_ = nullptr ELSE tail_ \in linked /\ next[tail_] = nullptr

\* Memory given to blocks by SlabHeap::malloc lies in the heap and does not overlap,
\* although every address passes through one notifier.
SlabsDisjoint ==
  \A a, b \in Block : \A i \in DOMAIN got[a], j \in DOMAIN got[b] :
    LET r == got[a][i]
        s == got[b][j]
    IN  /\ r[1] >= 1 /\ r[1] + r[2] <= 1 + slab_size
        /\ <<a, i>> # <<b, j>> => r[1] + r[2] <= s[1] \/ s[1] + s[2] <= r[1]

\* A block returns from its n-th Notifier::sync only after every block has arrived
\* at its n-th, though count_ and signal_ serve round after round.
Arrived(b) == rounds[b] + IF pc[b] \in {"last", "signal", "spin"} THEN 1 ELSE 0
RoundsTogether == \A a, b \in Block : rounds[a] <= Arrived(b)

\* Every call of every block returns.
AllReturn == <>(\A b \in Block : script[b] = <<>>)
=============================================================================
