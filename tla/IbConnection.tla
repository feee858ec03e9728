---------------------------- MODULE IbConnection ----------------------------
(***************************************************************************)
(* NetworkOnImpl and the classes under Connection: how the PEs of the      *)
(* GPU_IB backend create their queue pairs, exchange numbers and keys and  *)
(* hand the queue pairs to the contexts, up to the first entries the       *)
(* contexts post, and the end.  The code between two collectives of MPI is *)
(* one step.  Local keys and the LIDs that go with the numbers are left    *)
(* out; memory is known by its PE and region.                              *)
(***************************************************************************)
EXTENDS Naturals, Sequences

CONSTANT Wirings  \* [connection, num_pes, num_blocks, num_dct]: the builds

ASSUME WiringsAssumption ==
  \A w \in Wirings : w.num_pes \in Nat /\ w.num_blocks \in Nat /\ w.num_dct \in Nat

VARIABLES
  wiring,
  entered,  \* entered[p]: what p gave to the collectives it entered
  qps,      \* qps[p][i]: [state, dest] of ibverbs' queue pair i
  net,      \* net[p]: the members of NetworkOnImpl and Connection
  entries   \* the entries posted and not performed

connVars == <<wiring, entered, qps, net, entries>>

PE == 0 .. wiring.num_pes - 1
Dynamic == wiring.connection = "DC"
\* The buffers of the contexts; the default context has buffer 0 too.
Context == 0 .. wiring.num_blocks - 1

\* A word is in the order of the host or, after htobe32, of the network.
Word(v) == [is |-> v, be |-> FALSE]
htobe32(word) == [word EXCEPT !.be = ~@]
Heap(p) == <<p, "heap">>
Hdp(p) == <<p, "hdp">>
Nothing == Word(<<>>)

-----------------------------------------------------------------------------
\* A PE enters its next collective, and has gone through it when every PE
\* has entered it.
Steps(p) == Len(entered[p])
Enter(p, value) == entered' = [entered EXCEPT ![p] = Append(@, value)]
After(p, n) == Steps(p) = n /\ \A q \in PE : Steps(q) >= n
Gave(q, n) == entered[q][n]
Member(p, name, value) == net' = [net EXCEPT ![p][name] = value]
Gather(n) == [q \in PE |-> Gave(q, n)]

\* Queue pairs per context, and in all.
getNumQueuePairs == IF Dynamic THEN 1 ELSE wiring.num_pes
QueuePairs == 0 .. getNumQueuePairs * wiring.num_blocks - 1

\* The number of a new queue pair, and of a new target that others send to.  A
\* call of ibverbs that fails ends the program.
create_qp(p, i) == Word(<<p, i>>)
create_dct(p, i) == Word(<<p, i>>)

\* The states a queue pair is put in.
initqp == [state |-> "INIT", dest |-> Nothing]
rtr(dest) == [state |-> "RTR", dest |-> dest]
rts(qp) == [qp EXCEPT !.state = "RTS"]
connect_dci == rts(rtr(Nothing))

\* What is known of p before the exchange, by connection.
RC_create_qps_3(p) == [i \in QueuePairs |-> create_qp(p, i)]
DC_create_qps_2(p) == [i \in 0 .. wiring.num_dct - 1 |-> htobe32(create_dct(p, i))]

\* Queue pairs of a reliable connection wait for their peers; dynamic ones are
\* ready at once.
create_qps(p) ==
  /\ Steps(p) = 0
  /\ qps' = [qps EXCEPT ![p] = [i \in QueuePairs |-> IF Dynamic THEN connect_dci ELSE initqp]]
  /\ Enter(p, IF Dynamic THEN DC_create_qps_2(p) ELSE RC_create_qps_3(p))
  /\ UNCHANGED <<wiring, net, entries>>

\* MPI_Alltoall in place: the num_blocks numbers q holds for p.
all_qp(p, i) == Gave(i \div wiring.num_blocks, 1)[p * wiring.num_blocks + (i % wiring.num_blocks)]

RC_initialize_1(p) ==
  /\ ~Dynamic
  /\ \/ After(p, 1) /\ qps' = [qps EXCEPT ![p] = [i \in QueuePairs |-> rtr(all_qp(p, i))]]
     \/ After(p, 2) /\ qps' = [qps EXCEPT ![p] = [i \in QueuePairs |-> rts(@[i])]]
  /\ Enter(p, <<>>)
  /\ UNCHANGED <<wiring, net, entries>>

\* MPI_Allgather of the numbers of the targets, then of the LIDs.
vec_dct_num == [k \in 0 .. wiring.num_dct * wiring.num_pes - 1 |->
                  Gave(k \div wiring.num_dct, 1)[k % wiring.num_dct]]
DC_initialize_1(p) ==
  /\ Dynamic
  /\ \/ After(p, 1) /\ Member(p, "vec_dct_num", vec_dct_num)
     \/ After(p, 2) /\ UNCHANGED net
  /\ Enter(p, <<>>)
  /\ UNCHANGED <<wiring, qps, entries>>

-----------------------------------------------------------------------------
\* Keys and addresses of the registers that flush the host data path.
exchange_hdp_info(p) ==
  /\ \/ /\ After(p, 3)
        /\ Member(p, "mrs", net[p].mrs \cup {Hdp(p)})
        /\ Enter(p, htobe32(Word(Hdp(p))))
     \/ /\ After(p, 4)
        /\ Member(p, "hdp_rkey", Gather(4))
        /\ Enter(p, Hdp(p))
  /\ UNCHANGED <<wiring, qps, entries>>

initialize_rkey_handle(p) == IF Dynamic THEN htobe32(Word(Heap(p))) ELSE Word(Heap(p))

heap_memory_rkey(p) ==
  /\ After(p, 5)
  /\ net' = [net EXCEPT ![p].hdp_address = Gather(5), ![p].mrs = @ \cup {Heap(p)}]
  /\ Enter(p, initialize_rkey_handle(p))
  /\ UNCHANGED <<wiring, qps, entries>>

rocshmem_g_init(p) ==
  /\ After(p, 6)
  /\ Member(p, "heap_rkey", Gather(6))
  /\ Enter(p, <<>>)
  /\ UNCHANGED <<wiring, qps, entries>>

\* The key in the entry post_wqes leaves in each send queue, from where
\* init_gpu_qp_from_connection takes it.  That of a dynamic connection has none.
post_dv_rc_wqe(p, i) == htobe32(net[p].heap_rkey[i \div wiring.num_blocks])
post_dv_dc_wqe == htobe32(Nothing)

init_gpu_qp_from_connection(p, i) ==
  [qp |-> i, rkey |-> IF Dynamic THEN post_dv_dc_wqe ELSE post_dv_rc_wqe(p, i)]

setup_gpu_qps(p) ==
  /\ After(p, 7) /\ net[p].gpu_qps = <<>>
  /\ Member(p, "gpu_qps", [i \in QueuePairs |-> init_gpu_qp_from_connection(p, i)])
  /\ UNCHANGED <<wiring, entered, qps, entries>>

-----------------------------------------------------------------------------
\* Context c holds a copy of one queue pair per PE, or one for all PEs.
\* Mutant: the array taken the other way round.
networkHostInitTransposed(p, c, i) == net[p].gpu_qps[getNumQueuePairs * c + i]
networkHostInit(p, c, i) == net[p].gpu_qps[wiring.num_blocks * i + c]

getQueuePair(p, c, pe) == networkHostInit(p, c, IF Dynamic THEN 0 ELSE pe)

\* A dynamic connection writes key and target into the entry.
setRkey(p, qp, pe) == IF Dynamic THEN net[p].heap_rkey[pe] ELSE qp.rkey
update_connection_seg(p, qp, pe) ==
  IF Dynamic THEN net[p].vec_dct_num[pe] ELSE qps[p][qp.qp].dest

\* A put, and the write of a fence to the remote register.  Bound: a PE has one
\* entry at a time, since entries do not depend on each other.
update_posted_wqe(p, c, pe, op) ==
  LET qp == getQueuePair(p, c, pe)
  IN  /\ net[p].gpu_qps # <<>> /\ Steps(p) = 7
      /\ ~ \E e \in entries : e.from[1] = p
      /\ entries' = entries \cup
           {[pe |-> pe, op |-> op, from |-> <<p, qp.qp>>, to |-> update_connection_seg(p, qp, pe),
             rkey |-> IF op = "fence" THEN net[p].hdp_rkey[pe] ELSE setRkey(p, qp, pe),
             raddr |-> IF op = "fence" THEN net[p].hdp_address[pe] ELSE Heap(pe)]}
      /\ UNCHANGED <<wiring, entered, qps, net>>

\* The card performs an entry.
perform ==
  /\ \E e \in entries : entries' = entries \ {e}
  /\ UNCHANGED <<wiring, entered, qps, net>>

\* The barriers of teams_destroy.  The application has waited for its
\* operations; the registers stay registered.
destroy_backend(p) ==
  /\ net[p].gpu_qps # <<>> /\ Steps(p) = 7
  /\ ~ \E e \in entries : e.from[1] = p
  /\ Enter(p, <<>>)
  /\ UNCHANGED <<wiring, qps, net, entries>>
networkHostFinalize(p) ==
  /\ After(p, 8)
  /\ net' = [net EXCEPT ![p].gpu_qps = <<>>, ![p].mrs = @ \ {Heap(p)}]
  /\ Enter(p, <<>>)
  /\ UNCHANGED <<wiring, qps, entries>>

-----------------------------------------------------------------------------
ConnInit ==
  /\ wiring \in Wirings
  /\ entered = [p \in PE |-> <<>>] /\ qps = [p \in PE |-> <<>>] /\ entries = {}
  /\ net = [p \in PE |-> [mrs |-> {}, vec_dct_num |-> <<>>, hdp_rkey |-> <<>>, hdp_address |-> <<>>,
                          heap_rkey |-> <<>>, gpu_qps |-> <<>>]]

ConnStep(p) ==
  \/ create_qps(p) \/ RC_initialize_1(p) \/ DC_initialize_1(p)
  \/ exchange_hdp_info(p) \/ heap_memory_rkey(p) \/ rocshmem_g_init(p) \/ setup_gpu_qps(p)
  \/ destroy_backend(p) \/ networkHostFinalize(p)
  \/ \E c \in Context, pe \in PE, op \in {"put", "fence"} : update_posted_wqe(p, c, pe, op)

ConnNext == perform \/ \E p \in PE : ConnStep(p)

ConnSpec == ConnInit /\ [][ConnNext]_connVars

\* An entry a context posts for a PE goes out on a queue pair that is ready to
\* send, meets there a queue pair that is ready to receive, for a reliable
\* connection the one connected back to it, and carries the key of the memory it
\* addresses, in the order of the network and registered at that PE: the barriers
\* of the set-up are where they are needed, and the layouts of all_qp, qps,
\* gpu_qps and heap_rkey agree.
EntryReachesItsPE ==
  \A e \in entries :
    LET peer == e.to.is
    IN  /\ qps[e.from[1]][e.from[2]].state = "RTS"
        /\ peer[1] = e.pe /\ e.to.be = Dynamic
        /\ ~Dynamic => /\ qps[peer[1]][peer[2]].state \in {"RTR", "RTS"}
                       /\ qps[peer[1]][peer[2]].dest = Word(e.from)
        /\ Dynamic => qps[e.pe] # <<>> /\ peer[2] < wiring.num_dct
        /\ e.rkey = htobe32(Word(e.raddr))
        /\ e.raddr \in net[e.pe].mrs /\ e.raddr[1] = e.pe
=============================================================================
