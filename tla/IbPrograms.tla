----------------------------- MODULE IbPrograms -----------------------------
(***************************************************************************)
(* The functions of GPUIBContext as instructions of OneSided, for the      *)
(* reliable-connection build without USE_IPC and USE_SINGLE_NODE: one      *)
(* queue pair per destination PE, the PE itself included, whose requests   *)
(* the network card performs in order (so fence posts nothing).  What is   *)
(* written to a synchronisation array fits a request (inline_threshold),   *)
(* so its value is the one of the call.                                    *)
(***************************************************************************)
EXTENDS World

CONSTANTS
  MIN_WRKDATA_SIZE,   \* ROCSHMEM_REDUCE_MIN_WRKDATA_SIZE
  REDUCE_SYNC_SIZE,   \* ROCSHMEM_REDUCE_SYNC_SIZE
  BARRIER_SYNC_SIZE,  \* ROCSHMEM_BARRIER_SYNC_SIZE
  ATA_MAX_WRKDATA_SIZE, \* ROCSHMEM_ATA_MAX_WRKDATA_SIZE
  MAX_CHUNK,          \* the chunk size of the ring: 1024
  ATOMIC_FROM         \* the team size from which the barrier is the atomic one: 64

-----------------------------------------------------------------------------
(***************************************************************************)
(* One-sided operations.                                                   *)
(***************************************************************************)
fence == <<>>
quiet == <<Drain>>

putmem_nbi(pe, to, from, map) == <<Issue(<<Put(pe, to, from, map)>>)>>
getmem_nbi(pe, to, from, map) == <<Issue(<<Get(pe, to, from, map)>>)>>
putmem(pe, to, from, map) == putmem_nbi(pe, to, from, map) \o <<DrainTo({pe})>>
getmem(pe, to, from, map) == getmem_nbi(pe, to, from, map) \o <<DrainTo({pe})>>
p(pe, to, i, v) == <<Issue(<<Flag(pe, to, i, v)>>)>>
\* The get carries no flag, so that the quiet_single after it does not wait for
\* it; the value is what the slot in g_ret holds.
g(pe, from, i) == getmem_nbi(pe, "g_ret", from, 0 :> i) \o <<Loaded("g_ret", 0)>>

putmem_nbi_wg(pe, to, from, map) == putmem_nbi(pe, to, from, map)
getmem_nbi_wg(pe, to, from, map) == getmem_nbi(pe, to, from, map)
putmem_wg(pe, to, from, map) == putmem(pe, to, from, map)
getmem_wg(pe, to, from, map) == getmem(pe, to, from, map)
putmem_nbi_wave(pe, to, from, map) == putmem_nbi(pe, to, from, map)
getmem_nbi_wave(pe, to, from, map) == getmem_nbi(pe, to, from, map)
putmem_wave(pe, to, from, map) == putmem(pe, to, from, map)
getmem_wave(pe, to, from, map) == getmem(pe, to, from, map)

\* Elements instead of bytes.
put(pe, to, from, map) == putmem(pe, to, from, map)
put_nbi(pe, to, from, map) == putmem_nbi(pe, to, from, map)
get(pe, to, from, map) == getmem(pe, to, from, map)
get_nbi(pe, to, from, map) == getmem_nbi(pe, to, from, map)
typed_wide(fn, pe, to, from, map) ==
  CASE fn = "put_wg" -> putmem_wg(pe, to, from, map)
    [] fn = "get_wg" -> getmem_wg(pe, to, from, map)
    [] fn = "put_nbi_wg" -> putmem_nbi_wg(pe, to, from, map)
    [] fn = "get_nbi_wg" -> getmem_nbi_wg(pe, to, from, map)
    [] fn = "put_wave" -> putmem_wave(pe, to, from, map)
    [] fn = "get_wave" -> getmem_wave(pe, to, from, map)
    [] fn = "put_nbi_wave" -> putmem_nbi_wave(pe, to, from, map)
    [] fn = "get_nbi_wave" -> getmem_nbi_wave(pe, to, from, map)

amo_add(pe, at, i, v) == <<Issue(<<Add(pe, at, i, v)>>), DrainTo({pe})>>
amo_fetch_add(pe, at, i, v) == <<DrainTo({pe}), Fetch(pe, at, i, "add", v, 0)>>
amo_fetch_cas(pe, at, i, v, cond) == <<DrainTo({pe}), Fetch(pe, at, i, "cas", v, cond)>>
amo_cas(pe, at, i, v, cond) == <<Issue(<<Cas(pe, at, i, v, cond)>>), DrainTo({pe})>>
\* Compare and swap until the old value is the one guessed, or zero.
amo_set(pe, at, i, v) == <<DrainTo({pe}), Returned(0), Fetch(pe, at, i, "set", v, 0)>>

-----------------------------------------------------------------------------
(***************************************************************************)
(* Synchronisation of PEs start, start + stride, ... (n of them).          *)
(***************************************************************************)
\* wait_until(&sync[i], EQ, v), and the entry is reset.
Consume(me, sync, i, v) == <<Await(sync, i, "EQ", v), Now(<<Flag(me, sync, i, 0)>>)>>

\* The leader announces that all have arrived.
\* Mutant: the last PE is left out.
AnnounceAllButLast(start, stride, n, sync, i) ==
  Loop(1, n - 2, LAMBDA j : p(start + j * stride, sync, i, 1))
Announce(start, stride, n, sync, i) ==
  Loop(1, n - 1, LAMBDA j : p(start + j * stride, sync, i, 1))

internal_direct_barrier(me, start, stride, n, sync) ==
  IF me = start
  THEN Loop(1, n - 1, LAMBDA i : Consume(me, sync, i, 1)) \o Announce(start, stride, n, sync, 0)
  ELSE p(start, sync, (me - start) \div stride, 1) \o Consume(me, sync, 0, 1)

\* The atomic barrier on entry i: a member is counted by the leader.
AtomicArrive(me, start, sync, i) ==
  IF me = start THEN <<>> ELSE amo_add(start, sync, i, 1)
AtomicLeave(me, start, stride, n, sync, i) ==
  IF me = start THEN Consume(me, sync, i, n - 1) \o Announce(start, stride, n, sync, i)
                ELSE Consume(me, sync, i, 1)

internal_atomic_barrier(me, start, stride, n, sync) ==
  AtomicArrive(me, start, sync, 0) \o AtomicLeave(me, start, stride, n, sync, 0)

internal_sync(me, start, stride, n, sync) ==
  IF n < ATOMIC_FROM THEN internal_direct_barrier(me, start, stride, n, sync)
                     ELSE internal_atomic_barrier(me, start, stride, n, sync)

TeamSync(me, t, at) == internal_sync(me, t.start, t.stride, t.size, at)

\* Every function of a team asserts that the stride is a power of two.
StrideAsserted(t) == IF \E k \in 0 .. t.stride : 2^k = t.stride THEN <<>> ELSE <<Abort>>

sync(me, t) == StrideAsserted(t) \o TeamSync(me, t, "barrier_sync")
sync_all(me) == TeamSync(me, AllPEs, "barrier_sync")
barrier_all(me) == quiet \o sync_all(me)
-----------------------------------------------------------------------------
(***************************************************************************)
(* Reductions.                                                             *)
(***************************************************************************)
internal_direct_allreduce(me, t, n) ==
  <<Now(<<Put(me, "dst", "src", Span(0, 0, n))>>)>>
  \o Others(t, me, LAMBDA i : putmem_nbi_wg(i, "pWrk", "src", Span(me * n, 0, n))
                              \o fence \o p(i, "reduce_pSync", me, 1))
  \o Others(t, me, LAMBDA i : <<Await("reduce_pSync", i, "EQ", 1),
                                Now(<<Accumulate(me, "dst", "pWrk", Span(0, i * n, n))>>)>>)
  \o <<Now(<<Store(me, "reduce_pSync", [i \in PE |-> 0])>>)>>

\* The ring is always the one of the world.
internal_ring_allreduce(me, n, n_seg, seg_size, chunk) ==
  LET send_pe == (me + 1) % num_pes
      off_send(round) == ((me + 1 - round + 2 * num_pes) % num_pes) * chunk
      off_recv(round) == ((me - round + 2 * num_pes) % num_pes) * chunk
      turn(seg, round) == fence \o p(send_pe, "reduce_pSync", round, seg + 100)
                          \o <<Await("reduce_pSync", round, "EQ", seg + 100)>>
      reduce_turn(seg, round) ==
        putmem_nbi_wg(send_pe, "pWrk", "dst",
          Span(off_send(round), seg * seg_size + off_send(round), chunk))
        \o turn(seg, round)
        \o <<Now(<<Accumulate(me, "dst", "pWrk",
               Span(seg * seg_size + off_recv(round), off_recv(round), chunk))>>)>>
      gather_turn(seg, round) ==
        LET at == seg * seg_size + off_send(round)
        IN  putmem_nbi_wg(send_pe, "dst", "dst", Span(at, at, chunk)) \o turn(seg, round)
  IN  <<Now(<<Put(me, "dst", "src", Span(0, 0, n))>>)>>
      \o Loop(0, n_seg - 1, LAMBDA seg :
           Loop(0, num_pes - 2, LAMBDA round : reduce_turn(seg, round))
           \o Loop(num_pes - 1, 2 * num_pes - 3, LAMBDA round : gather_turn(seg, round)))
      \o <<Now(<<Store(me, "reduce_pSync", [i \in 0 .. 2 * num_pes - 3 |-> 0])>>)>>

\* nreduce entries; what n_seg segments do not cover is copied, not reduced.
to_all_active_set(me, t, n) ==
  LET larger(a, b) == IF a > b THEN a ELSE b
      provided == larger(n \div 2 + 1, MIN_WRKDATA_SIZE)
      fits == provided >= MAX_CHUNK * num_pes
      pWrk == IF fits THEN MAX_CHUNK * num_pes ELSE larger(n \div 2, MIN_WRKDATA_SIZE)
      chunk == IF fits THEN MAX_CHUNK ELSE pWrk \div num_pes
  IN  CASE provided >= num_pes * n /\ REDUCE_SYNC_SIZE >= num_pes ->
             internal_direct_allreduce(me, t, n)
        [] OTHER ->
             IF 2 * num_pes > REDUCE_SYNC_SIZE THEN <<>>
             ELSE IF n < pWrk THEN internal_ring_allreduce(me, n, 1, n, n \div num_pes)
             ELSE internal_ring_allreduce(me, n, n \div pWrk, pWrk, chunk)
to_all(me, t, n) == StrideAsserted(t) \o to_all_active_set(me, t, n)

-----------------------------------------------------------------------------
(***************************************************************************)
(* Broadcast: the root of a team is relative to the team, the one of an    *)
(* active set is a PE of the world.                                        *)
(***************************************************************************)
internal_put_broadcast(me, t, n, root) ==
  IF me # root THEN <<>>
  ELSE Others(t, me, LAMBDA i : putmem_nbi_wg(i, "dst", "src", Span(0, 0, n)))

internal_get_broadcast(me, n, root) ==
  IF me = root THEN <<>> ELSE getmem_wg(root, "dst", "src", Span(0, 0, n))

broadcast_active_set(me, t, n, root) ==
  (IF num_pes < 4 THEN internal_put_broadcast(me, t, n, root)
                  ELSE internal_get_broadcast(me, n, root))
  \o TeamSync(me, t, "bcast_pSync")
broadcast(me, t, n, root) ==
  StrideAsserted(t) \o broadcast_active_set(me, t, n, InWorld(t, root))

-----------------------------------------------------------------------------
(***************************************************************************)
(* All-to-all: n entries for every PE of the team.                         *)
(***************************************************************************)
alltoall_broadcast(me, t, n) ==
  StrideAsserted(t)
  \o Loop(0, t.size - 1, LAMBDA j :
       putmem_nbi_wg(InWorld(t, j), "dst", "src", Span(InTeam(t, me) * n, j * n, n)))
  \o quiet \o TeamSync(me, t, "alltoall_pSync")

alltoall(me, t, n) == alltoall_broadcast(me, t, n)

\* The elements must fit the buffer of the team.
RoomAsserted(n) == IF n > ATA_MAX_WRKDATA_SIZE THEN <<Abort>> ELSE <<>>

\* The entries i of pAta1 whose block has the bit of this round set, and
\* where they are packed.
InRound(t, n, bit) == {i \in 0 .. t.size * n - 1 : ((i \div n) \div bit) % 2 = 1}
Packed(n, bit, i) ==
  LET pos == i \div n IN ((pos \div (2 * bit)) * bit + (pos % bit)) * n + (i % n)

\* The inverse rotation: block my - b of the result is block b.
Rotated(t, my, n) ==
  [i \in 0 .. t.size * n - 1 |-> ((t.size + my - i \div n) % t.size) * n + (i % n)]

alltoall_brucks(me, t, n) ==
  LET my == InTeam(t, me)
      all == 0 .. t.size * n - 1
      shifted == [i \in all |-> (i + my * n) % (t.size * n)]
      unpack(bit) == [i \in InRound(t, n, bit) |-> Packed(n, bit, i)]
      pack(bit) == [k \in {t.size * n + unpack(bit)[i] : i \in InRound(t, n, bit)} |->
                     CHOOSE i \in InRound(t, n, bit) : t.size * n + unpack(bit)[i] = k]
      rest(bit) == t.size % (2 * bit)
      data_size(bit) == n * ((t.size \div (2 * bit)) * bit)
                        + (IF rest(bit) > bit THEN rest(bit) - bit ELSE 0)
      round(bit) ==
        <<Now(<<Put(me, "pAta", "pAta", pack(bit))>>)>>
        \o putmem_wg(InWorld(t, (my + bit) % t.size), "dst", "pAta",
             Span(0, t.size * n, data_size(bit)))
        \o quiet \o TeamSync(me, t, "alltoall_pSync")
        \o <<Now(<<Put(me, "pAta", "dst", unpack(bit))>>)>>
  IN  StrideAsserted(t) \o RoomAsserted(t.size * n * 2)
      \o <<Now(<<Put(me, "pAta", "src", shifted)>>)>>
      \o Loop(0, t.size - 1, LAMBDA shift : IF 2^shift < t.size THEN round(2^shift) ELSE <<>>)
      \o <<Now(<<Put(me, "dst", "pAta", Rotated(t, my, n))>>)>>
      \o TeamSync(me, t, "alltoall_pSync")

\* The clusters of the GPU-centric algorithms: about sqrt(size) of them.
num_clust(t) == CHOOSE r \in 1 .. t.size : r * r <= t.size /\ (r + 1) * (r + 1) > t.size
clust_size(t) == (t.size + num_clust(t) - 1) \div num_clust(t)
ClustersAsserted(t, n) ==
  StrideAsserted(t) \o RoomAsserted(t.size * n)
  \o IF num_clust(t) * clust_size(t) = t.size THEN <<>> ELSE <<Abort>>
\* A PE is in a cluster of consecutive PEs and in a ring across the clusters.
Cluster(me, t) == InWorld(t, (InTeam(t, me) \div clust_size(t)) * clust_size(t))
Ring(me, t) == InWorld(t, InTeam(t, me) % clust_size(t))
RingSync(me, t) ==
  internal_sync(me, Ring(me, t), clust_size(t) * t.stride, num_clust(t), "alltoall_pSync")
ClusterLeave(me, t) ==
  AtomicLeave(me, Cluster(me, t), t.stride, clust_size(t), "alltoall_pSync", BARRIER_SYNC_SIZE)
ClusterArrive(me, t) == AtomicArrive(me, Cluster(me, t), "alltoall_pSync", BARRIER_SYNC_SIZE)

\* Step 1 of the all-to-all: what the cluster has for my ring.
CollectForRing(me, t, n) ==
  LET my == InTeam(t, me)
      cs == clust_size(t)
  IN  Loop(0, t.size - 1, LAMBDA i :
        getmem_nbi_wg(InWorld(t, (my \div cs) * cs + (i % cs)), "pAta", "src",
          Span(i * n, ((i \div cs) * cs + (my % cs)) * n, n)))

\* Step 2: to the PEs of the ring, each from a place in pAta that is step further.
SendToRing(me, t, n, step) ==
  LET my == InTeam(t, me)
      cs == clust_size(t)
  IN  Loop(0, num_clust(t) - 1, LAMBDA i :
        putmem_nbi_wg(InWorld(t, (my % cs) + i * cs), "dst", "pAta",
          Span((my \div cs) * n * cs, i * step, n * cs)))

alltoall_gcen(me, t, n) ==
  ClustersAsserted(t, n) \o CollectForRing(me, t, n) \o quiet
  \o SendToRing(me, t, n, n * clust_size(t)) \o quiet
  \o ClusterArrive(me, t) \o AtomicArrive(me, Ring(me, t), "alltoall_pSync", 0)
  \o ClusterLeave(me, t)
  \o AtomicLeave(me, Ring(me, t), clust_size(t) * t.stride, num_clust(t), "alltoall_pSync", 0)

alltoall_gcen2(me, t, n) ==
  ClustersAsserted(t, n) \o CollectForRing(me, t, n) \o ClusterArrive(me, t) \o quiet
  \o SendToRing(me, t, n, n * clust_size(t)) \o quiet
  \o ClusterLeave(me, t) \o RingSync(me, t)

-----------------------------------------------------------------------------
(***************************************************************************)
(* Fcollect: the n entries of every PE of the team, in the team's order.   *)
(***************************************************************************)
fcollect_broadcast(me, t, n) ==
  StrideAsserted(t)
  \o Loop(0, t.size - 1, LAMBDA j :
       putmem_nbi_wg(InWorld(t, j), "dst", "src", Span(InTeam(t, me) * n, 0, n)))
  \o quiet \o TeamSync(me, t, "alltoall_pSync")

fcollect(me, t, n) == fcollect_broadcast(me, t, n)

fcollect_brucks(me, t, n) ==
  LET my == InTeam(t, me)
      data_size(bit) == (IF bit < t.size - bit THEN bit ELSE t.size - bit) * n
      round(bit) ==
        putmem_wg(InWorld(t, (my + bit) % t.size), "pAta", "pAta",
          Span(bit * n, 0, data_size(bit)))
        \o TeamSync(me, t, "alltoall_pSync")
  IN  StrideAsserted(t) \o RoomAsserted(t.size * n) \o putmem_wg(me, "pAta", "src", Span(0, 0, n))
      \o Loop(0, t.size - 1, LAMBDA shift : IF 2^shift < t.size THEN round(2^shift) ELSE <<>>)
      \o <<Now(<<Put(me, "dst", "pAta", Rotated(t, my, n))>>)>>
      \o TeamSync(me, t, "alltoall_pSync")

\* Step 1 of the fcollect: what the cluster has.
CollectCluster(me, t, n) ==
  Loop(0, clust_size(t) - 1, LAMBDA i :
    getmem_nbi_wg(Cluster(me, t) + i * t.stride, "pAta", "src", Span(i * n, 0, n)))

fcollect_gcen(me, t, n) ==
  ClustersAsserted(t, n) \o CollectCluster(me, t, n) \o ClusterArrive(me, t) \o quiet
  \o SendToRing(me, t, n, 0) \o quiet
  \o ClusterLeave(me, t) \o RingSync(me, t)

fcollect_gcen2(me, t, n) ==
  ClustersAsserted(t, n) \o CollectCluster(me, t, n) \o quiet
  \o internal_sync(me, Cluster(me, t), t.stride, clust_size(t), "alltoall_pSync")
  \o SendToRing(me, t, n, 0) \o quiet \o RingSync(me, t)
=============================================================================
