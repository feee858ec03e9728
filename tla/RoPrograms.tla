----------------------------- MODULE RoPrograms -----------------------------
(***************************************************************************)
(* The functions of ROContext and of the MPITransport that serves them as  *)
(* instructions of OneSided, for the build without USE_IPC.  A function of *)
(* the device builds one command; the progress thread of the PE takes the  *)
(* commands in the order they were queued and calls MPI.  RoQueue and      *)
(* RoTransport model the queue, the outstanding requests and the           *)
(* notification in detail; here a command that blocks is the MPI calls     *)
(* themselves.  What an MPI collective delivers is external.               *)
(***************************************************************************)
EXTENDS World

CONSTANTS
  A2A_HEURISTICS,   \* whether the all-to-all is built with its heuristics
  A2A_GCEN_PES,     \* number of PEs from which it is GPU-centric: 8
  A2A_GCEN_SIZE,    \* size below which it is GPU-centric: 2048 bytes
  MAX_ATA_BUFF_SIZE, \* the buffer of a team
  MPI_MAX           \* largest message of the collectives of MPI: 512 elements

-----------------------------------------------------------------------------
(***************************************************************************)
(* MPITransport.  Flushed: the commands before this one were handled, and  *)
(* their puts flushed.                                                     *)
(***************************************************************************)
putMem(op, blocking) ==
  IF blocking THEN <<Flushed, Now(<<op>>), Drain>> ELSE <<Issue(<<op>>)>>

getMem(op, blocking) ==
  IF blocking THEN <<Flushed, Now(<<op>>)>> ELSE <<Issue(<<op>>)>>

amoFOP(pe, at, i, op, v) == <<Flushed, Fetch(pe, at, i, op, v, 0)>>
amoFCAS(pe, at, i, v, cond) == <<Flushed, Fetch(pe, at, i, "cas", v, cond)>>

\* Also the commands RO_NET_FENCE and RO_NET_FINALIZE.
transport_quiet == <<Drain>>

\* Communicators: the one of a team, the cached ones of createComm, the world.
team_comm(t) == [group |-> <<"team", t.start, t.stride, t.size>>, members |-> Members(t)]
createComm(start, stride, size) ==
  [group |-> <<"comm", start, stride, size>>,
   members |-> {start + j * stride : j \in 0 .. size - 1}]
ro_net_comm_world == [group |-> <<"world", 0, 1, num_pes>>, members |-> PE]

barrier(comm, blocking) ==
  <<Flushed, Bring(comm.group, "")>>
  \o (IF blocking THEN <<Take(comm.group, comm.members, "", <<>>)>> ELSE <<>>)

\* The parts of entry k of a reduction: entry k of every member.
reduction(comm, t, n) ==
  <<Flushed, Bring(comm.group, "src"),
    Take(comm.group, comm.members, "dst",
      [k \in 0 .. n - 1 |-> [j \in 1 .. t.size |-> <<InWorld(t, j - 1), k>>]])>>

team_reduction(t, n) == reduction(team_comm(t), t, n)

\* The root may leave at once; the others need the root only.
Bcast(comm, me, root, n) ==
  <<Flushed, Bring(comm.group, "src")>>
  \o (IF me = root THEN <<Take(comm.group, {}, "", <<>>)>>
      ELSE <<Take(comm.group, {root}, "dst", [k \in 0 .. n - 1 |-> <<<<root, k>>>>])>>)

transport_broadcast(me, t, root, n) ==
  Bcast(createComm(t.start, t.stride, t.size), me, InWorld(t, root), n)
team_broadcast(me, t, root, n) == Bcast(team_comm(t), me, InWorld(t, root), n)

alltoall_broadcast(me, t, n) ==
  <<Flushed>>
  \o Loop(0, t.size - 1, LAMBDA j :
       <<Issue(<<Rput(InWorld(t, j), "dst", "src", Span(InTeam(t, me) * n, j * n, n))>>)>>)
  \o <<Drain>> \o barrier(team_comm(t), TRUE)

\* MPI_Alltoall, then the quiet of the work-group.
alltoall_mpi(me, t, n) ==
  <<Flushed, Bring(team_comm(t).group, "src"),
    Take(team_comm(t).group, Members(t), "dst",
      [k \in 0 .. t.size * n - 1 |->
        <<<<InWorld(t, k \div n), InTeam(t, me) * n + (k % n)>>>>])>>
  \o transport_quiet

\* The clusters of the GPU-centric algorithms: about sqrt(size) of them.
num_clust(t) == CHOOSE r \in 1 .. t.size : r * r <= t.size /\ (r + 1) * (r + 1) > t.size
clust_size(t) == (t.size + num_clust(t) - 1) \div num_clust(t)
clust_id(me, t) == InTeam(t, me) \div clust_size(t)
comm_cluster(me, t) ==
  createComm(InWorld(t, clust_id(me, t) * clust_size(t)), t.stride, clust_size(t))
comm_ring(me, t) ==
  createComm(InWorld(t, InTeam(t, me) % clust_size(t)), t.stride * clust_size(t), num_clust(t))

RoomAsserted(t, n) == IF MAX_ATA_BUFF_SIZE < n * t.size THEN <<Abort>> ELSE <<>>

\* Step 1 of the all-to-all: what the cluster has for my ring.
CollectForRing(me, t, n) ==
  LET cs == clust_size(t)
  IN  <<Flushed>> \o RoomAsserted(t, n)
      \o Loop(0, t.size - 1, LAMBDA i :
           <<Issue(<<Get(InWorld(t, clust_id(me, t) * cs + (i % cs)), "pAta", "src",
                         Span(i * n, ((InTeam(t, me) % cs) + (i \div cs) * cs) * n, n))>>)>>)
      \o <<Drain>>

\* Step 2: a put to each PE of the ring, flushed, from a place that is step further.
SendToRing(me, t, n, step) ==
  LET cs == clust_size(t)
  IN  Loop(0, num_clust(t) - 1, LAMBDA i :
        <<Now(<<Put(InWorld(t, (InTeam(t, me) % cs) + i * cs), "dst", "pAta",
                    Span(clust_id(me, t) * n * cs, i * step, n * cs))>>)>>)

alltoall_gcen(me, t, n) ==
  CollectForRing(me, t, n)
  \o SendToRing(me, t, n, n * clust_size(t))
  \o barrier(comm_cluster(me, t), FALSE) \o barrier(comm_ring(me, t), TRUE)

alltoall_gcen2(me, t, n) ==
  CollectForRing(me, t, n)
  \o barrier(comm_cluster(me, t), TRUE)
  \o SendToRing(me, t, n, n * clust_size(t))
  \o barrier(comm_ring(me, t), TRUE)

Square(t) == num_clust(t) * clust_size(t) = t.size

transport_alltoall(me, t, n) ==
  IF ~A2A_HEURISTICS THEN alltoall_mpi(me, t, n)
  ELSE IF (t.size >= A2A_GCEN_PES \/ n < A2A_GCEN_SIZE) /\ Square(t) THEN alltoall_gcen(me, t, n)
  ELSE IF n <= MPI_MAX THEN alltoall_mpi(me, t, n)
  ELSE alltoall_broadcast(me, t, n)

fcollect_broadcast(me, t, n) ==
  <<Flushed>>
  \o Loop(0, t.size - 1, LAMBDA j :
       <<Issue(<<Rput(InWorld(t, j), "dst", "src", Span(InTeam(t, me) * n, 0, n))>>)>>)
  \o <<Drain>> \o barrier(team_comm(t), TRUE)

fcollect_mpi(t, n) ==
  <<Flushed, Bring(team_comm(t).group, "src"),
    Take(team_comm(t).group, Members(t), "dst",
      [k \in 0 .. t.size * n - 1 |-> <<<<InWorld(t, k \div n), k % n>>>>])>>
  \o transport_quiet

\* Step 1 of the fcollect: what the cluster has.
CollectCluster(me, t, n) ==
  <<Flushed>> \o RoomAsserted(t, n)
  \o Loop(0, clust_size(t) - 1, LAMBDA i :
       <<Issue(<<Get(InWorld(t, clust_id(me, t) * clust_size(t) + i), "pAta", "src",
                     Span(i * n, 0, n))>>)>>)
  \o <<Drain>>

fcollect_gcen(me, t, n) ==
  CollectCluster(me, t, n) \o SendToRing(me, t, n, 0)
  \o barrier(comm_cluster(me, t), FALSE) \o barrier(comm_ring(me, t), TRUE)

fcollect_gcen2(me, t, n) ==
  CollectCluster(me, t, n) \o barrier(comm_cluster(me, t), TRUE)
  \o SendToRing(me, t, n, 0) \o barrier(comm_ring(me, t), TRUE)

transport_fcollect(me, t, n) ==
  IF n <= MPI_MAX THEN fcollect_mpi(t, n)
  ELSE IF Square(t) THEN fcollect_gcen(me, t, n)
  ELSE fcollect_broadcast(me, t, n)

-----------------------------------------------------------------------------
(***************************************************************************)
(* A command is handed to the transport.                                   *)
(***************************************************************************)
submitRequestsToMPI(c) ==
  CASE c.type = "PUT"            -> putMem(Put(c.PE, c.dst, c.src, c.size), TRUE)
    [] c.type = "P"              -> putMem(Flag(c.PE, c.dst, c.size, c.src), TRUE)
    [] c.type = "GET"            -> getMem(Get(c.PE, c.dst, c.src, c.size), TRUE)
    [] c.type = "PUT_NBI"        -> putMem(Put(c.PE, c.dst, c.src, c.size), FALSE)
    [] c.type = "GET_NBI"        -> getMem(Get(c.PE, c.dst, c.src, c.size), FALSE)
    [] c.type = "AMO_FOP"        -> amoFOP(c.PE, c.dst, c.src, c.op, c.size)
    [] c.type = "AMO_FCAS"       -> amoFCAS(c.PE, c.dst, c.src, c.size, c.cond)
    [] c.type = "TEAM_REDUCE"    -> team_reduction(c.team, c.size)
    [] c.type = "TO_ALL"         ->
         reduction(createComm(c.team.start, c.team.stride, c.team.size), c.team, c.size)
    [] c.type = "TEAM_BROADCAST" -> team_broadcast(c.my_pe, c.team, c.PE_root, c.size)
    [] c.type = "BROADCAST"      -> transport_broadcast(c.my_pe, c.team, c.PE_root, c.size)
    [] c.type = "ALLTOALL"       -> transport_alltoall(c.my_pe, c.team, c.size)
    [] c.type = "FCOLLECT"       -> transport_fcollect(c.my_pe, c.team, c.size)
    [] c.type = "BARRIER_ALL"    -> barrier(ro_net_comm_world, TRUE)
    [] c.type = "SYNC"           -> barrier(team_comm(c.team), TRUE)
    [] c.type \in {"FENCE", "QUIET", "FINALIZE"} -> transport_quiet

-----------------------------------------------------------------------------
(***************************************************************************)
(* ROContext.  A blocking command returns when the transport has notified  *)
(* the work-item; the value of a p is in the command itself.               *)
(***************************************************************************)
Rma(type, pe, to, from, map) ==
  [type |-> type, PE |-> pe, dst |-> to, src |-> from, size |-> map]
Collective(type, me, t, n, root) ==
  [type |-> type, my_pe |-> me, team |-> t, size |-> n, PE_root |-> root]
Amo(pe, at, i, op, v) ==
  [type |-> "AMO_FOP", PE |-> pe, dst |-> at, src |-> i, op |-> op, size |-> v]

build_queue_element(c) == submitRequestsToMPI(c)

putmem(pe, to, from, map) == build_queue_element(Rma("PUT", pe, to, from, map))
getmem(pe, to, from, map) == build_queue_element(Rma("GET", pe, to, from, map))
putmem_nbi(pe, to, from, map) == build_queue_element(Rma("PUT_NBI", pe, to, from, map))
getmem_nbi(pe, to, from, map) == build_queue_element(Rma("GET_NBI", pe, to, from, map))
putmem_wg(pe, to, from, map) == build_queue_element(Rma("PUT", pe, to, from, map))
getmem_wg(pe, to, from, map) == build_queue_element(Rma("GET", pe, to, from, map))
putmem_nbi_wg(pe, to, from, map) == build_queue_element(Rma("PUT_NBI", pe, to, from, map))
getmem_nbi_wg(pe, to, from, map) == build_queue_element(Rma("GET_NBI", pe, to, from, map))
putmem_wave(pe, to, from, map) == build_queue_element(Rma("PUT", pe, to, from, map))
getmem_wave(pe, to, from, map) == build_queue_element(Rma("GET", pe, to, from, map))
putmem_nbi_wave(pe, to, from, map) == build_queue_element(Rma("PUT_NBI", pe, to, from, map))
getmem_nbi_wave(pe, to, from, map) == build_queue_element(Rma("GET_NBI", pe, to, from, map))

\* Elements instead of bytes.
put(pe, to, from, map) == putmem(pe, to, from, map)
put_nbi(pe, to, from, map) == putmem_nbi(pe, to, from, map)
get(pe, to, from, map) == getmem(pe, to, from, map)
get_nbi(pe, to, from, map) == getmem_nbi(pe, to, from, map)
typed_wide(fn, pe, to, from, map) ==
  CASE fn = "put_wg" -> putmem_wg(pe, to, from, map)
    [] fn = "get_wg" -> getmem_wg(pe, to, from, map)
    [] fn = "put_nbi_wg" -> putmem_nbi_wg(pe, to, from, map)
    [] fn = "get_nbi_wg" -> getmem_nbi_wg(pe, to, from, map)
    [] fn = "put_wave" -> putmem_wave(pe, to, from, map)
    [] fn = "get_wave" -> getmem_wave(pe, to, from, map)
    [] fn = "put_nbi_wave" -> putmem_nbi_wave(pe, to, from, map)
    [] fn = "get_nbi_wave" -> getmem_nbi_wave(pe, to, from, map)

p(pe, to, i, v) == build_queue_element(Rma("P", pe, to, v, i))
\* Through the return buffer of the work-item.
g(pe, from, i) == getmem(pe, "ret", from, 0 :> i)

fence == build_queue_element([type |-> "FENCE"])
quiet == build_queue_element([type |-> "QUIET"])
barrier_all == build_queue_element([type |-> "BARRIER_ALL"])
sync_all == build_queue_element([type |-> "BARRIER_ALL"])
sync(t) == build_queue_element([type |-> "SYNC", team |-> t])
ctx_destroy == build_queue_element([type |-> "FINALIZE"])

amo_fetch_cas(pe, at, i, v, cond) ==
  build_queue_element([type |-> "AMO_FCAS", PE |-> pe, dst |-> at, src |-> i, size |-> v,
                       cond |-> cond])
amo_fetch_add(pe, at, i, v) == build_queue_element(Amo(pe, at, i, "add", v))
amo_swap(pe, at, i, v) == build_queue_element(Amo(pe, at, i, "swap", v))
amo_fetch_and(pe, at, i, v) == build_queue_element(Amo(pe, at, i, "and", v))
amo_fetch_or(pe, at, i, v) == build_queue_element(Amo(pe, at, i, "or", v))
amo_fetch_xor(pe, at, i, v) == build_queue_element(Amo(pe, at, i, "xor", v))
\* The others drop what the fetching ones return.
amo_cas(pe, at, i, v, cond) == amo_fetch_cas(pe, at, i, v, cond)
amo_add(pe, at, i, v) == amo_fetch_add(pe, at, i, v)
amo_set(pe, at, i, v) == amo_swap(pe, at, i, v)
amo_and(pe, at, i, v) == amo_fetch_and(pe, at, i, v)
amo_or(pe, at, i, v) == amo_fetch_or(pe, at, i, v)
amo_xor(pe, at, i, v) == amo_fetch_xor(pe, at, i, v)

Signal(pe, at, i, v, sig_op) ==
  IF sig_op = "SET" THEN amo_set(pe, at, i, v) ELSE amo_add(pe, at, i, v)
putmem_signal(pe, to, from, map, sig, i, v, sig_op) ==
  putmem(pe, to, from, map) \o fence \o Signal(pe, sig, i, v, sig_op)
putmem_signal_wg(pe, to, from, map, sig, i, v, sig_op) ==
  putmem_wg(pe, to, from, map) \o fence \o Signal(pe, sig, i, v, sig_op)
putmem_signal_wave(pe, to, from, map, sig, i, v, sig_op) ==
  putmem_wave(pe, to, from, map) \o fence \o Signal(pe, sig, i, v, sig_op)
\* Elements instead of bytes; the nbi variants are the blocking ones.
put_signal(fn, pe, to, from, map, sig, i, v, sig_op) ==
  CASE fn \in {"put_signal", "put_signal_nbi"} ->
         putmem_signal(pe, to, from, map, sig, i, v, sig_op)
    [] fn \in {"put_signal_wg", "put_signal_nbi_wg"} ->
         putmem_signal_wg(pe, to, from, map, sig, i, v, sig_op)
    [] fn \in {"put_signal_wave", "put_signal_nbi_wave"} ->
         putmem_signal_wave(pe, to, from, map, sig, i, v, sig_op)
signal_fetch(me, sig, i) == amo_fetch_add(me, sig, i, 0)

reduce(me, t, n) == build_queue_element(Collective("TEAM_REDUCE", me, t, n, 0))
to_all(me, t, n) == build_queue_element(Collective("TO_ALL", me, t, n, 0))
broadcast(me, t, n, root) == build_queue_element(Collective("TEAM_BROADCAST", me, t, n, root))
broadcast_active_set(me, t, n, root) == build_queue_element(Collective("BROADCAST", me, t, n, root))
alltoall(me, t, n) == build_queue_element(Collective("ALLTOALL", me, t, n, 0))
fcollect(me, t, n) == build_queue_element(Collective("FCOLLECT", me, t, n, 0))
=============================================================================
