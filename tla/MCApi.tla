------------------------------- MODULE MCApi -------------------------------
(***************************************************************************)
(* What the kernels of MCOneSided and MCCollectives share.  A script is a  *)
(* kernel, or a program of the hosts: a tuple <<backend, ...>>.            *)
(***************************************************************************)
EXTENDS OneSided

CONSTANTS
  INT_WIDTH, SIZE_MAX, MIN_WRKDATA_SIZE, REDUCE_SYNC_SIZE, BARRIER_SYNC_SIZE,
  ATA_MAX_WRKDATA_SIZE, MAX_ATA_BUFF_SIZE, MAX_CHUNK,
  ATOMIC_FROM, A2A_HEURISTICS, A2A_GCEN_PES, A2A_GCEN_SIZE, MPI_MAX

Api(backend, n) == INSTANCE DeviceApi WITH num_pes <- n, backend <- backend
Host(backend, n) == INSTANCE HostApi WITH num_pes <- n, backend <- backend

Backends == {"RO", "GPU_IB", "IPC"}
\* The host programs of the builds for these backends.
OfHost == [HOST_RO |-> "RO", HOST_GPU_IB |-> "GPU_IB", HOST_IPC |-> "IPC"]
Hosts == DOMAIN OfHost
NetOf == [RO |-> "mpi", GPU_IB |-> "ib", IPC |-> "ipc"] @@ [h \in Hosts |-> "host"]

\* The value PE q has in entry k for call c.
V(q, c, k) == c * 10^q + 1000 * k
Fill(me, c, n) == <<Now(<<Store(me, "src", [k \in 0 .. n - 1 |-> V(me, c, k)])>>)>>
Array(n) == [k \in 0 .. n - 1 |-> 0]
First(n) == [start |-> 0, stride |-> 1, size |-> n]
Barrier(b, n, me) ==
  IF b \in Hosts THEN Host(OfHost[b], n)!rocshmem_order("barrier_all")
  ELSE Api(b, n)!rocshmem_wg_sync("barrier_all", me, First(n))

Nets == [s \in Scripts |-> NetOf[s[1]]] @@ <<>>
MCNet == Nets
=============================================================================
