---------------------------- MODULE MCCollectives ----------------------------
(***************************************************************************)
(* Kernels of collectives: a call is between barriers, since the arrays it *)
(* writes and reads belong to the application; every collective is called  *)
(* twice.  A script is <<backend, number of PEs, collective, algorithm,    *)
(* team, number of entries, reuse>>; the algorithm "" is the one of the    *)
(* API.  With reuse the source is filled again as soon as the call has     *)
(* returned, otherwise after a barrier.                                    *)
(***************************************************************************)
EXTENDS MCApi

Ro(n) == INSTANCE RoPrograms WITH num_pes <- n
Ib(n) == INSTANCE IbPrograms WITH num_pes <- n

Total(t, c, k) == FoldLeft(LAMBDA s, j : s + V(InWorld(t, j), c, k), 0, [j \in 1 .. t.size |-> j - 1])

\* What entry k of the destination of me holds after call c.
Expected(kind, t, n, me, c, k) ==
  CASE kind = "reduce"    -> IF k < n THEN Total(t, c, k) ELSE 0
    [] kind = "broadcast" -> IF k < n /\ me # t.start THEN V(t.start, c, k) ELSE 0
    [] kind = "alltoall"  -> IF k < n * t.size
                             THEN V(InWorld(t, k \div n), c, InTeam(t, me) * n + (k % n)) ELSE 0
    [] kind = "fcollect"  -> IF k < n * t.size THEN V(InWorld(t, k \div n), c, k % n) ELSE 0
    [] kind = "sync"      -> IF k = 0 THEN V(InWorld(t, (InTeam(t, me) + 1) % t.size), c, 0) ELSE 0
SourceSize(kind, t, n) == IF kind = "alltoall" THEN n * t.size ELSE n
ResultSize(kind, t, n) == IF kind \in {"alltoall", "fcollect"} THEN n * t.size ELSE n

HostBody(b, np, kind, algorithm, t, n, me) ==
  LET before == InWorld(t, (InTeam(t, me) + t.size - 1) % t.size)
  IN  IF kind = "sync"
      THEN Host(b, np)!RMA_DEF_GEN("put_nbi", before, "dst", "src", 0 :> 0)
           \o Host(b, np)!rocshmem_order("quiet") \o Host(b, np)!rocshmem_order(algorithm)
      ELSE IF kind = "reduce" THEN Host(b, np)!REDUCTION_DEF_GEN(algorithm, me, t, n)
      ELSE Host(b, np)!TNAME_broadcast(algorithm, me, t, n, 0)

KernelBody(b, np, kind, algorithm, t, n, me) ==
  LET before == InWorld(t, (InTeam(t, me) + t.size - 1) % t.size)
  IN  CASE kind = "sync" ->
             Api(b, np)!rocshmem_rma("put_nbi", before, "dst", "src", 0 :> 0) \o Api(b, np)!rocshmem_quiet
             \o Api(b, np)!rocshmem_wg_sync(algorithm, me, t)
        [] algorithm = "to_all" -> Api(b, np)!to_all(me, t, n)
        [] algorithm = "brucks" /\ kind = "alltoall" -> Ib(np)!alltoall_brucks(me, t, n)
        [] algorithm = "brucks" /\ kind = "fcollect" -> Ib(np)!fcollect_brucks(me, t, n)
        [] algorithm = "gcen" /\ kind = "alltoall" ->
             IF b = "RO" THEN Ro(np)!alltoall_gcen(me, t, n) ELSE Ib(np)!alltoall_gcen(me, t, n)
        [] algorithm = "gcen" /\ kind = "fcollect" ->
             IF b = "RO" THEN Ro(np)!fcollect_gcen(me, t, n) ELSE Ib(np)!fcollect_gcen(me, t, n)
        [] algorithm = "gcen2" /\ kind = "alltoall" ->
             IF b = "RO" THEN Ro(np)!alltoall_gcen2(me, t, n) ELSE Ib(np)!alltoall_gcen2(me, t, n)
        [] algorithm = "gcen2" /\ kind = "fcollect" ->
             IF b = "RO" THEN Ro(np)!fcollect_gcen2(me, t, n) ELSE Ib(np)!fcollect_gcen2(me, t, n)
        [] algorithm = "broadcast" /\ kind = "alltoall" -> Ro(np)!alltoall_broadcast(me, t, n)
        [] algorithm = "broadcast" /\ kind = "fcollect" -> Ro(np)!fcollect_broadcast(me, t, n)
        [] algorithm = "active_set" -> Api(b, np)!broadcast_active_set(me, t, n, 0)
        [] kind = "reduce" -> Api(b, np)!REDUCTION_DEF_GEN(me, t, n)
        [] OTHER -> Api(b, np)!TNAME_wg_collective(kind, me, t, n, 0)

Body(b, np, kind, algorithm, t, n, me) ==
  IF b \in Hosts THEN HostBody(OfHost[b], np, kind, algorithm, t, n, me)
  ELSE KernelBody(b, np, kind, algorithm, t, n, me)

CallOnce(b, np, kind, algorithm, t, n, c, me) ==
  Fill(me, c, SourceSize(kind, t, n)) \o Barrier(b, np, me)
  \o IF me \notin Members(t) THEN <<>>
     ELSE Body(b, np, kind, algorithm, t, n, me)
          \o <<Return("dst", {[k \in 0 .. ResultSize(kind, t, n) |->
                                Expected(kind, t, n, me, c, k)]})>>
Collective(b, np, kind, algorithm, t, n, reuse, me) ==
  Loop(1, 2, LAMBDA c : CallOnce(b, np, kind, algorithm, t, n, c, me)
                        \o IF reuse THEN <<>> ELSE Barrier(b, np, me))
  \o IF b \in Hosts THEN <<>> ELSE Api(b, np)!alltoall(me, t, 0)

-----------------------------------------------------------------------------
CollectiveProgram(s, me) == Collective(s[1], s[2], s[3], s[4], s[5], s[6], s[7], me)

CollectiveArrays(s) ==
  [src |-> Array(SourceSize(s[3], s[5], s[6])), dst |-> Array(ResultSize(s[3], s[5], s[6]) + 1),
   pWrk |-> Array(12), pAta |-> Array(2 * s[5].size * s[6]), barrier_sync |-> Array(4),
   barrier_pSync |-> Array(2 * s[2]), reduce_pSync |-> Array(2 * s[2]),
   bcast_pSync |-> Array(4), alltoall_pSync |-> Array(BARRIER_SYNC_SIZE + 1)]

Even == [start |-> 0, stride |-> 2, size |-> 2]
Three == First(3)
Four == First(4)
Two == First(2)
Collectives ==
  {<<b, 3, kind, "", t, 1, TRUE>> :
     b \in {"GPU_IB", "IPC"}, kind \in {"alltoall", "fcollect"}, t \in {Three, Even}}
  \cup {<<b, 3, kind, "", t, 1, TRUE>> :
          b \in {"RO", "IPC"}, kind \in {"reduce", "broadcast"}, t \in {Three, Even}}
  \cup {<<b, 3, "sync", fn, IF fn = "sync" THEN Even ELSE Three, 1, TRUE>> :
          b \in {"RO", "IPC"}, fn \in {"sync", "sync_all"}}
  \cup {<<"GPU_IB", 3, "sync", "sync_all", Three, 1, TRUE>>,
        <<"GPU_IB", 3, "sync", "sync", Three, 1, TRUE>>,
        <<"GPU_IB", 3, "reduce", "to_all", Three, 1, FALSE>>,
        <<"GPU_IB", 3, "reduce", "to_all", Three, 6, TRUE>>,
        <<"RO", 3, "reduce", "to_all", Even, 1, TRUE>>,
        <<"RO", 3, "broadcast", "active_set", Three, 1, TRUE>>,
        <<"RO", 3, "alltoall", "", Three, 2, TRUE>>,
        <<"RO", 3, "alltoall", "", Three, 3, TRUE>>,
        <<"RO", 3, "fcollect", "", Even, 1, TRUE>>,
        <<"RO", 3, "fcollect", "", Three, 1, TRUE>>,
        <<"IPC", 3, "reduce", "", Three, 6, TRUE>>,
        <<"IPC", 3, "reduce", "", Even, 12, TRUE>>,
        <<"RO", 4, "fcollect", "gcen2", Four, 1, TRUE>>}
  \cup {<<h, 3, "broadcast", algorithm, t, 1, TRUE>> :
          h \in Hosts, algorithm \in {"broadcast", "team_broadcast"}, t \in {Three, Even}}
  \cup {<<h, 3, "reduce", "to_all", t, 1, TRUE>> : h \in Hosts, t \in {Three, Even}}
  \cup {<<"HOST_IPC", 3, "reduce", "reduce", t, 1, TRUE>> : t \in {Three, Even}}
  \cup {<<h, 3, "sync", "sync_all", Three, 1, TRUE>> : h \in Hosts}
  \cup {<<"GPU_IB", 3, "broadcast", algorithm, t, 1, FALSE>> :
           algorithm \in {"", "active_set"}, t \in {Three, Even}}
  \cup {<<"RO", 3, kind, "", t, n, FALSE>> :
           kind \in {"alltoall", "fcollect"}, t \in {Three, Even}, n \in {1, 3}}
  \cup {<<"GPU_IB", 2, kind, algorithm, Two, 1, FALSE>> :
           kind \in {"alltoall", "fcollect"}, algorithm \in {"brucks", "gcen", "gcen2"}}
  \cup {<<"RO", 2, kind, algorithm, Two, 1, FALSE>> :
           kind \in {"alltoall", "fcollect"}, algorithm \in {"gcen", "gcen2", "broadcast"}}
  \cup {<<b, 4, "broadcast", "", First(2), 1, FALSE>> : b \in {"GPU_IB", "IPC"}}
  \cup {<<"GPU_IB", 4, "sync", "sync_all", Four, 1, TRUE>>}

\* The team barrier of the GPU_IB backend on a part of the world.
PartialTeamSync == {<<"GPU_IB", 3, "sync", "sync", Even, 1, TRUE>>}
=============================================================================
