------------------------------- MODULE HostApi -------------------------------
(***************************************************************************)
(* The functions the host calls (rocshmem.cpp), the class Context, the     *)
(* host context of each backend and the HostInterface they all end in, as  *)
(* instructions of OneSided on the network "host": MPI's one-sided         *)
(* operations on the window of a context.  MPI itself is external.  An     *)
(* offset into the window is the entry of the array, and the flushes of    *)
(* the HDP cache are left out: what has arrived is visible.                *)
(***************************************************************************)
EXTENDS World

CONSTANTS
  backend,     \* "RO", "GPU_IB" or "IPC"
  INT_WIDTH, SIZE_MAX

-----------------------------------------------------------------------------
(***************************************************************************)
(* HostInterface.  A put that is only initiated has its source read later; *)
(* MPI_Win_flush_local of the blocking ones waits until the source was     *)
(* read, not until the data has arrived; a get is complete then.           *)
(***************************************************************************)
initiate_put(pe, to, from, map) == <<Issue(<<Rput(pe, to, from, map)>>)>>
initiate_get(pe, to, from, map) == <<Issue(<<Get(pe, to, from, map)>>)>>
complete_all == <<Drain>>

hi_putmem(pe, to, from, map) == <<Issue(<<Put(pe, to, from, map)>>)>>
hi_getmem(pe, to, from, map) == <<Now(<<Get(pe, to, from, map)>>)>>
hi_putmem_nbi(pe, to, from, map) == initiate_put(pe, to, from, map)
hi_getmem_nbi(pe, to, from, map) == initiate_get(pe, to, from, map)
hi_rma(fn, pe, to, from, map) ==
  CASE fn \in {"putmem", "put"}         -> hi_putmem(pe, to, from, map)
    [] fn \in {"getmem", "get"}         -> hi_getmem(pe, to, from, map)
    [] fn \in {"putmem_nbi", "put_nbi"} -> hi_putmem_nbi(pe, to, from, map)
    [] fn \in {"getmem_nbi", "get_nbi"} -> hi_getmem_nbi(pe, to, from, map)
hi_p(pe, to, i, v) == <<Issue(<<Flag(pe, to, i, v)>>)>>
hi_g(pe, from, i) == <<Now(<<Get(pe, "ret", from, 0 :> i)>>)>>

hi_fence == complete_all
hi_quiet == complete_all

host_comm_world == [group |-> <<"host world">>, members |-> PE]
MPI_Barrier(comm) == <<Bring(comm.group, ""), Take(comm.group, comm.members, "", <<>>)>>
hi_sync_all == MPI_Barrier(host_comm_world)
hi_barrier_all == complete_all \o MPI_Barrier(host_comm_world)
barrier_for_sync == MPI_Barrier(host_comm_world)
hi_order(fn) ==
  CASE fn = "fence"       -> hi_fence
    [] fn = "quiet"       -> hi_quiet
    [] fn = "sync_all"    -> hi_sync_all
    [] fn = "barrier_all" -> hi_barrier_all

hi_amo_fetch_add(pe, at, i, v) == <<Fetch(pe, at, i, "add", v, 0)>>
hi_amo_fetch_cas(pe, at, i, v, cond) == <<Fetch(pe, at, i, "cas", v, cond)>>
hi_amo_add(pe, at, i, v) == hi_amo_fetch_add(pe, at, i, v)
hi_amo_cas(pe, at, i, v, cond) == hi_amo_fetch_cas(pe, at, i, v, cond)
Unimplemented == <<Abort>>
hi_amo(fn, pe, at, i, v, cond) ==
  CASE fn = "add"       -> hi_amo_add(pe, at, i, v)
    [] fn = "cas"       -> hi_amo_cas(pe, at, i, v, cond)
    [] fn = "fetch_add" -> hi_amo_fetch_add(pe, at, i, v)
    [] fn = "fetch_cas" -> hi_amo_fetch_cas(pe, at, i, v, cond)
    [] OTHER            -> Unimplemented

\* The communicator of an active set; it is made once and then found again.
get_mpi_comm(t) ==
  IF t = AllPEs THEN host_comm_world
  ELSE [group |-> <<"active set", t.start, t.stride, t.size>>, members |-> Members(t)]
team_mpi_comm(t) == [group |-> <<"team", t.start, t.stride, t.size>>, members |-> Members(t)]

\* MPI_Bcast: the root may leave at once, the others need the root only.
broadcast_internal(comm, me, n, root) ==
  <<Bring(comm.group, "src")>>
  \o IF me = root THEN <<>>
     ELSE <<Take(comm.group, {root}, "dst", [k \in 0 .. n - 1 |-> <<<<root, k>>>>])>>
hi_broadcast(me, t, n, root) == broadcast_internal(get_mpi_comm(t), me, n, InWorld(t, root))
hi_team_broadcast(me, t, n, root) == broadcast_internal(team_mpi_comm(t), me, n, InWorld(t, root))

\* MPI_Allreduce.
to_all_internal(comm, t, n) ==
  <<Bring(comm.group, "src"),
    Take(comm.group, comm.members, "dst",
      [k \in 0 .. n - 1 |-> [j \in 1 .. t.size |-> <<InWorld(t, j - 1), k>>]])>>
hi_to_all(t, n) == to_all_internal(get_mpi_comm(t), t, n)
hi_reduce(t, n) == to_all_internal(team_mpi_comm(t), t, n)

\* The loops read the entry with an atomic fetch of the PE's own window.
hi_test(at, i, cmp, v) == <<Test(at, i, cmp, v)>>
hi_wait_until(at, i, cmp, v) == <<Await(at, i, cmp, v)>>
\* The first entry to wait for; n when there is none.
status_entry(n, status) ==
  IF \A i \in 0 .. n - 1 : status[i] # 0 THEN n
  ELSE CHOOSE i \in 0 .. n - 1 : status[i] = 0 /\ \A j \in 0 .. i - 1 : status[j] # 0
Skipped(n, status) == {i \in 0 .. n - 1 : status[i] # 0}
hi_wait_until_all(at, n, status, cmp, v) ==
  Loop(status_entry(n, status), n - 1, LAMBDA i :
    IF i \in Skipped(n, status) THEN <<>> ELSE hi_wait_until(at, i, cmp, v))
hi_wait_until_any(me, at, n, status, cmp, v) ==
  LET pos == status_entry(n, status)
  IN  IF pos = n THEN <<Returned(SIZE_MAX)>>
      ELSE <<Now(<<Flag(me, "ret", 1, pos)>>), Scan(at, pos, n, Skipped(n, status), cmp, v, FALSE)>>
hi_wait_until_some(me, at, n, status, cmp, v) ==
  LET pos == status_entry(n, status)
  IN  IF pos = n THEN <<Returned(0)>>
      ELSE <<Returned(0), Now(<<Flag(me, "ret", 1, pos)>>),
             Scan(at, pos, n, Skipped(n, status), cmp, v, TRUE)>>
\* These do not wait.
hi_wait_until_vector(fn) == IF fn = "wait_until_all_vector" THEN <<>> ELSE <<Returned(0)>>
hi_wait(fn, me, at, n, status, cmp, v) ==
  CASE fn = "wait_until"      -> hi_wait_until(at, n, cmp, v)
    [] fn = "wait_until_all"  -> hi_wait_until_all(at, n, status, cmp, v)
    [] fn = "wait_until_any"  -> hi_wait_until_any(me, at, n, status, cmp, v)
    [] fn = "wait_until_some" -> hi_wait_until_some(me, at, n, status, cmp, v)
    [] fn = "test"            -> hi_test(at, n, cmp, v)
    [] OTHER                  -> hi_wait_until_vector(fn)

-----------------------------------------------------------------------------
(***************************************************************************)
(* ROHostContext, GPUIBHostContext and IPCHostContext hand the call on to  *)
(* the host interface, with the window of the context.  They differ in     *)
(* barrier_all and in the reduction of a team; the atomics other than add  *)
(* and compare and swap are in none of them, so that Context calls itself. *)
(***************************************************************************)
HOST_DISPATCH(ro, ib, ipc) ==
  CASE backend = "RO"     -> ro
    [] backend = "GPU_IB" -> ib
    [] backend = "IPC"    -> ipc
\* The variable that holds the result of an IPCHostContext is an int.
HOST_DISPATCH_RET(ro, ib, ipc) == HOST_DISPATCH(ro, ib, ipc \o <<Narrowed(INT_WIDTH)>>)

ROHostContext_mem(fn, pe, to, from, map) == hi_rma(fn, pe, to, from, map)
ROHostContext_typed(fn, pe, to, from, map) == hi_rma(fn, pe, to, from, map)
ROHostContext_order(fn) ==
  IF fn = "barrier_all" THEN hi_fence \o barrier_for_sync ELSE hi_order(fn)
ROHostContext_amo(fn, pe, at, i, v, cond) == hi_amo(fn, pe, at, i, v, cond)
ROHostContext_wait(fn, me, at, n, status, cmp, v) == hi_wait(fn, me, at, n, status, cmp, v)
ROHostContext_broadcast(me, t, n, root) == hi_broadcast(me, t, n, root)
ROHostContext_to_all(t, n) == hi_to_all(t, n)

GPUIBHostContext_mem(fn, pe, to, from, map) == hi_rma(fn, pe, to, from, map)
GPUIBHostContext_typed(fn, pe, to, from, map) == hi_rma(fn, pe, to, from, map)
GPUIBHostContext_order(fn) == hi_order(fn)
GPUIBHostContext_amo(fn, pe, at, i, v, cond) == hi_amo(fn, pe, at, i, v, cond)
GPUIBHostContext_wait(fn, me, at, n, status, cmp, v) == hi_wait(fn, me, at, n, status, cmp, v)
GPUIBHostContext_broadcast(me, t, n, root) == hi_broadcast(me, t, n, root)
GPUIBHostContext_to_all(t, n) == hi_to_all(t, n)

IPCHostContext_mem(fn, pe, to, from, map) == hi_rma(fn, pe, to, from, map)
IPCHostContext_typed(fn, pe, to, from, map) == hi_rma(fn, pe, to, from, map)
IPCHostContext_order(fn) == hi_order(fn)
IPCHostContext_amo(fn, pe, at, i, v, cond) == hi_amo(fn, pe, at, i, v, cond)
IPCHostContext_wait(fn, me, at, n, status, cmp, v) == hi_wait(fn, me, at, n, status, cmp, v)
IPCHostContext_broadcast(me, t, n, root) == hi_broadcast(me, t, n, root)
IPCHostContext_to_all(t, n) == hi_to_all(t, n)
IPCHostContext_reduce(t, n) == hi_reduce(t, n)

-----------------------------------------------------------------------------
(***************************************************************************)
(* Context, on the host.                                                   *)
(***************************************************************************)
Mem(fn, pe, to, from, map) ==
  IF map = <<>> THEN <<>>
  ELSE HOST_DISPATCH(ROHostContext_mem(fn, pe, to, from, map),
         GPUIBHostContext_mem(fn, pe, to, from, map), IPCHostContext_mem(fn, pe, to, from, map))
Typed(fn, pe, to, from, map) ==
  IF map = <<>> THEN <<>>
  ELSE HOST_DISPATCH(ROHostContext_typed(fn, pe, to, from, map),
         GPUIBHostContext_typed(fn, pe, to, from, map), IPCHostContext_typed(fn, pe, to, from, map))
p(pe, to, i, v) == hi_p(pe, to, i, v)
g(pe, from, i) == HOST_DISPATCH_RET(hi_g(pe, from, i), hi_g(pe, from, i), hi_g(pe, from, i))
Order(fn) ==
  HOST_DISPATCH(ROHostContext_order(fn), GPUIBHostContext_order(fn), IPCHostContext_order(fn))
Amo(fn, pe, at, i, v, cond) ==
  LET ro == ROHostContext_amo(fn, pe, at, i, v, cond)
      ib == GPUIBHostContext_amo(fn, pe, at, i, v, cond)
      ipc == IPCHostContext_amo(fn, pe, at, i, v, cond)
  IN  IF fn \in {"add", "set", "and", "or", "xor", "cas"} THEN HOST_DISPATCH(ro, ib, ipc)
      ELSE HOST_DISPATCH_RET(ro, ib, ipc)
broadcast(me, t, n, root) ==
  IF n = 0 THEN <<>>
  ELSE HOST_DISPATCH(ROHostContext_broadcast(me, t, n, root),
         GPUIBHostContext_broadcast(me, t, n, root), IPCHostContext_broadcast(me, t, n, root))
team_broadcast(me, t, n, root) ==
  IF n = 0 THEN <<>> ELSE hi_team_broadcast(me, t, n, root)
to_all(t, n) ==
  IF n = 0 THEN <<>>
  ELSE HOST_DISPATCH(ROHostContext_to_all(t, n), GPUIBHostContext_to_all(t, n),
                     IPCHostContext_to_all(t, n))
reduce(t, n) ==
  IF n = 0 THEN <<>> ELSE HOST_DISPATCH(Unimplemented, Unimplemented, IPCHostContext_reduce(t, n))
Wait(fn, me, at, n, status, cmp, v) ==
  LET ro == ROHostContext_wait(fn, me, at, n, status, cmp, v)
      ib == GPUIBHostContext_wait(fn, me, at, n, status, cmp, v)
      ipc == IPCHostContext_wait(fn, me, at, n, status, cmp, v)
  IN  IF fn \in {"wait_until", "wait_until_all", "wait_until_any", "wait_until_all_vector"}
      THEN HOST_DISPATCH(ro, ib, ipc)
      ELSE HOST_DISPATCH_RET(ro, ib, ipc)

-----------------------------------------------------------------------------
(***************************************************************************)
(* The functions of rocshmem.cpp with a context, those of the default      *)
(* context, and the collectives, which always use the default context.     *)
(***************************************************************************)
rocshmem_ctx_rma(fn, pe, to, from, map) ==
  IF fn \in {"put", "get", "put_nbi", "get_nbi"}
  THEN Typed(fn, pe, to, from, map)
  ELSE Mem(fn, pe, to, from, map)
rocshmem_rma(fn, pe, to, from, map) == rocshmem_ctx_rma(fn, pe, to, from, map)
rocshmem_p(pe, to, i, v) == p(pe, to, i, v)
rocshmem_g(pe, from, i) == g(pe, from, i)

rocshmem_ctx_atomic(fn, pe, at, i, v, cond) ==
  CASE fn = "compare_swap" -> Amo("fetch_cas", pe, at, i, v, cond)
    [] fn = "fetch_inc"    -> Amo("fetch_add", pe, at, i, 1, 0)
    [] fn = "fetch"        -> Amo("fetch_add", pe, at, i, 0, 0)
    [] fn = "inc"          -> Amo("add", pe, at, i, 1, 0)
    [] OTHER               -> Amo(fn, pe, at, i, v, 0)
rocshmem_atomic(fn, pe, at, i, v, cond) == rocshmem_ctx_atomic(fn, pe, at, i, v, cond)

rocshmem_order(fn) == Order(fn)

rocshmem_collective(fn, me, t, n, root) ==
  CASE fn = "broadcast"      -> broadcast(me, t, n, root)
    [] fn = "team_broadcast" -> team_broadcast(me, t, n, root)
    [] fn = "to_all"         -> to_all(t, n)
    [] fn = "reduce"         -> reduce(t, n)

rocshmem_wait(fn, me, at, n, status, cmp, v) == Wait(fn, me, at, n, status, cmp, v)

-----------------------------------------------------------------------------
(***************************************************************************)
(* The functions with the name of a type.                                  *)
(***************************************************************************)
RMA_DEF_GEN(fn, pe, to, from, map) == rocshmem_rma(fn, pe, to, from, map)
TNAME_p(pe, to, i, v) == rocshmem_p(pe, to, i, v)
TNAME_g(pe, from, i) == rocshmem_g(pe, from, i)
TNAME_broadcast(fn, me, t, n, root) == rocshmem_collective(fn, me, t, n, root)
REDUCTION_DEF_GEN(fn, me, t, n) == rocshmem_collective(fn, me, t, n, 0)

AMO_STANDARD_DEF_GEN(fn, pe, at, i, v, cond) == rocshmem_atomic(fn, pe, at, i, v, cond)
AMO_EXTENDED_DEF_GEN(fn, pe, at, i, v) == rocshmem_atomic(fn, pe, at, i, v, 0)
AMO_BITWISE_DEF_GEN(fn, pe, at, i, v) == rocshmem_atomic(fn, pe, at, i, v, 0)
WAIT_DEF_GEN(fn, me, at, n, status, cmp, v) == rocshmem_wait(fn, me, at, n, status, cmp, v)
=============================================================================
