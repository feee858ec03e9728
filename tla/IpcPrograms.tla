---------------------------- MODULE IpcPrograms ----------------------------
(***************************************************************************)
(* The functions of IPCContext as instructions of OneSided.  Every PE is   *)
(* reached by the stores of the work-items themselves (ipcCopy, memcpy).   *)
(* A team is [start, stride, size]; me and i are PEs of the world.  Stores *)
(* of a PE to its own memory take effect at once, so a fence that follows  *)
(* such stores only is left out.                                           *)
(***************************************************************************)
EXTENDS World

CONSTANTS
  MIN_WRKDATA_SIZE,   \* ROCSHMEM_REDUCE_MIN_WRKDATA_SIZE
  REDUCE_SYNC_SIZE    \* ROCSHMEM_REDUCE_SYNC_SIZE

-----------------------------------------------------------------------------
(***************************************************************************)
(* One-sided operations.                                                   *)
(***************************************************************************)
\* Mutant: the fence is dropped.
fenceDropped == <<>>
fence == <<Drain>>
quiet == fence

putmem(pe, to, from, map) == <<Issue(<<Put(pe, to, from, map)>>), Drain>>
getmem(pe, to, from, map) == <<Now(<<Get(pe, to, from, map)>>)>>
putmem_nbi(pe, to, from, map) == putmem(pe, to, from, map)
getmem_nbi(pe, to, from, map) == getmem(pe, to, from, map)
p(pe, to, i, v) == <<Issue(<<Flag(pe, to, i, v)>>), Drain>>
g(pe, from, i) == getmem(pe, "ret", from, 0 :> i)

putmem_wg(pe, to, from, map) == <<Issue(<<Put(pe, to, from, map)>>)>>
getmem_wg(pe, to, from, map) == <<Now(<<Get(pe, to, from, map)>>)>>

putmem_wave(pe, to, from, map) == <<Issue(<<Put(pe, to, from, map)>>), Drain>>
getmem_wave(pe, to, from, map) == <<Now(<<Get(pe, to, from, map)>>)>>

putmem_nbi_wg(pe, to, from, map) == putmem_wg(pe, to, from, map)
getmem_nbi_wg(pe, to, from, map) == getmem_wg(pe, to, from, map)
putmem_nbi_wave(pe, to, from, map) == putmem_wave(pe, to, from, map)
getmem_nbi_wave(pe, to, from, map) == getmem_wave(pe, to, from, map)

\* Elements instead of bytes.
put(pe, to, from, map) == putmem(pe, to, from, map)
put_nbi(pe, to, from, map) == putmem_nbi(pe, to, from, map)
get(pe, to, from, map) == getmem(pe, to, from, map)
get_nbi(pe, to, from, map) == getmem_nbi(pe, to, from, map)
typed_wide(fn, pe, to, from, map) ==
  CASE fn = "put_wg" -> putmem_wg(pe, to, from, map)
    [] fn = "get_wg" -> getmem_wg(pe, to, from, map)
    [] fn = "put_nbi_wg" -> putmem_nbi_wg(pe, to, from, map)
    [] fn = "get_nbi_wg" -> getmem_nbi_wg(pe, to, from, map)
    [] fn = "put_wave" -> putmem_wave(pe, to, from, map)
    [] fn = "get_wave" -> getmem_wave(pe, to, from, map)
    [] fn = "put_nbi_wave" -> putmem_nbi_wave(pe, to, from, map)
    [] fn = "get_nbi_wave" -> getmem_nbi_wave(pe, to, from, map)

\* Atomics of the system scope and sequentially consistent: what was stored
\* before is visible before.
amo_add(pe, at, i, v) == <<Drain, Now(<<Add(pe, at, i, v)>>)>>
amo_set(pe, at, i, v) == <<Drain, Now(<<Flag(pe, at, i, v)>>)>>
amo_fetch_add(pe, at, i, v) == <<Drain, Fetch(pe, at, i, "add", v, 0)>>
amo_fetch_cas(pe, at, i, v, cond) == <<Drain, Fetch(pe, at, i, "cas", v, cond)>>
amo_cas(pe, at, i, v, cond) == <<Drain, Fetch(pe, at, i, "cas", v, cond)>>

Signal(pe, at, i, v, sig_op) ==
  IF sig_op = "SET" THEN amo_set(pe, at, i, v) ELSE amo_add(pe, at, i, v)

putmem_signal(pe, to, from, map, sig, i, v, sig_op) ==
  putmem(pe, to, from, map) \o fence \o Signal(pe, sig, i, v, sig_op)
putmem_signal_wg(pe, to, from, map, sig, i, v, sig_op) ==
  putmem_wg(pe, to, from, map) \o fence \o Signal(pe, sig, i, v, sig_op)
putmem_signal_wave(pe, to, from, map, sig, i, v, sig_op) ==
  putmem_wave(pe, to, from, map) \o fence \o Signal(pe, sig, i, v, sig_op)
\* Elements instead of bytes; the nbi variants are the blocking ones.
put_signal(fn, pe, to, from, map, sig, i, v, sig_op) ==
  CASE fn \in {"put_signal", "put_signal_nbi"} ->
         putmem_signal(pe, to, from, map, sig, i, v, sig_op)
    [] fn \in {"put_signal_wg", "put_signal_nbi_wg"} ->
         putmem_signal_wg(pe, to, from, map, sig, i, v, sig_op)
    [] fn \in {"put_signal_wave", "put_signal_nbi_wave"} ->
         putmem_signal_wave(pe, to, from, map, sig, i, v, sig_op)
signal_fetch(me, sig, i) == amo_fetch_add(me, sig, i, 0)

\* The copies into the work and synchronisation buffers of the teams.
internal_putmem(pe, to, i, v) == <<Issue(<<Flag(pe, to, i, v)>>), Drain>>
internal_putmem_wg(pe, to, from, map) == <<Issue(<<Put(pe, to, from, map)>>)>>

-----------------------------------------------------------------------------
(***************************************************************************)
(* Synchronisation.                                                        *)
(***************************************************************************)
internal_direct_barrier(me, start, stride, n, sync) ==
  IF me = start
  THEN Loop(1, n - 1, LAMBDA i : <<Await(sync, i, "EQ", 1), Now(<<Flag(me, sync, i, 0)>>)>>)
       \o fence
       \o Loop(1, n - 1, LAMBDA i : internal_putmem(start + i * stride, sync, 0, 1))
  ELSE internal_putmem(start, sync, (me - start) \div stride, 1)
       \o <<Await(sync, 0, "EQ", 1), Now(<<Flag(me, sync, 0, 0)>>)>>

\* Fewer than 64 PEs; larger teams pass internal_atomic_barrier (module
\* IpcAtomicBarrier).
internal_sync(me, t, sync) ==
  internal_direct_barrier(me, t.start, t.stride, t.size, sync)

sync(me, t) == internal_sync(me, t, "barrier_pSync")
sync_all(me) == internal_sync(me, AllPEs, "barrier_sync")
barrier_all(me) == quiet \o sync_all(me)

-----------------------------------------------------------------------------
(***************************************************************************)
(* Reductions of the n entries from entry o on.                            *)
(***************************************************************************)
internal_direct_allreduce(me, t, o, n) ==
  <<Now(<<Put(me, "dst", "src", Span(o, o, n))>>)>>
  \o Others(t, me, LAMBDA i : internal_putmem_wg(i, "pWrk", "src", Span(me * n, o, n))
                              \o fence \o internal_putmem(i, "barrier_pSync", me, 1))
  \o Others(t, me, LAMBDA i : <<Await("barrier_pSync", i, "EQ", 1),
                                Now(<<Accumulate(me, "dst", "pWrk", Span(o, i * n, n))>>)>>)
  \o <<Now(<<Store(me, "barrier_pSync", [i \in PE |-> 0])>>)>>

internal_ring_allreduce(me, t, o, n, n_seg, seg_size, chunk) ==
  LET my == InTeam(t, me)
      send_pe == InWorld(t, (my + 1) % t.size)
      off_send(iter) == ((my + 1 - iter + 2 * t.size) % t.size) * chunk
      off_recv(iter) == ((my - iter + 2 * t.size) % t.size) * chunk
      turn(seg, iter) == fence \o internal_putmem(send_pe, "barrier_pSync", iter, seg + 100)
                         \o <<Await("barrier_pSync", iter, "EQ", seg + 100)>>
      reduce_turn(seg, iter) ==
        internal_putmem_wg(send_pe, "pWrk", "dst",
          Span(off_send(iter), o + seg * seg_size + off_send(iter), chunk))
        \o turn(seg, iter)
        \o <<Now(<<Accumulate(me, "dst", "pWrk",
               Span(o + seg * seg_size + off_recv(iter), off_recv(iter), chunk))>>)>>
      gather_turn(seg, iter) ==
        LET at == o + seg * seg_size + off_send(iter)
        IN  putmem_wg(send_pe, "dst", "dst", Span(at, at, chunk)) \o turn(seg, iter)
  IN  <<Now(<<Put(me, "dst", "src", Span(o, o, n))>>)>>
      \o Loop(0, n_seg - 1, LAMBDA seg :
           Loop(0, t.size - 2, LAMBDA iter : reduce_turn(seg, iter))
           \o Loop(t.size - 1, 2 * t.size - 3, LAMBDA iter : gather_turn(seg, iter)))
      \o <<Now(<<Store(me, "barrier_pSync", [i \in 0 .. 2 * num_pes - 3 |-> 0])>>)>>

reduce(me, t, n) ==
  LET provided == IF n \div 2 + 1 > MIN_WRKDATA_SIZE THEN n \div 2 + 1 ELSE MIN_WRKDATA_SIZE
      chunk == MIN_WRKDATA_SIZE \div t.size
      seg_size == chunk * t.size
      full == n \div seg_size
      n_seg == IF full = 0 THEN 1 ELSE full
      n_seg_up == (n - 1) \div seg_size + 1
      done == n_seg * seg_size
      p_chunk == (n - done) \div t.size
      p_done == done + p_chunk * t.size
  IN  IF provided >= t.size * n /\ REDUCE_SYNC_SIZE >= t.size
      THEN internal_direct_allreduce(me, t, 0, n)
      ELSE IF 2 * t.size > REDUCE_SYNC_SIZE THEN <<>>
      ELSE internal_ring_allreduce(me, t, 0, n, n_seg, seg_size, chunk)
           \o IF n_seg_up = n_seg THEN <<>>
              ELSE internal_ring_allreduce(me, t, done, n - done, 1, p_chunk * t.size, p_chunk)
                   \o IF p_done = n THEN <<>>
                      ELSE internal_direct_allreduce(me, t, p_done, n - p_done)

-----------------------------------------------------------------------------
(***************************************************************************)
(* Collectives that move data.  root is relative to the team.              *)
(***************************************************************************)
internal_put_broadcast(me, t, n, root) ==
  IF me # root THEN <<>>
  ELSE Others(t, me, LAMBDA i : putmem_wg(i, "dst", "src", Span(0, 0, n)))

internal_get_broadcast(me, n, root) ==
  IF me = root THEN <<>> ELSE getmem_wg(root, "dst", "src", Span(0, 0, n))

internal_broadcast(me, t, n, root) ==
  (IF num_pes < 4 THEN internal_put_broadcast(me, t, n, root)
                  ELSE internal_get_broadcast(me, n, root))
  \o internal_sync(me, t, "bcast_pSync")

broadcast(me, t, n, root) == internal_broadcast(me, t, n, InWorld(t, root))

alltoall_linear(me, t, n) ==
  Loop(0, t.size - 1, LAMBDA j :
    putmem_wg(InWorld(t, j), "dst", "src", Span(InTeam(t, me) * n, j * n, n)))
  \o quiet \o internal_sync(me, t, "alltoall_pSync")

fcollect_linear(me, t, n) ==
  Loop(0, t.size - 1, LAMBDA j :
    putmem_wg(InWorld(t, j), "dst", "src", Span(InTeam(t, me) * n, 0, n)))
  \o quiet \o internal_sync(me, t, "alltoall_pSync")
=============================================================================
