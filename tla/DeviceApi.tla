----------------------------- MODULE DeviceApi -----------------------------
(***************************************************************************)
(* The functions a kernel calls (rocshmem_gpu.cpp) and the class Context   *)
(* they delegate to, on each of the three backends a build may select.  A  *)
(* call names its function by a string, without the prefix rocshmem_ (and  *)
(* ctx_); nelems is the number of entries the map of a copy has.  A        *)
(* context is known by the team it was created for; the one of the default *)
(* context is the world.                                                   *)
(***************************************************************************)
EXTENDS World

CONSTANTS
  backend,        \* "RO", "GPU_IB" or "IPC"
  INT_WIDTH,      \* number of bits of an int
  SIZE_MAX,
  MIN_WRKDATA_SIZE, REDUCE_SYNC_SIZE, BARRIER_SYNC_SIZE, ATA_MAX_WRKDATA_SIZE,
  MAX_CHUNK, ATOMIC_FROM, MAX_ATA_BUFF_SIZE,
  A2A_HEURISTICS, A2A_GCEN_PES, A2A_GCEN_SIZE, MPI_MAX

Ro == INSTANCE RoPrograms
Ib == INSTANCE IbPrograms
Ipc == INSTANCE IpcPrograms

-----------------------------------------------------------------------------
(***************************************************************************)
(* Context.  The function of the backend's class is called; a function it  *)
(* does not have is the one of Context again, without end.                 *)
(***************************************************************************)
DISPATCH(ro, ib, ipc) ==
  CASE backend = "RO"     -> ro
    [] backend = "GPU_IB" -> ib
    [] backend = "IPC"    -> ipc

\* The variable that holds the result of an IPCContext is an int.
DISPATCH_RET(ro, ib, ipc) == DISPATCH(ro, ib, ipc \o <<Narrowed(INT_WIDTH)>>)

Unimplemented == <<Abort>>

Mem(fn, pe, to, from, map) ==
  IF map = <<>> THEN <<>>
  ELSE CASE fn = "putmem" -> DISPATCH(Ro!putmem(pe, to, from, map),
                               Ib!putmem(pe, to, from, map), Ipc!putmem(pe, to, from, map))
         [] fn = "getmem" -> DISPATCH(Ro!getmem(pe, to, from, map),
                               Ib!getmem(pe, to, from, map), Ipc!getmem(pe, to, from, map))
         [] fn = "putmem_nbi" -> DISPATCH(Ro!putmem_nbi(pe, to, from, map),
                               Ib!putmem_nbi(pe, to, from, map), Ipc!putmem_nbi(pe, to, from, map))
         [] fn = "getmem_nbi" -> DISPATCH(Ro!getmem_nbi(pe, to, from, map),
                               Ib!getmem_nbi(pe, to, from, map), Ipc!getmem_nbi(pe, to, from, map))

Typed(fn, pe, to, from, map) ==
  IF map = <<>> THEN <<>>
  ELSE CASE fn = "put" -> DISPATCH(Ro!put(pe, to, from, map),
                            Ib!put(pe, to, from, map), Ipc!put(pe, to, from, map))
         [] fn = "get" -> DISPATCH(Ro!get(pe, to, from, map),
                            Ib!get(pe, to, from, map), Ipc!get(pe, to, from, map))
         [] fn = "put_nbi" -> DISPATCH(Ro!put_nbi(pe, to, from, map),
                            Ib!put_nbi(pe, to, from, map), Ipc!put_nbi(pe, to, from, map))
         [] fn = "get_nbi" -> DISPATCH(Ro!get_nbi(pe, to, from, map),
                            Ib!get_nbi(pe, to, from, map), Ipc!get_nbi(pe, to, from, map))

TypedWide(fn, pe, to, from, map) ==
  IF map = <<>> THEN <<>>
  ELSE DISPATCH(Ro!typed_wide(fn, pe, to, from, map), Ib!typed_wide(fn, pe, to, from, map),
                Ipc!typed_wide(fn, pe, to, from, map))

\* putmem_wg and the like: the function of the elements is the same copy.
MemWide(fn, pe, to, from, map) ==
  TypedWide([putmem_wg |-> "put_wg", getmem_wg |-> "get_wg",
             putmem_nbi_wg |-> "put_nbi_wg", getmem_nbi_wg |-> "get_nbi_wg",
             putmem_wave |-> "put_wave", getmem_wave |-> "get_wave",
             putmem_nbi_wave |-> "put_nbi_wave", getmem_nbi_wave |-> "get_nbi_wave"][fn],
            pe, to, from, map)

p(pe, to, i, v) == DISPATCH(Ro!p(pe, to, i, v), Ib!p(pe, to, i, v), Ipc!p(pe, to, i, v))
g(pe, from, i) == DISPATCH_RET(Ro!g(pe, from, i), Ib!g(pe, from, i), Ipc!g(pe, from, i))

\* On every backend the fence of one PE is as strong as the fence of all.
Order(fn) ==
  CASE fn \in {"fence", "fence_pe"} -> DISPATCH(Ro!fence, Ib!fence, Ipc!fence)
    [] fn = "quiet" -> DISPATCH(Ro!quiet, Ib!quiet, Ipc!quiet)

Sync(fn, me, t) ==
  CASE fn = "barrier_all" -> DISPATCH(Ro!barrier_all, Ib!barrier_all(me), Ipc!barrier_all(me))
    [] fn = "sync_all"    -> DISPATCH(Ro!sync_all, Ib!sync_all(me), Ipc!sync_all(me))
    [] fn = "sync"        -> DISPATCH(Ro!sync(t), Ib!sync(me, t), Ipc!sync(me, t))

Amo(fn, pe, at, i, v, cond) ==
  CASE fn = "fetch_add" -> DISPATCH_RET(Ro!amo_fetch_add(pe, at, i, v),
                             Ib!amo_fetch_add(pe, at, i, v), Ipc!amo_fetch_add(pe, at, i, v))
    [] fn = "add" -> DISPATCH(Ro!amo_add(pe, at, i, v),
                              Ib!amo_add(pe, at, i, v), Ipc!amo_add(pe, at, i, v))
    [] fn = "set" -> DISPATCH(Ro!amo_set(pe, at, i, v),
                              Ib!amo_set(pe, at, i, v), Ipc!amo_set(pe, at, i, v))
    [] fn = "fetch_cas" -> DISPATCH_RET(Ro!amo_fetch_cas(pe, at, i, v, cond),
                             Ib!amo_fetch_cas(pe, at, i, v, cond),
                             Ipc!amo_fetch_cas(pe, at, i, v, cond))
    [] fn = "cas" -> DISPATCH(Ro!amo_cas(pe, at, i, v, cond),
                              Ib!amo_cas(pe, at, i, v, cond), Ipc!amo_cas(pe, at, i, v, cond))
    [] fn = "swap" -> DISPATCH_RET(Ro!amo_swap(pe, at, i, v), Unimplemented, Unimplemented)
    [] fn = "fetch_and" -> DISPATCH_RET(Ro!amo_fetch_and(pe, at, i, v), Unimplemented, Unimplemented)
    [] fn = "and" -> DISPATCH(Ro!amo_and(pe, at, i, v), Unimplemented, Unimplemented)
    [] fn = "fetch_or" -> DISPATCH_RET(Ro!amo_fetch_or(pe, at, i, v), Unimplemented, Unimplemented)
    [] fn = "or" -> DISPATCH(Ro!amo_or(pe, at, i, v), Unimplemented, Unimplemented)
    [] fn = "fetch_xor" -> DISPATCH_RET(Ro!amo_fetch_xor(pe, at, i, v), Unimplemented, Unimplemented)
    [] fn = "xor" -> DISPATCH(Ro!amo_xor(pe, at, i, v), Unimplemented, Unimplemented)

\* The nbi variants are the blocking ones.
putmem_signal(fn, pe, to, from, map, sig, i, v, sig_op) ==
  IF map = <<>> THEN <<>>
  ELSE CASE fn \in {"putmem_signal", "putmem_signal_nbi"} ->
              DISPATCH(Ro!putmem_signal(pe, to, from, map, sig, i, v, sig_op), Unimplemented,
                       Ipc!putmem_signal(pe, to, from, map, sig, i, v, sig_op))
         [] fn \in {"putmem_signal_wg", "putmem_signal_nbi_wg"} ->
              DISPATCH(Ro!putmem_signal_wg(pe, to, from, map, sig, i, v, sig_op), Unimplemented,
                       Ipc!putmem_signal_wg(pe, to, from, map, sig, i, v, sig_op))
         [] fn \in {"putmem_signal_wave", "putmem_signal_nbi_wave"} ->
              DISPATCH(Ro!putmem_signal_wave(pe, to, from, map, sig, i, v, sig_op), Unimplemented,
                       Ipc!putmem_signal_wave(pe, to, from, map, sig, i, v, sig_op))
put_signal(fn, pe, to, from, map, sig, i, v, sig_op) ==
  IF map = <<>> THEN <<>>
  ELSE DISPATCH(Ro!put_signal(fn, pe, to, from, map, sig, i, v, sig_op), Unimplemented,
                Ipc!put_signal(fn, pe, to, from, map, sig, i, v, sig_op))
signal_fetch(me, sig, i) ==
  DISPATCH_RET(Ro!signal_fetch(me, sig, i), Unimplemented, Ipc!signal_fetch(me, sig, i))

reduce(me, t, n) ==
  IF n = 0 THEN <<>> ELSE DISPATCH(Ro!reduce(me, t, n), Unimplemented, Ipc!reduce(me, t, n))
to_all(me, t, n) ==
  IF n = 0 THEN <<>> ELSE DISPATCH(Ro!to_all(me, t, n), Ib!to_all_active_set(me, t, n), Unimplemented)
alltoall(me, t, n) ==
  IF n = 0 THEN <<>>
  ELSE DISPATCH(Ro!alltoall(me, t, n), Ib!alltoall(me, t, n), Ipc!alltoall_linear(me, t, n))
fcollect(me, t, n) ==
  IF n = 0 THEN <<>>
  ELSE DISPATCH(Ro!fcollect(me, t, n), Ib!fcollect(me, t, n), Ipc!fcollect_linear(me, t, n))
broadcast(me, t, n, root) ==
  IF n = 0 THEN <<>>
  ELSE DISPATCH(Ro!broadcast(me, t, n, root), Ib!broadcast(me, t, n, root),
                Ipc!broadcast(me, t, n, root))
broadcast_active_set(me, t, n, root) ==
  IF n = 0 THEN <<>>
  ELSE DISPATCH(Ro!broadcast_active_set(me, t, n, root), Ib!broadcast_active_set(me, t, n, root),
                Unimplemented)

test(at, i, cmp, v) == <<Test(at, i, cmp, v)>>
wait_until(at, i, cmp, v) == <<Await(at, i, cmp, v)>>

\* The first entry to wait for; n when there is none.
status_entry(n, status) ==
  IF \A i \in 0 .. n - 1 : status[i] # 0 THEN n
  ELSE CHOOSE i \in 0 .. n - 1 : status[i] = 0 /\ \A j \in 0 .. i - 1 : status[j] # 0
Skipped(n, status) == {i \in 0 .. n - 1 : status[i] # 0}

\* Mutant: the status array is ignored.
wait_until_allEvery(at, n, status, cmp, v) == Loop(0, n - 1, LAMBDA i : <<Await(at, i, cmp, v)>>)
wait_until_all(at, n, status, cmp, v) ==
  Loop(status_entry(n, status), n - 1, LAMBDA i :
    IF i \in Skipped(n, status) THEN <<>> ELSE <<Await(at, i, cmp, v)>>)
wait_until_any(me, at, n, status, cmp, v) ==
  LET pos == status_entry(n, status)
  IN  IF pos = n THEN <<Returned(SIZE_MAX)>>
      ELSE <<Now(<<Flag(me, "ret", 1, pos)>>), Scan(at, pos, n, Skipped(n, status), cmp, v, FALSE)>>
wait_until_some(me, at, n, status, cmp, v) ==
  LET pos == status_entry(n, status)
  IN  IF pos = n THEN <<Returned(0)>>
      ELSE <<Returned(0), Now(<<Flag(me, "ret", 1, pos)>>),
             Scan(at, pos, n, Skipped(n, status), cmp, v, TRUE)>>
\* These do not wait.
wait_until_all_vector == <<>>
wait_until_any_vector == <<Returned(0)>>
wait_until_some_vector == <<Returned(0)>>

-----------------------------------------------------------------------------
(***************************************************************************)
(* The functions with a context, and those of the default context.         *)
(***************************************************************************)
ROCSHMEM_CTX_DEFAULT == AllPEs

translate_pe(ctx, pe) == InWorld(ctx, pe)

rocshmem_ctx_rma(ctx, fn, pe, to, from, map) ==
  LET pe_in_world == translate_pe(ctx, pe)
  IN  IF fn \in {"put", "get", "put_nbi", "get_nbi"}
      THEN Typed(fn, pe_in_world, to, from, map)
      ELSE Mem(fn, pe_in_world, to, from, map)
rocshmem_ctx_p(ctx, pe, to, i, v) == p(translate_pe(ctx, pe), to, i, v)
rocshmem_ctx_g(ctx, pe, from, i) == g(translate_pe(ctx, pe), from, i)

rocshmem_rma(fn, pe, to, from, map) == rocshmem_ctx_rma(ROCSHMEM_CTX_DEFAULT, fn, pe, to, from, map)
rocshmem_p(pe, to, i, v) == rocshmem_ctx_p(ROCSHMEM_CTX_DEFAULT, pe, to, i, v)
rocshmem_g(pe, from, i) == rocshmem_ctx_g(ROCSHMEM_CTX_DEFAULT, pe, from, i)

rocshmem_fence == Order("fence")
rocshmem_fence_pe == Order("fence_pe")
rocshmem_quiet == Order("quiet")

\* The copies of a work-group or of a wave: pe is a PE of the world.
rocshmem_ctx_rma_wide(fn, pe, to, from, map) ==
  IF fn \in {"put_wave", "put_wg", "put_nbi_wave", "put_nbi_wg",
             "get_wg", "get_wave", "get_nbi_wg", "get_nbi_wave"}
  THEN TypedWide(fn, pe, to, from, map)
  ELSE MemWide(fn, pe, to, from, map)

\* And so it is for the atomics.
rocshmem_ctx_atomic(fn, pe, at, i, v, cond) ==
  LET amo == CASE fn = "compare_swap" -> "fetch_cas"
               [] fn \in {"fetch_inc", "fetch"} -> "fetch_add"
               [] fn = "inc" -> "add"
               [] OTHER -> fn
      operand == CASE fn \in {"fetch_inc", "inc"} -> 1 [] fn = "fetch" -> 0 [] OTHER -> v
  IN  Amo(amo, pe, at, i, operand, cond)
rocshmem_atomic(fn, pe, at, i, v, cond) == rocshmem_ctx_atomic(fn, pe, at, i, v, cond)

rocshmem_ctx_putmem_signal(fn, pe, to, from, map, sig, i, v, sig_op) ==
  putmem_signal(fn, pe, to, from, map, sig, i, v, sig_op)
rocshmem_putmem_signal(fn, pe, to, from, map, sig, i, v, sig_op) ==
  rocshmem_ctx_putmem_signal(fn, pe, to, from, map, sig, i, v, sig_op)
rocshmem_ctx_put_signal(fn, pe, to, from, map, sig, i, v, sig_op) ==
  put_signal(fn, pe, to, from, map, sig, i, v, sig_op)
rocshmem_put_signal(fn, pe, to, from, map, sig, i, v, sig_op) ==
  rocshmem_ctx_put_signal(fn, pe, to, from, map, sig, i, v, sig_op)
rocshmem_signal_fetch(me, sig, i) == signal_fetch(me, sig, i)

rocshmem_wg_sync(fn, me, t) == Sync(fn, me, t)

rocshmem_wg_collective(fn, me, t, n, root) ==
  CASE fn = "reduce"    -> reduce(me, t, n)
    [] fn = "broadcast" -> broadcast(me, t, n, root)
    [] fn = "alltoall"  -> alltoall(me, t, n)
    [] fn = "fcollect"  -> fcollect(me, t, n)

rocshmem_wait_until(fn, me, at, n, status, cmp, v) ==
  CASE fn = "wait_until"      -> wait_until(at, n, cmp, v)
    [] fn = "wait_until_all"  -> wait_until_all(at, n, status, cmp, v)
    [] fn = "wait_until_any"  -> wait_until_any(me, at, n, status, cmp, v)
    [] fn = "wait_until_some" -> wait_until_some(me, at, n, status, cmp, v)
    [] fn = "wait_until_all_vector"  -> wait_until_all_vector
    [] fn = "wait_until_any_vector"  -> wait_until_any_vector
    [] fn = "wait_until_some_vector" -> wait_until_some_vector
    [] fn = "test"            -> test(at, n, cmp, v)

rocshmem_ctx_n_pes(ctx) == ctx.size
rocshmem_ctx_my_pe(ctx, me) ==
  IF me < ctx.start \/ (me - ctx.start) % ctx.stride # 0 \/ InTeam(ctx, me) >= ctx.size
  THEN -1 ELSE InTeam(ctx, me)

-----------------------------------------------------------------------------
(***************************************************************************)
(* The functions with the name of a type, which is the one thing an        *)
(* application links against; the macros give them their bodies.           *)
(***************************************************************************)
RMA_DEF_GEN(fn, pe, to, from, map) ==
  IF fn \in {"put", "get", "put_nbi", "get_nbi"} THEN rocshmem_rma(fn, pe, to, from, map)
  ELSE rocshmem_ctx_rma_wide(fn, pe, to, from, map)
TNAME_p(pe, to, i, v) == rocshmem_p(pe, to, i, v)
TNAME_g(pe, from, i) == rocshmem_g(pe, from, i)
TNAME_wg_collective(fn, me, t, n, root) == rocshmem_wg_collective(fn, me, t, n, root)
REDUCTION_DEF_GEN(me, t, n) == rocshmem_wg_collective("reduce", me, t, n, 0)

AMO_STANDARD_DEF_GEN(fn, pe, at, i, v, cond) == rocshmem_atomic(fn, pe, at, i, v, cond)
AMO_EXTENDED_DEF_GEN(fn, pe, at, i, v) == rocshmem_atomic(fn, pe, at, i, v, 0)
AMO_BITWISE_DEF_GEN(fn, pe, at, i, v) == rocshmem_atomic(fn, pe, at, i, v, 0)
WAIT_DEF_GEN(fn, me, at, n, status, cmp, v) == rocshmem_wait_until(fn, me, at, n, status, cmp, v)
RMA_SIGNAL_SUFFIX_DEF(fn, pe, to, from, map, sig, i, v, sig_op) ==
  rocshmem_put_signal(fn, pe, to, from, map, sig, i, v, sig_op)
=============================================================================
