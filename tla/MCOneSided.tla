----------------------------- MODULE MCOneSided -----------------------------
(***************************************************************************)
(* Kernels of copies, orders, atomics, signals and waits, in families:     *)
(* every function of the API on every backend that has it.  A kernel is a  *)
(* sequence of calls for every PE; Call compiles a call.                   *)
(***************************************************************************)
EXTENDS MCApi

ThreadPuts == {"putmem", "putmem_nbi", "put", "put_nbi"}
WidePuts == {"putmem_wg", "putmem_nbi_wg", "putmem_wave", "putmem_nbi_wave",
             "put_wg", "put_nbi_wg", "put_wave", "put_nbi_wave"}
BlockingPuts == {"putmem", "put", "putmem_wg", "putmem_wave", "put_wg", "put_wave"}
ThreadGets == {"getmem", "getmem_nbi", "get", "get_nbi"}
WideGets == {"getmem_wg", "getmem_nbi_wg", "getmem_wave", "getmem_nbi_wave",
             "get_wg", "get_nbi_wg", "get_wave", "get_nbi_wave"}
Orders == {"fence", "fence_pe", "quiet"}
Flags == {"p", "add", "set"}
Signals == {"putmem_signal", "putmem_signal_wg", "putmem_signal_wave",
            "putmem_signal_nbi", "putmem_signal_nbi_wg", "putmem_signal_nbi_wave"}
TypedSignals == {"put_signal", "put_signal_wg", "put_signal_wave",
                 "put_signal_nbi", "put_signal_nbi_wg", "put_signal_nbi_wave"}
BytePuts == {"putmem", "getmem", "putmem_nbi", "getmem_nbi"}
ByteWide == {"putmem_wg", "putmem_nbi_wg", "putmem_wave", "putmem_nbi_wave",
             "getmem_wg", "getmem_nbi_wg", "getmem_wave", "getmem_nbi_wave"}
Standard == {"compare_swap", "fetch_inc", "inc", "fetch_add", "add"}
Extended == {"fetch", "set", "swap"}

-----------------------------------------------------------------------------
(***************************************************************************)
(* The calls.  Copies go from src to dst unless said otherwise; words that *)
(* flag something are entries of flag, the atomics update ctr of PE 0.     *)
(***************************************************************************)
Fills(c, n) == <<"fill", c, n>>
Copy(fn, pe, to, from, map) == <<"copy", fn, pe, to, from, map>>
CopyIn(ctx, fn, pe, map) == <<"ctx_copy", ctx, fn, pe, map>>
Ordering(fn) == <<"order", fn>>
Raise(flag, pe, i) == <<"raise", flag, pe, i>>
RaiseIn(ctx, pe, i) == <<"ctx_raise", ctx, pe, i>>
See(i) == <<"wait", "wait_until", i, <<>>, "GE", 1>>
WaitFor(fn, n, status, cmp, v) == <<"wait", fn, n, status, cmp, v>>
Atomic(fn, i, v) == <<"atomic", fn, i, v>>
Load(pe, i) == <<"load", pe, i>>
Signalled(fn, sig_op) == <<"signal", fn, sig_op>>
Signal == <<"signal_fetch">>
Meet == <<"barrier">>
Returns(at, allowed) == <<"return", at, allowed>>

HostAtomic(b, n, fn, pe, at, i, v) ==
  CASE fn \in Standard -> Host(b, n)!AMO_STANDARD_DEF_GEN(fn, pe, at, i, v, 0)
    [] fn \in Extended -> Host(b, n)!AMO_EXTENDED_DEF_GEN(fn, pe, at, i, v)
    [] OTHER -> Host(b, n)!AMO_BITWISE_DEF_GEN(fn, pe, at, i, v)

HostCall(b, n, me, c) ==
  LET A(op) == c[1] = op
  IN  CASE A("fill")   -> Fill(me, c[2], c[3])
        [] A("copy")   -> IF c[2] \in BytePuts
                          THEN Host(b, n)!rocshmem_rma(c[2], c[3], c[4], c[5], c[6])
                          ELSE Host(b, n)!RMA_DEF_GEN(c[2], c[3], c[4], c[5], c[6])
        [] A("order")  -> Host(b, n)!rocshmem_order(c[2])
        [] A("raise")  -> IF c[2] = "p" THEN Host(b, n)!TNAME_p(c[3], "flag", c[4], 1)
                          ELSE HostAtomic(b, n, c[2], c[3], "flag", c[4], 1)
        [] A("wait")   -> Host(b, n)!WAIT_DEF_GEN(c[2], me, "flag", c[3], c[4], c[5], c[6])
        [] A("atomic") -> HostAtomic(b, n, c[2], 0, "ctr", c[3], c[4])
        [] A("load")   -> Host(b, n)!TNAME_g(c[2], "src", c[3])
        [] A("barrier") -> Host(b, n)!rocshmem_order("barrier_all")
        [] A("return") -> <<Return(c[2], c[3])>>

KernelAtomic(b, n, fn, pe, at, i, v) ==
  CASE fn \in Standard -> Api(b, n)!AMO_STANDARD_DEF_GEN(fn, pe, at, i, v, 0)
    [] fn \in Extended -> Api(b, n)!AMO_EXTENDED_DEF_GEN(fn, pe, at, i, v)
    [] OTHER -> Api(b, n)!AMO_BITWISE_DEF_GEN(fn, pe, at, i, v)

KernelCall(b, n, me, c) ==
  LET A(op) == c[1] = op
  IN  CASE A("fill")   -> Fill(me, c[2], c[3])
        [] A("copy")   -> CASE c[2] \in BytePuts -> Api(b, n)!rocshmem_rma(c[2], c[3], c[4], c[5], c[6])
                            [] c[2] \in ByteWide ->
                                 Api(b, n)!rocshmem_ctx_rma_wide(c[2], c[3], c[4], c[5], c[6])
                            [] OTHER -> Api(b, n)!RMA_DEF_GEN(c[2], c[3], c[4], c[5], c[6])
        [] A("ctx_copy") -> Api(b, n)!rocshmem_ctx_rma(c[2], c[3], c[4], "dst", "src", c[5])
        [] A("order")  -> Api(b, n)!Order(c[2])
        [] A("raise")  -> IF c[2] = "p" THEN Api(b, n)!TNAME_p(c[3], "flag", c[4], 1)
                          ELSE KernelAtomic(b, n, c[2], c[3], "flag", c[4], 1)
        [] A("ctx_raise") -> Api(b, n)!rocshmem_ctx_p(c[2], c[3], "flag", c[4], 1)
        [] A("wait")   -> Api(b, n)!WAIT_DEF_GEN(c[2], me, "flag", c[3], c[4], c[5], c[6])
        [] A("atomic") -> KernelAtomic(b, n, c[2], 0, "ctr", c[3], c[4])
        [] A("load")   -> Api(b, n)!TNAME_g(c[2], "src", c[3])
        [] A("signal") -> IF c[2] \in TypedSignals
                          THEN Api(b, n)!RMA_SIGNAL_SUFFIX_DEF(c[2], 1, "dst", "src", Span(1, 0, 2),
                                                               "flag", 0, 1, c[3])
                          ELSE Api(b, n)!rocshmem_putmem_signal(c[2], 1, "dst", "src", Span(1, 0, 2),
                                                                "flag", 0, 1, c[3])
        [] A("signal_fetch") -> Api(b, n)!rocshmem_signal_fetch(me, "flag", 0)
        [] A("barrier") -> Barrier(b, n, me)
        [] A("return") -> <<Return(c[2], c[3])>>

Call(b, n, me, c) ==
  IF b \in Hosts THEN HostCall(OfHost[b], n, me, c) ELSE KernelCall(b, n, me, c)

-----------------------------------------------------------------------------
(***************************************************************************)
(* Data, an order, a flag: who sees the flag sees the data.                *)
(***************************************************************************)
Data(c) == <<V(0, c, 0), V(0, c, 1)>> @@ Array(4)
Ret(v) == (0 :> v) @@ (1 :> 0)

HandOver(fn, order, flag, me) ==
  IF me = 0
  THEN <<Fills(1, 2), Copy(fn, 1, "dst", "src", Span(1, 0, 2)), Ordering(order), Raise(flag, 1, 0)>>
       \o IF order = "quiet" THEN <<Fills(2, 2)>> ELSE <<>>
  ELSE <<See(0), Returns("dst", {Data(1)})>>

\* A blocking put has read its source when it returns.
Reuse(fn, me) ==
  IF me = 0
  THEN <<Fills(1, 1), Copy(fn, 1, "dst", "src", 0 :> 0), Fills(2, 1),
         Copy(fn, 1, "dst", "src", 1 :> 0), Ordering("quiet"), Raise("p", 1, 0)>>
  ELSE <<See(0), Returns("dst", {(0 :> V(0, 1, 0)) @@ (1 :> V(0, 2, 0)) @@ Array(4)})>>

\* The other PE fetches the data, and may then let it be overwritten.
FetchBack(fn, me) ==
  IF me = 0
  THEN <<Fills(1, 2), Raise("p", 1, 0), See(1), Fills(2, 2)>>
  ELSE <<See(0), Copy(fn, 0, "dst", "src", Span(1, 0, 2)), Ordering("quiet"), Raise("p", 0, 1),
         Returns("dst", {Data(1)}), Copy(fn, 0, "dst", "src", <<>>)>>

\* The value itself, with g.
ReadBack(me) ==
  IF me = 0 THEN <<Fills(1, 2), Raise("p", 1, 0), See(1), Fills(2, 2)>>
  ELSE <<See(0), Load(0, 0), Returns("ret", {Ret(V(0, 1, 0))}), Ordering("quiet"), Raise("p", 0, 1)>>

\* The copies of a context of a team name the PEs of the team.
Odd == [start |-> 1, stride |-> 2, size |-> 2]
TeamContext(b, fn, me) ==
  LET mine == Api(b, 4)!rocshmem_ctx_my_pe(Odd, me)
  IN  IF mine = -1 THEN <<>>
      ELSE <<Fills(1, 1), CopyIn(Odd, fn, 1 - mine, 0 :> 0), Ordering("fence"),
             RaiseIn(Odd, 1 - mine, 0), See(0),
             Returns("dst", {(0 :> V(4 - me, 1, 0)) @@ Array(4)})>>

\* put with signal: the signal comes after the data.
SignalAfterData(fn, sig_op, me) ==
  IF me = 0 THEN <<Fills(1, 2), Signalled(fn, sig_op)>>
  ELSE <<See(0), Returns("dst", {Data(1)}), Signal, Returns("ret", {Ret(1)})>>

-----------------------------------------------------------------------------
(***************************************************************************)
(* Atomics of three PEs on one word of PE 0.  What they return is put into *)
(* entry me of PE 0.                                                       *)
(***************************************************************************)
Reported(fn, v, allowed, me) ==
  <<Atomic(fn, 0, v), Copy("putmem", 0, "dst", "ret", me :> 0), Meet>>
  \o IF me = 0 THEN <<Returns("dst", {f @@ Array(4) : f \in allowed})>> ELSE <<>>

\* Tickets are handed out once each.
Tickets(fn, me) ==
  Reported(fn, 1, {f \in [0 .. 2 -> 0 .. 2] : \A i, j \in 0 .. 2 : f[i] = f[j] => i = j}, me)

\* One compare and swap of three wins, and the others see who.
Race(fn, me) ==
  Reported(fn, me + 1, {[q \in 0 .. 2 |-> IF q = w THEN 0 ELSE w + 1] : w \in 0 .. 2}, me)

\* Every PE swaps its number in: what they find and what is left is all of it.
Swaps(me) ==
  Reported("swap", me + 1,
           {f \in [0 .. 2 -> 0 .. 3] : /\ \A i \in 0 .. 2 : f[i] # i + 1
                                       /\ \E i \in 0 .. 2 : f[i] = 0
                                       /\ \A i, j \in 0 .. 2 : f[i] = f[j] => i = j}, me)

\* Updates are all counted once the barrier is passed.
Updates(fn, me) ==
  <<Atomic(fn, 0, 2^me), Atomic(fn, 1, 2^me), Meet, Atomic("fetch", me % 2, 0),
    Returns("ret", {Ret(CASE fn \in {"add", "or", "xor", "fetch_or", "fetch_xor"} -> 7
                          [] fn = "inc" -> 3
                          [] fn \in {"and", "fetch_and"} -> 0)})>>

\* The word holds what one of them has set.
Sets(me) ==
  <<Atomic("set", 0, me + 1), Meet>>
  \o IF me = 0 THEN <<Returns("ctr", {(0 :> v) @@ Array(2) : v \in 1 .. 3})>> ELSE <<>>

-----------------------------------------------------------------------------
(***************************************************************************)
(* PE 0 waits for entries 1 and 2, which the other two PEs raise after     *)
(* they have put their data there.                                         *)
(***************************************************************************)
Waits(fn, status, me) ==
  IF me # 0
  THEN <<Fills(1, 1), Copy("put_nbi", 0, "dst", "src", me :> 0), Ordering("fence"), Raise("p", 0, me)>>
  ELSE LET waited == {i \in 1 .. 2 : status[i] = 0}
           seen(i) == {V(i, 1, 0)} \cup IF i \in waited THEN {} ELSE {0}
       IN  CASE fn = "wait_until_all" ->
                  <<WaitFor(fn, 3, status, "EQ", 1),
                    Returns("dst", {(1 :> x) @@ (2 :> y) @@ Array(4) : x \in seen(1), y \in seen(2)})>>
             [] fn = "wait_until_any" ->
                  <<WaitFor(fn, 3, status, "EQ", 1),
                    Returns("ret", IF waited = {} THEN {Ret(SIZE_MAX)}
                                   ELSE {(0 :> i) @@ (1 :> j) : i \in waited, j \in 0 .. 2})>>
             [] fn = "wait_until_some" ->
                  <<WaitFor(fn, 3, status, "EQ", 1),
                    Returns("indices", {Array(3)} \cup {(0 :> i) @@ Array(3) : i \in waited}
                                       \cup {(0 :> 1) @@ (1 :> 2) @@ Array(3)})>>
             [] fn = "zero" ->
                  <<WaitFor("wait_until_any", 0, status, "EQ", 1), Returns("ret", {Ret(SIZE_MAX)})>>

\* Every comparison on a word that goes from 0 to 1.
Compares(cmp, me) ==
  IF me = 0
  THEN <<Fills(1, 1), Copy("put", 1, "dst", "src", 0 :> 0), Ordering("quiet"), Raise("p", 1, 0)>>
  ELSE <<WaitFor("wait_until", 0, <<>>, cmp,
                 CASE cmp \in {"NE", "GT"} -> 0 [] cmp \in {"EQ", "GE", "LE"} -> 1 [] cmp = "LT" -> 2),
         WaitFor("test", 0, <<>>, "EQ", 1)>>
       \o IF cmp \in {"LT", "LE"} THEN <<Returns("ret", {Ret(0), Ret(1)})>>
          ELSE <<Returns("ret", {Ret(1)}), Returns("dst", {(0 :> V(0, 1, 0)) @@ Array(4)})>>

-----------------------------------------------------------------------------
Kernel(s, me) ==
  LET family == s[2]
  IN  CASE family = "hand over"    -> HandOver(s[3], s[4], s[5], me)
        [] family = "reuse"        -> Reuse(s[3], me)
        [] family = "fetch back"   -> FetchBack(s[3], me)
        [] family = "read back"    -> ReadBack(me)
        [] family = "team context" -> TeamContext(s[1], s[3], me)
        [] family = "signal"       -> SignalAfterData(s[3], s[4], me)
        [] family = "tickets"      -> Tickets(s[3], me)
        [] family = "race"         -> Race(s[3], me)
        [] family = "swaps"        -> Swaps(me)
        [] family = "updates"      -> Updates(s[3], me)
        [] family = "sets"         -> Sets(me)
        [] family = "waits"        -> Waits(s[3], s[4], me)
        [] family = "compares"     -> Compares(s[3], me)

KernelSize(s) ==
  CASE s[2] \in {"hand over", "reuse", "fetch back", "read back", "signal", "compares"} -> 2
    [] s[2] \in {"tickets", "race", "swaps", "updates", "sets", "waits"} -> 3
    [] s[2] = "team context" -> 4

Compiled(b, n, me, kernel) == Loop(1, Len(kernel), LAMBDA k : Call(b, n, me, kernel[k]))
KernelProgram(s, me) ==
  CHOOSE code \in {Compiled(s[1], n, me, kernel) : n \in {KernelSize(s)}, kernel \in {Kernel(s, me)}} : TRUE

KernelArrays(s) ==
  [src |-> Array(2), dst |-> Array(4), flag |-> Array(3), ctr |-> Array(2),
   ret |-> Array(2), g_ret |-> Array(1), indices |-> Array(3), barrier_sync |-> Array(4)]

Kernels ==
  {<<b, "hand over", fn, order, flag>> :
     b \in Backends, fn \in ThreadPuts \cup WidePuts, order \in Orders, flag \in Flags}
  \cup {<<b, "hand over", fn, order, flag>> :
           b \in Hosts, fn \in ThreadPuts, order \in {"fence", "quiet"}, flag \in {"p", "add"}}
  \cup {<<b, "reuse", fn>> : b \in Backends, fn \in BlockingPuts}
  \cup {<<b, "reuse", fn>> : b \in Hosts, fn \in {"putmem", "put"}}
  \cup {<<b, "fetch back", fn>> : b \in Hosts, fn \in ThreadGets}
  \cup {<<b, "fetch back", fn>> : b \in Backends, fn \in ThreadGets \cup WideGets}
  \cup {<<b, "read back">> : b \in {"RO", "IPC"} \cup Hosts}
  \cup {<<b, "team context", fn>> : b \in Backends, fn \in ThreadPuts}
  \cup {<<b, "signal", fn, sig_op>> : b \in {"RO", "IPC"}, fn \in Signals \cup TypedSignals, sig_op \in {"SET", "ADD"}}
  \cup {<<b, "tickets", fn>> : b \in Backends \cup Hosts, fn \in {"fetch_add", "fetch_inc"}}
  \cup {<<b, "race", "compare_swap">> : b \in Backends \cup Hosts}
  \cup {<<"RO", "swaps">>}
  \cup {<<b, "updates", fn>> : b \in Backends \cup Hosts, fn \in {"add", "inc"}}
  \cup {<<"RO", "updates", fn>> : fn \in {"and", "or", "xor", "fetch_and", "fetch_or", "fetch_xor"}}
  \cup {<<b, "sets">> : b \in Backends}
  \cup {<<b, "waits", fn, [i \in 0 .. 2 |-> IF i \in skip THEN 1 ELSE 0]>> :
           b \in Backends \cup {"HOST_IPC"}, fn \in {"wait_until_all", "wait_until_any", "wait_until_some", "zero"},
           skip \in {{0}, {0, 1}, {0, 1, 2}}}
  \cup {<<b, "compares", cmp>> : b \in Backends \cup {"HOST_RO"}, cmp \in {"EQ", "NE", "GT", "GE", "LT", "LE"}}

\* The g of the GPU_IB backend.
GpuIbG == {<<"GPU_IB", "read back">>}
=============================================================================
