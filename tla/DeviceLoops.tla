---------------------------- MODULE DeviceLoops ----------------------------
(***************************************************************************)
(* How the threads of a kernel share out work without talking to each      *)
(* other: the index strategies of the containers, the numbering of active  *)
(* lanes behind fetch_incr, the copies by a thread, a block or a wave, and *)
(* the coalescing of the messages of a wavefront.  A thread is its number  *)
(* in the grid; the lanes of a wave run in lock step, everything else in   *)
(* any order.  loop says which loop the kernel runs.                       *)
(***************************************************************************)
EXTENDS Integers, Sequences, FiniteSets, FiniteSetsExt

CONSTANTS grid_size, block_size, WARP_SIZE, Loops

ASSUME LoopAssumption == {grid_size, block_size, WARP_SIZE} \subseteq Nat \ {0}

VARIABLES
  loop,
  regs,    \* regs[t]: the registers of thread t
  wrote,   \* wrote[x][t]: how often t has accessed index x of the container
  out,     \* out[pe]: the counters of fetch_incr
  dst,     \* dst[k]: the byte of the source in byte k of the destination, or -1
  sent     \* the messages of the wave

loopVars == <<loop, regs, wrote, out, dst, sent>>

-----------------------------------------------------------------------------
(***************************************************************************)
(* Identity, and the lanes of a wave (Block in share_strategy.cpp).        *)
(***************************************************************************)
Thread == 0 .. grid_size * block_size - 1
block_id(t) == t \div block_size
local_thread_id(t) == t % block_size
global_thread_id(t) == local_thread_id(t) + block_id(t) * block_size

lane_id(t) == local_thread_id(t) % WARP_SIZE
WaveOf(t) ==
  {u \in Thread : /\ block_id(u) = block_id(t)
                  /\ local_thread_id(u) \div WARP_SIZE = local_thread_id(t) \div WARP_SIZE}

number_active_lanes(active) == Cardinality(active)
active_logical_lane_id(active, t) == Cardinality({u \in active : lane_id(u) < lane_id(t)})
is_lowest_active_lane(active, t) == active_logical_lane_id(active, t) = 0

\* __shfl_up: a lane without a lower neighbour at distance k reads itself, an inactive
\* one is read as 0.
shfl_up(active, value, t, k) ==
  IF lane_id(t) < k THEN value[t] ELSE IF t - k \in active THEN value[t - k] ELSE 0

broadcast_up(active, fetch_value) ==
  LET after[k \in 0 .. WARP_SIZE] ==
        IF k = 0 THEN fetch_value
        ELSE [t \in active |->
                LET temp == shfl_up(active, after[k - 1], t, k - 1)
                IN  IF temp # 0 THEN temp ELSE after[k - 1][t]]
  IN  after[WARP_SIZE]

-----------------------------------------------------------------------------
(***************************************************************************)
(* The index strategies: where thread t starts in a container of n         *)
(* elements, where it ends and how far apart its indices are.  A matrix    *)
(* only asks for the start.                                                *)
(***************************************************************************)
Thread_Contiguous_Block_Agnostic(n, t) == [start |-> 0, end |-> n, step |-> 1]

Thread_Discontiguous_Block_Discontiguous(n, t) ==
  [start |-> global_thread_id(t), end |-> n, step |-> grid_size * block_size]

\* Mutant: the blocks before this one that took one of the left over elements are
\* forgotten.
Thread_Discontiguous_Block_ContiguousShifted(n, t) ==
  LET tile_offset == block_id(t) * (n \div grid_size)
      tile_num_elems == n \div grid_size + IF block_id(t) < n % grid_size THEN 1 ELSE 0
  IN  [start |-> tile_offset + local_thread_id(t), end |-> tile_offset + tile_num_elems,
       step |-> block_size]
Thread_Discontiguous_Block_Contiguous(n, t) ==
  LET left_over == n % grid_size
      tile_offset == block_id(t) * (n \div grid_size) + Min({block_id(t), left_over})
      tile_num_elems == n \div grid_size + IF block_id(t) < left_over THEN 1 ELSE 0
  IN  [start |-> tile_offset + local_thread_id(t), end |-> tile_offset + tile_num_elems,
       step |-> block_size]

Thread_Discontiguous_Block_Private(n, t) ==
  [start |-> local_thread_id(t), end |-> n, step |-> block_size]

Matrix_Private(t) == [start |-> global_thread_id(t)]
Matrix_Block(t) == [start |-> block_id(t)]
Matrix_Device(t) == [start |-> 0]

IndexStrategy(ise, n, t) ==
  CASE ise = "TCBA" -> Thread_Contiguous_Block_Agnostic(n, t)
    [] ise = "TDBD" -> Thread_Discontiguous_Block_Discontiguous(n, t)
    [] ise = "TDBC" -> Thread_Discontiguous_Block_Contiguous(n, t)
    [] ise = "TDBP" -> Thread_Discontiguous_Block_Private(n, t)
    [] ise = "MP" -> Matrix_Private(t)
    [] ise = "MB" -> Matrix_Block(t)
    [] ise = "MD" -> Matrix_Device(t)

-----------------------------------------------------------------------------
(***************************************************************************)
(* The loops over a container.                                             *)
(***************************************************************************)
idx(t) == IndexStrategy(loop.ise, loop.size, t)
Touch(x, t) == wrote' = [wrote EXCEPT ![x][t] = @ + 1]
LoopKeeps == UNCHANGED <<loop, out, dst, sent>>

At(t) == loop.start_index + idx(t).start + regs[t] * idx(t).step

\* for (i = start(); i < end(); i = next(i)), as the header recommends.
for_each(t) ==
  /\ loop.kind = "for_each" /\ At(t) < idx(t).end
  /\ Touch(At(t), t)
  /\ regs' = [regs EXCEPT ![t] = @ + 1] /\ LoopKeeps

\* Array::fill and Array::copy of length elements from start_index on; copy trusts
\* its caller with the size.
fill(t) ==
  /\ loop.kind = "fill" /\ At(t) < loop.start_index + loop.length /\ At(t) < loop.size
  /\ Touch(At(t), t)
  /\ regs' = [regs EXCEPT ![t] = @ + 1] /\ LoopKeeps

copy(t) ==
  /\ loop.kind = "copy" /\ At(t) < loop.start_index + loop.length
  /\ Touch(At(t), t)
  /\ regs' = [regs EXCEPT ![t] = @ + 1] /\ LoopKeeps

\* Matrix::access of every column of the row of the thread, or of the column of the
\* thread in row 0.
access(t) ==
  /\ loop.kind = "matrix" /\ regs[t] < loop.columns
  /\ Touch(idx(t).start * loop.columns + regs[t], t)
  /\ regs' = [regs EXCEPT ![t] = @ + 1] /\ LoopKeeps

access_column(t) ==
  /\ loop.kind = "columns" /\ regs[t] = 0
  /\ Touch(idx(t).start, t)
  /\ regs' = [regs EXCEPT ![t] = @ + 1] /\ LoopKeeps

\* Block::fetch_incr: the lowest lane adds for all, and hands its value up.
Block_fetch_incr(active, counter) ==
  LET added == [u \in active |-> IF is_lowest_active_lane(active, u) THEN counter ELSE 0]
      value == broadcast_up(active, added)
  IN  [u \in active |-> value[u] + active_logical_lane_id(active, u)]

\* ShareStrategy::fetch_incr of a wave of block 0: PE by PE, the lanes that want that
\* PE's counter together.  Counter pe hands out the indices from pe * loop.size on.
fetch_incr(t) ==
  LET turn == Min({loop.pe[u] : u \in {v \in WaveOf(t) : regs[v] = 0}})
      active == {u \in WaveOf(t) : regs[u] = 0 /\ loop.pe[u] = turn}
      value == Block_fetch_incr(active, out[turn])
  IN  /\ loop.kind = "fetch_incr" /\ block_id(t) = 0 /\ regs[t] = 0 /\ t \in active
      /\ out' = [out EXCEPT ![turn] = @ + number_active_lanes(active)]
      /\ wrote' = [x \in DOMAIN wrote |-> [u \in Thread |->
                     IF u \in active /\ x = turn * loop.size + value[u] THEN wrote[x][u] + 1 ELSE wrote[x][u]]]
      /\ regs' = [u \in Thread |-> IF u \in active THEN 1 ELSE regs[u]]
      /\ UNCHANGED <<loop, dst, sent>>

-----------------------------------------------------------------------------
(***************************************************************************)
(* The copies.  The registers are the width of the stores, the next piece  *)
(* of that width, where the rest begins, its size, and the piece stored    *)
(* last.                                                                   *)
(***************************************************************************)
CopyStart(first) == [width |-> 8, i |-> first, def |-> 0, size |-> loop.size, bytes |-> 0]

store_asm(from, width) ==
  dst' = [k \in DOMAIN dst |-> IF k \in from .. from + width - 1 THEN k ELSE dst[k]]
CopyKeeps == UNCHANGED <<loop, wrote, out, sent>>

\* One thread: the widths 8, 4, 2, then the last byte.
memcpy(t) ==
  LET r == regs[t]
  IN  /\ loop.kind = "memcpy" /\ t = 0
      /\ \/ /\ r.width > 1 /\ r.size >= r.width
            /\ store_asm(r.def, r.width)
            /\ regs' = [regs EXCEPT ![t].def = @ + r.width, ![t].size = @ - r.width]
         \/ /\ r.width > 1 /\ r.size < r.width
            /\ regs' = [regs EXCEPT ![t].width = @ \div 2] /\ UNCHANGED dst
         \/ /\ r.width = 1 /\ r.size = 1
            /\ store_asm(r.def, 1)
            /\ regs' = [regs EXCEPT ![t].size = 0]
      /\ CopyKeeps

\* The threads of block 0, or of its first wave: id is the number of the thread among
\* the many.
StorePiece(t, many) ==
  LET r == regs[t]
  IN  /\ r.width > 1 /\ r.i < r.size \div r.width
      /\ store_asm(r.def + r.i * r.width, r.width)
      /\ regs' = [regs EXCEPT ![t].i = @ + many, ![t].bytes = r.def + r.i * r.width]

\* Mutant: the start of the rest is not moved with its size.
HalveWidthInPlace(t, id) ==
  LET r == regs[t]
      cpy_size == r.size \div r.width
  IN  /\ r.width > 1 /\ r.i >= cpy_size
      /\ regs' = [regs EXCEPT ![t] = [r EXCEPT !.width = @ \div 2, !.i = id,
                                              !.size = @ - cpy_size * r.width]]
      /\ UNCHANGED dst
HalveWidth(t, id) ==
  LET r == regs[t]
      cpy_size == r.size \div r.width
  IN  /\ r.width > 1 /\ r.i >= cpy_size
      /\ regs' = [regs EXCEPT ![t] = [r EXCEPT !.width = @ \div 2, !.i = id,
                                              !.def = @ + cpy_size * r.width,
                                              !.size = @ - cpy_size * r.width]]
      /\ UNCHANGED dst

\* The last byte goes where the thread stored last.
StoreLast(t, id) ==
  /\ regs[t].width = 1 /\ regs[t].size = 1 /\ id = 0
  /\ store_asm(regs[t].bytes, 1)
  /\ regs' = [regs EXCEPT ![t].size = 0]

memcpy_wg(t) ==
  /\ loop.kind = "memcpy_wg" /\ block_id(t) = 0
  /\ \/ StorePiece(t, block_size)
     \/ HalveWidth(t, local_thread_id(t))
     \/ StoreLast(t, local_thread_id(t))
  /\ CopyKeeps

memcpy_wave(t) ==
  /\ loop.kind = "memcpy_wave" /\ t \in WaveOf(0)
  /\ \/ StorePiece(t, number_active_lanes(WaveOf(0)))
     \/ HalveWidth(t, lane_id(t))
     \/ StoreLast(t, lane_id(t))
  /\ CopyKeeps

-----------------------------------------------------------------------------
(***************************************************************************)
(* WfCoalOn::coalesce in the first wave of block 0: loop.request[t] is     *)
(* what is in the registers of lane t, loop.active the lanes that call.    *)
(* The lanes above the last one count as not coalescable, whatever the     *)
(* shift by the whole width of the ballot gives.                           *)
(***************************************************************************)
\* Mutant: the lower lane need not be active.
coalescableBlind(t) ==
  /\ lane_id(t) # 0
  /\ LET mine == loop.request[t]
         lower == loop.request[t - 1]
     IN  /\ lower.size = mine.size /\ lower.pe = mine.pe
         /\ lower.src + mine.size = mine.src /\ lower.dst + mine.size = mine.dst
coalescable(t) ==
  /\ lane_id(t) # 0 /\ t - 1 \in loop.active
  /\ LET mine == loop.request[t]
         lower == loop.request[t - 1]
     IN  /\ lower.size = mine.size /\ lower.pe = mine.pe
         /\ lower.src + mine.size = mine.src /\ lower.dst + mine.size = mine.dst

\* The lanes above t that leave their message to it.
Followers(t) ==
  {u \in loop.active : u > t /\ \A v \in t + 1 .. u : v \in loop.active /\ coalescable(v)}

coalesce ==
  /\ loop.kind = "coalesce" /\ sent = {}
  /\ sent' = {[lane |-> t, pe |-> loop.request[t].pe,
               src |-> loop.request[t].src, dst |-> loop.request[t].dst,
               size |-> loop.request[t].size * (1 + Cardinality(Followers(t)))] :
                t \in {u \in loop.active : ~coalescable(u)}}
  /\ UNCHANGED <<loop, regs, wrote, out, dst>>

-----------------------------------------------------------------------------
Copies == {"memcpy", "memcpy_wg", "memcpy_wave"}

\* The indices a container and the loops around it can reach, one past the end
\* included, and the bytes of a destination with one more.
LoopInit ==
  /\ loop \in Loops
  /\ regs = [t \in Thread |->
              IF loop.kind \notin Copies THEN 0
              ELSE CopyStart(IF loop.kind = "memcpy_wg" THEN local_thread_id(t) ELSE lane_id(t))]
  /\ wrote = [x \in 0 .. loop.size * (IF "columns" \in DOMAIN loop THEN loop.columns ELSE 2) |->
                [t \in Thread |-> 0]]
  /\ out = [pe \in {0, 1} |-> 0]
  /\ dst = [k \in 0 .. loop.size |-> -1]
  /\ sent = {}

LoopNext ==
  \/ \E t \in Thread :
       \/ for_each(t) \/ fill(t) \/ copy(t) \/ access(t) \/ access_column(t) \/ fetch_incr(t)
       \/ memcpy(t) \/ memcpy_wg(t) \/ memcpy_wave(t)
  \/ coalesce

-----------------------------------------------------------------------------
(***************************************************************************)
(* Properties.                                                             *)
(***************************************************************************)
LoopDone == ~ENABLED LoopNext

\* The threads an element is meant to be shared with.
Sharers(t) ==
  CASE loop.ise \in {"TCBA", "MP"} -> {t}
    [] loop.ise \in {"TDBP", "MB"} -> {u \in Thread : block_id(u) = block_id(t)}
    [] OTHER -> Thread

Targets ==
  CASE loop.kind = "for_each" -> 0 .. loop.size - 1
    [] loop.kind = "fill" -> loop.start_index .. Min({loop.start_index + loop.length, loop.size}) - 1
    [] loop.kind = "copy" -> loop.start_index .. loop.start_index + loop.length - 1
    [] loop.kind = "fetch_incr" ->
         UNION {pe * loop.size .. pe * loop.size
                  + Cardinality({t \in Thread : block_id(t) = 0 /\ loop.pe[t] = pe}) - 1 : pe \in {0, 1}}

Accesses(x, group) == {t \in group : wrote[x][t] > 0}
AtMostOnce == \A x \in DOMAIN wrote, t \in Thread : wrote[x][t] <= 1

\* Without talking to each other the threads that share a container access every index
\* of the range exactly once and none outside it; fetch_incr hands out every value of
\* a counter exactly once whatever lanes are active; and two threads meet in a cell of
\* a matrix exactly when the strategy says that they share it.
EachIndexOnce ==
  LET groups == {Sharers(t) : t \in Thread}
      done == LoopDone
  IN  CASE loop.kind \in {"for_each", "fill", "copy", "fetch_incr"} ->
             LET targets == Targets
             IN  AtMostOnce /\ \A x \in DOMAIN wrote, g \in groups :
                   LET accesses == Cardinality(Accesses(x, g))
                   IN  /\ accesses <= IF x \in targets THEN 1 ELSE 0
                       /\ done /\ x \in targets => accesses = 1
        [] loop.kind \in {"matrix", "columns"} ->
             AtMostOnce /\ \A x \in DOMAIN wrote :
               LET accesses == Accesses(x, Thread)
               IN  accesses # {} => \E g \in groups :
                     accesses \subseteq g /\ (done => accesses = g)
        [] OTHER -> TRUE

\* When all threads are through a copy, every byte below the size has been copied from
\* its own place; no byte behind the size is ever written, and none from another place.
CopyExact ==
  loop.kind \in Copies => LET done == LoopDone IN
    \A k \in DOMAIN dst :
      /\ dst[k] \in {-1, k} /\ (k >= loop.size => dst[k] = -1)
      /\ done /\ k < loop.size => dst[k] = k

Bytes(r) == {<<r.pe, r.src + k, r.dst + k>> : k \in 0 .. r.size - 1}

\* The coalesced messages carry the bytes of the requests of the active lanes, each to
\* its PE and place, nothing twice and nothing that only an inactive lane holds.
MessagesExact ==
  sent # {} =>
    /\ UNION {Bytes(r) : r \in sent} = UNION {Bytes(loop.request[t]) : t \in loop.active}
    /\ MapThenSumSet(LAMBDA r : r.size, sent)
         = MapThenSumSet(LAMBDA t : loop.request[t].size, loop.active)
=============================================================================
