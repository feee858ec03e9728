------------------------------ MODULE Pow2Bins ------------------------------
(***************************************************************************)
(* The allocator of the symmetric heap: Pow2Bins, its Binner and its       *)
(* AddressRecords, behind SingleHeap.  A heap is [bins, proffered]: per    *)
(* bin size the stack of the addresses of its free records, and the size   *)
(* of every record handed out, by address.  Addresses are natural numbers, *)
(* 0 is the null pointer.                                                  *)
(***************************************************************************)
EXTENDS Integers, Sequences, FiniteSetsExt, TLC

CONSTANTS
  heap_ptr,    \* where HeapMemory starts
  heap_size,   \* its size
  ALIGNMENT    \* the smallest bin and the alignment of every record

ASSUME HeapAssumption ==
  /\ heap_ptr \in Nat \ {0}
  /\ \E k \in 0 .. 31 : ALIGNMENT = 2 ^ k
  /\ heap_size \in Nat /\ heap_size >= 2 * ALIGNMENT

-----------------------------------------------------------------------------
(***************************************************************************)
(* Binner: the bins, and the heap chunked into them, largest bin first.    *)
(***************************************************************************)
find_first_set_one(v) == CHOOSE k \in 0 .. 31 : 2 ^ k <= v /\ v < 2 ^ (k + 1)

Sizes == {2 ^ k : k \in find_first_set_one(ALIGNMENT) .. find_first_set_one(heap_size)}

\* A step per bin, from the largest one down.
LargestFirst(step(_, _), base, sizes) ==
  MapThenFoldSet(LAMBDA s, result : step(result, s), base, LAMBDA s : s, Min, sizes)

\* A bin is a stack.
Top(bin) == bin[Len(bin)]
Pop(bin) == SubSeq(bin, 1, Len(bin) - 1)

ignore_unaligned_heap_memory ==
  LET off == (ALIGNMENT - (heap_ptr % ALIGNMENT)) % ALIGNMENT
  IN  [at |-> heap_ptr + off, left |-> heap_size - off]

assign_heap_chunk(chunk, s) ==
  LET n == chunk.left \div s
  IN  [at |-> chunk.at + n * s, left |-> chunk.left - n * s,
       bins |-> [chunk.bins EXCEPT ![s] = [i \in 1 .. n |-> chunk.at + (i - 1) * s]]]

assign_heap_to_bins ==
  LET heap == ignore_unaligned_heap_memory
      none == [at |-> heap.at, left |-> heap.left, bins |-> [s \in Sizes |-> <<>>]]
  IN  [bins |-> LargestFirst(assign_heap_chunk, none, Sizes).bins,
       proffered |-> <<>>]

-----------------------------------------------------------------------------
\* AddressRecord::split of the top record of the next larger bin.
\* Mutant: the upper half is lost.
splitLosesHalf(bins, s) ==
  [bins EXCEPT ![2 * s] = Pop(@), ![s] = Append(@, Top(bins[2 * s]))]
split(bins, s) ==
  LET address == Top(bins[2 * s])
  IN  [bins EXCEPT ![2 * s] = Pop(@), ![s] = @ \o <<address + s, address>>]

\* The recursion goes up to the nearest bin with a record and splits on its
\* way back.
split_larger_bin(bins, s) ==
  LET larger == {t \in Sizes : t > s /\ bins[t] # <<>>}
  IN  IF larger = {} THEN bins
      ELSE LargestFirst(split, bins, {t \in Sizes : s <= t /\ \A u \in larger : t < u})

try_to_ensure_bin_has_records(bins, s) ==
  IF bins[s] # <<>> THEN bins ELSE split_larger_bin(bins, s)

\* The bin of the size itself, or the next larger one: both are the lower
\* bound, and a second try of the same bin fails like the first.
lower_bound(size) ==
  CHOOSE s \in Sizes : s >= size /\ \A t \in Sizes : t >= size => s <= t

alloc(heap, size) ==
  IF size = 0 \/ \A s \in Sizes : s < size THEN [heap |-> heap, ptr |-> 0]
  ELSE LET s == lower_bound(size)
           bins == try_to_ensure_bin_has_records(heap.bins, s)
       IN  IF bins[s] = <<>> THEN [heap |-> heap, ptr |-> 0]
           ELSE [heap |-> [bins |-> [bins EXCEPT ![s] = Pop(@)],
                           proffered |-> (Top(bins[s]) :> s) @@ heap.proffered],
                 ptr |-> Top(bins[s])]

free(heap, ptr) ==
  IF ptr = 0 THEN heap
  ELSE [bins |-> [heap.bins EXCEPT ![heap.proffered[ptr]] = Append(@, ptr)],
        proffered |-> [a \in DOMAIN heap.proffered \ {ptr} |-> heap.proffered[a]]]
=============================================================================
