------------------------------ MODULE RoQueue ------------------------------
(***************************************************************************)
(* The command queue of the reverse offload backend.  GPU wavefronts       *)
(* enqueue commands into a circular queue through a block handle           *)
(* (context_ro_device.cpp); one CPU thread polls every queue, copies the   *)
(* element at the read index, hands it to the transport and frees the slot *)
(* (backend_ro.cpp, queue.cpp).                                            *)
(*                                                                         *)
(* A wave is one actor: its lanes run in lock step, reserve consecutive    *)
(* slots together and differ only in when their stores become visible.     *)
(* The indices are the code's uint64_t counters, never reduced modulo the  *)
(* queue size; the code reduces them when it addresses a slot, and so does *)
(* SlotOf.  A command is identified by the handle and the index under      *)
(* which it was reserved.                                                  *)
(***************************************************************************)
EXTENDS Integers, Sequences

CONSTANTS
  NumQueues,              \* circular queues (one descriptor each) the CPU polls
  QUEUE_SIZE,             \* slots of one queue
  Handle,                 \* block handles: the GPU side view of a queue
  QueueOf,                \* QueueOf[h]: the queue that handle h writes to
  NumWaves,               \* wavefronts of the grid
  WaveSize,               \* most lanes that are active in one call
  HandleOf,               \* HandleOf[w]: the handle of the context wave w uses
  MAX_THREADS_PER_BLOCK,  \* status bytes set aside for each queue
  Cmd,                    \* commands the waves may issue
  MaxOps,                 \* bound: calls of build_queue_element per wave
  MaxCount,               \* requests the poll thread takes from one queue in a row
  Null                    \* contents of a slot that was never written

Queue == 0 .. NumQueues - 1
Slot  == 0 .. QUEUE_SIZE - 1
Wave  == 0 .. NumWaves - 1
Lane  == 0 .. WaveSize - 1

ASSUME ConstantsAssumption ==
  /\ NumQueues \in Nat \ {0}
  /\ NumWaves \in Nat \ {0}
  /\ WaveSize \in Nat \ {0}
  /\ QUEUE_SIZE \in Nat \ {0}
  /\ WaveSize <= QUEUE_SIZE
  /\ QueueOf \in [Handle -> Queue]
  /\ HandleOf \in [Wave -> Handle]
  /\ MAX_THREADS_PER_BLOCK \in Nat \ {0}
  /\ Cmd # {}
  /\ MaxOps \in Nat
  /\ MaxCount \in Nat \ {0}

VARIABLES
  lock, write_index, read_index,     \* BlockHandle, per handle
  host_read_index,                   \* queue_desc_t::read_index, per queue
  valid, element,                    \* queue_element_t: the flag and the rest
  status,                            \* the status bytes of all descriptors
  call, ops,                         \* the waves: locals of their calls
  pollQueue, pollCount, pollAt, cache,  \* the poll thread
  q                                  \* MPITransport::q and q_wgid

handleVars == <<lock, write_index, read_index>>
queueVars  == <<host_read_index, valid, element>>
pollVars   == <<pollQueue, pollCount, pollAt, cache>>
vars == <<handleVars, queueVars, status, call, ops, pollVars, q>>

SlotOf(i) == i % QUEUE_SIZE

Element == [hnd : Handle, idx : Nat, tid : Nat, cmd : Cmd]
ASSUME NullAssumption == Null \notin Element

Request == [elem : Element, queue : Queue]

\* get_flat_id: the index of a work-item in the whole grid.
FlatId(w, l) == w * WaveSize + l

\* &descriptor(k)->status[tid]: the descriptors share one array of bytes.
StatusAddr(k, tid) == k * MAX_THREADS_PER_BLOCK + tid
Addr == 0 .. NumQueues * MAX_THREADS_PER_BLOCK + NumWaves * WaveSize

\* Calls that wait for the CPU to complete the command.
Blocking(c) == c \notin {"PUT_NBI", "GET_NBI"}

\* The locals of build_queue_element in one wave: how far the call is, the
\* command, the number of active lanes, the index of the first reserved slot
\* and the lanes that have not passed the current step.
Call == [at    : {"idle", "space", "unlock", "fill", "publish", "wait"},
         cmd   : Cmd \union {Null},
         lanes : 0 .. WaveSize,
         base  : Nat,
         todo  : SUBSET Lane]

Locals(at, c, n, b, t) == [at |-> at, cmd |-> c, lanes |-> n, base |-> b, todo |-> t]
NoCall == Locals("idle", Null, 0, 0, {})

Active(w)  == 0 .. call[w].lanes - 1
MyQueue(w) == QueueOf[HandleOf[w]]

TypeOK ==
  /\ lock \in [Handle -> {0, 1}]
  /\ write_index \in [Handle -> Nat]
  /\ read_index \in [Handle -> Nat]
  /\ host_read_index \in [Queue -> Nat]
  /\ valid \in [Queue -> [Slot -> {0, 1}]]
  /\ element \in [Queue -> [Slot -> Element \union {Null}]]
  /\ status \in [Addr -> {0, 1}]
  /\ call \in [Wave -> Call]
  /\ ops \in [Wave -> 0 .. MaxOps]
  /\ pollQueue \in Queue
  /\ pollCount \in 0 .. MaxCount
  /\ pollAt \in {"flag", "payload", "insert", "clear", "advance"}
  /\ cache \in Element \union {Null}
  /\ q \in Seq(Request)

Init ==
  /\ lock = [h \in Handle |-> 0]
  /\ write_index = [h \in Handle |-> 0]
  /\ read_index = [h \in Handle |-> 0]
  /\ host_read_index = [k \in Queue |-> 0]
  /\ valid = [k \in Queue |-> [s \in Slot |-> 0]]
  /\ element = [k \in Queue |-> [s \in Slot |-> Null]]
  /\ status = [a \in Addr |-> 0]
  /\ call = [w \in Wave |-> NoCall]
  /\ ops = [w \in Wave |-> 0]
  /\ pollQueue = 0
  /\ pollCount = 0
  /\ pollAt = "flag"
  /\ cache = Null
  /\ q = <<>>

-----------------------------------------------------------------------------
(***************************************************************************)
(* GPU: build_queue_element, run by the n active lanes of a wave.          *)
(***************************************************************************)

\* Mutant: the compare-and-swap does not look at the lock.
AcquireLockUnguarded(w) ==
  LET h == HandleOf[w] IN
  /\ call[w].at = "idle"
  /\ ops[w] < MaxOps
  /\ lock' = [lock EXCEPT ![h] = 1]
  /\ \E n \in 1 .. WaveSize, c \in Cmd :
       call' = [call EXCEPT ![w] = Locals("space", c, n, 0, {})]
  /\ ops' = [ops EXCEPT ![w] = @ + 1]
  /\ UNCHANGED <<write_index, read_index, queueVars, status, pollVars, q>>

\* next_write_slot_o_m_m up to acquire_lock: the lowest active lane wins the
\* compare-and-swap; the other lanes wait for its broadcast.
AcquireLock(w) ==
  LET h == HandleOf[w] IN
  /\ call[w].at = "idle"
  /\ ops[w] < MaxOps
  /\ lock[h] = 0
  /\ lock' = [lock EXCEPT ![h] = 1]
  /\ \E n \in 1 .. WaveSize, c \in Cmd :
       call' = [call EXCEPT ![w] = Locals("space", c, n, 0, {})]
  /\ ops' = [ops EXCEPT ![w] = @ + 1]
  /\ UNCHANGED <<write_index, read_index, queueVars, status, pollVars, q>>

\* Mutant: off by one, a full queue seems to have a free slot.
EnoughSpaceOffByOne(h, required) ==
  QUEUE_SIZE - (write_index[h] - read_index[h]) + 1 >= required

EnoughSpace(h, required) ==
  QUEUE_SIZE - (write_index[h] - read_index[h]) >= required

\* Mutant: the loop never reads the true read index.
RefreshReadIndexStale(w) ==
  /\ call[w].at = "space"
  /\ ~ EnoughSpace(HandleOf[w], call[w].lanes)
  /\ UNCHANGED vars

\* One turn of the loop of wait_until_space_available.
RefreshReadIndex(w) ==
  LET h == HandleOf[w] IN
  /\ call[w].at = "space"
  /\ ~ EnoughSpace(h, call[w].lanes)
  /\ read_index' = [read_index EXCEPT ![h] = host_read_index[QueueOf[h]]]
  /\ UNCHANGED <<lock, write_index, queueVars, status, call, ops, pollVars, q>>

\* The loop ends: take one slot per active lane.
ReserveSlots(w) ==
  LET h == HandleOf[w] IN
  /\ call[w].at = "space"
  /\ EnoughSpace(h, call[w].lanes)
  /\ call' = [call EXCEPT ![w] =
                Locals("unlock", @.cmd, @.lanes, write_index[h], {})]
  /\ write_index' = [write_index EXCEPT ![h] = @ + call[w].lanes]
  /\ UNCHANGED <<lock, read_index, queueVars, status, ops, pollVars, q>>

ReleaseLock(w) ==
  /\ call[w].at = "unlock"
  /\ lock' = [lock EXCEPT ![HandleOf[w]] = 0]
  /\ call' = [call EXCEPT ![w].at = "fill"]
  /\ UNCHANGED <<write_index, read_index, queueVars, status, ops, pollVars, q>>

\* The element lane l writes.
ElementOf(w, l) ==
  [hnd |-> HandleOf[w], idx |-> call[w].base + l, tid |-> FlatId(w, l), cmd |-> call[w].cmd]

LaneOfSlot(w, s) == CHOOSE l \in Active(w) : SlotOf(call[w].base + l) = s

\* Every lane fills the fields of its own element, the flag apart.
FillElements(w) ==
  LET k    == MyQueue(w)
      mine == {SlotOf(call[w].base + l) : l \in Active(w)}
  IN
  /\ call[w].at = "fill"
  /\ element' = [element EXCEPT ![k] =
       [s \in Slot |-> IF s \in mine THEN ElementOf(w, LaneOfSlot(w, s)) ELSE @[s]]]
  /\ call' = [call EXCEPT ![w] =
                Locals("publish", @.cmd, @.lanes, @.base, Active(w))]
  /\ UNCHANGED <<handleVars, host_read_index, valid, status, ops, pollVars, q>>

\* What a wave does once the last of its flags is set.
AfterPublish(w) ==
  IF Blocking(call[w].cmd)
    THEN Locals("wait", call[w].cmd, call[w].lanes, call[w].base, Active(w))
    ELSE NoCall

\* Lane l sets the flag; the flags of the lanes become visible in any order.
Publish(w, l) ==
  /\ call[w].at = "publish"
  /\ l \in call[w].todo
  /\ valid' = [valid EXCEPT ![MyQueue(w)][SlotOf(call[w].base + l)] = 1]
  /\ \/ /\ call[w].todo # {l}
        /\ call' = [call EXCEPT ![w].todo = @ \ {l}]
     \/ /\ call[w].todo = {l}
        /\ call' = [call EXCEPT ![w] = AfterPublish(w)]
  /\ UNCHANGED <<handleVars, host_read_index, element, status, ops, pollVars, q>>

MyStatus(w, l) == StatusAddr(MyQueue(w), FlatId(w, l))

\* Lane l reads a status of 1 and leaves the polling loop.
ObserveStatus(w, l) ==
  /\ call[w].at = "wait"
  /\ l \in call[w].todo
  /\ status[MyStatus(w, l)] = 1
  /\ call' = [call EXCEPT ![w].todo = @ \ {l}]
  /\ UNCHANGED <<handleVars, queueVars, status, ops, pollVars, q>>

\* Mutant: the status byte is not cleared.
ResetStatusKept(w) ==
  /\ call[w].at = "wait"
  /\ call[w].todo = {}
  /\ call' = [call EXCEPT ![w] = NoCall]
  /\ UNCHANGED <<handleVars, queueVars, status, ops, pollVars, q>>

\* The lanes meet after the loop; each clears its byte and returns.
ResetStatus(w) ==
  /\ call[w].at = "wait"
  /\ call[w].todo = {}
  /\ status' = [a \in Addr |->
       IF \E l \in Active(w) : a = MyStatus(w, l) THEN 0 ELSE status[a]]
  /\ call' = [call EXCEPT ![w] = NoCall]
  /\ UNCHANGED <<handleVars, queueVars, ops, pollVars, q>>

GPU ==
  \E w \in Wave :
    \/ AcquireLock(w)
    \/ RefreshReadIndex(w)
    \/ ReserveSlots(w)
    \/ ReleaseLock(w)
    \/ FillElements(w)
    \/ \E l \in Lane : Publish(w, l)
    \/ \E l \in Lane : ObserveStatus(w, l)
    \/ ResetStatus(w)

-----------------------------------------------------------------------------
(***************************************************************************)
(* CPU: ro_net_poll, which calls Queue::process for every queue in turn.   *)
(* copy_element_to_cache is one memcpy; the flag is the first byte of the  *)
(* element and is taken to be read first.                                  *)
(***************************************************************************)
ReadSlot == SlotOf(host_read_index[pollQueue])

\* The poll loop moves to the next queue.
NextQueue ==
  /\ pollQueue' = (pollQueue + 1) % NumQueues
  /\ pollCount' = 0

\* Mutant: the payload is copied before the flag is known to be set.
CopyFlagUntested ==
  /\ pollAt = "flag"
  /\ pollAt' = "payload"
  /\ UNCHANGED <<handleVars, queueVars, status, call, ops,
                 pollQueue, pollCount, cache, q>>

\* copy_element_to_cache reads the flag, process tests it.
CopyFlag ==
  /\ pollAt = "flag"
  /\ \/ /\ valid[pollQueue][ReadSlot] = 1
        /\ pollAt' = "payload"
        /\ UNCHANGED <<pollQueue, pollCount>>
     \/ /\ valid[pollQueue][ReadSlot] = 0
        /\ NextQueue
        /\ UNCHANGED pollAt
  /\ UNCHANGED <<handleVars, queueVars, status, call, ops,
                 cache, q>>

\* copy_element_to_cache reads the rest of the element.
CopyPayload ==
  /\ pollAt = "payload"
  /\ cache' = element[pollQueue][ReadSlot]
  /\ pollAt' = "insert"
  /\ UNCHANGED <<handleVars, queueVars, status, call, ops,
                 pollQueue, pollCount, q>>

\* MPITransport::insertRequest, under queue_mutex.
InsertRequest ==
  /\ pollAt = "insert"
  /\ q' = Append(q, [elem |-> cache, queue |-> pollQueue])
  /\ cache' = Null
  /\ pollAt' = "clear"
  /\ UNCHANGED <<handleVars, queueVars, status, call, ops,
                 pollQueue, pollCount>>

\* Mutant: the flag stays set.
ClearValidKept ==
  /\ pollAt = "clear"
  /\ pollAt' = "advance"
  /\ UNCHANGED <<handleVars, queueVars, status, call, ops,
                 pollQueue, pollCount, cache, q>>

\* process clears the flag in the slot itself.
ClearValid ==
  /\ pollAt = "clear"
  /\ valid' = [valid EXCEPT ![pollQueue][ReadSlot] = 0]
  /\ pollAt' = "advance"
  /\ UNCHANGED <<handleVars, host_read_index, element, status, call, ops,
                 pollQueue, pollCount, cache, q>>

\* increment_read_index; after max_count requests the next queue has its turn.
IncrementReadIndex ==
  /\ pollAt = "advance"
  /\ host_read_index' = [host_read_index EXCEPT ![pollQueue] = @ + 1]
  /\ \/ /\ pollCount + 1 < MaxCount
        /\ pollCount' = pollCount + 1
        /\ UNCHANGED pollQueue
     \/ /\ pollCount + 1 >= MaxCount
        /\ NextQueue
  /\ pollAt' = "flag"
  /\ UNCHANGED <<handleVars, valid, element, status, call, ops, cache, q>>

Poll == CopyFlag \/ CopyPayload \/ InsertRequest \/ ClearValid \/ IncrementReadIndex

-----------------------------------------------------------------------------
\* Queue::notify
Notify(k, tid) == status' = [status EXCEPT ![StatusAddr(k, tid)] = 1]

\* The transport seen from the queue: it takes requests and completes them in
\* any order, and notifies the work-item when the command is a blocking one.
Serve(i) ==
  /\ i \in DOMAIN q
  /\ q' = SubSeq(q, 1, i - 1) \o SubSeq(q, i + 1, Len(q))
  /\ IF Blocking(q[i].elem.cmd)
       THEN Notify(q[i].queue, q[i].elem.tid)
       ELSE UNCHANGED status
  /\ UNCHANGED <<handleVars, queueVars, call, ops, pollVars>>

Next == GPU \/ Poll \/ \E i \in 1 .. Len(q) : Serve(i)

Spec == Init /\ [][Next]_vars

-----------------------------------------------------------------------------
(***************************************************************************)
(* Properties.                                                             *)
(***************************************************************************)

\* The command that the poll thread hands to the transport is the one that
\* reserved the read index of that queue: the CPU sees every command once, in
\* the order of reservation, and never a torn or a stale element, although the
\* waves publish in any order and Queue::process looks only at the flag.
DeliveredInOrder ==
  pollAt = "insert" =>
    /\ cache # Null
    /\ cache.idx = host_read_index[pollQueue]
    /\ QueueOf[cache.hnd] = pollQueue

\* The unread commands of a handle fit in its queue: wait_until_space_available
\* works with a read index that lags behind and that only the lock protects.
CapacityRespected ==
  \A h \in Handle :
    write_index[h] - host_read_index[QueueOf[h]] \in 0 .. QUEUE_SIZE

\* The lanes of wave w that have reserved an index and not published it yet.
Unpublished(w) ==
  CASE call[w].at \in {"unlock", "fill"} -> Active(w)
    [] call[w].at = "publish"            -> call[w].todo
    [] OTHER                             -> {}

Idx(w, l) == call[w].base + l

WithWave(h, i) ==
  \E w \in Wave : HandleOf[w] = h /\ \E l \in Unpublished(w) : Idx(w, l) = i

InSlot(h, i) ==
  LET k == QueueOf[h] IN
  /\ valid[k][SlotOf(i)] = 1
  /\ element[k][SlotOf(i)] # Null
  /\ element[k][SlotOf(i)].hnd = h
  /\ element[k][SlotOf(i)].idx = i

\* The poll thread has handed over the command at index i of queue k and has
\* cleared its flag.
HandedOver(k, i) ==
  pollQueue = k /\ pollAt = "advance" /\ i = host_read_index[k]

\* Every command between the read and the write index is either still with
\* the wave that reserved it, or sits complete in the slot of its index, or is
\* the one the poll thread has just handed over: no command is lost to another
\* user of the queue.
EveryCommandPresent ==
  \A h \in Handle : \A i \in host_read_index[QueueOf[h]] .. write_index[h] - 1 :
    WithWave(h, i) \/ InSlot(h, i) \/ HandedOver(QueueOf[h], i)

\* A work-item never writes into an element that the CPU has not consumed yet.
NoOverwrite ==
  [][\A k \in Queue : \A s \in Slot :
       element'[k][s] # element[k][s] => valid[k][s] = 0]_vars

\* Command i of handle h is still on its way to completion.
InFlight(h, i) ==
  LET k == QueueOf[h] IN
  \/ i > host_read_index[k]
  \/ /\ i = host_read_index[k]
     /\ ~ (pollQueue = k /\ pollAt \in {"clear", "advance"})
  \/ \E j \in DOMAIN q : q[j].elem.hnd = h /\ q[j].elem.idx = i

\* A lane of a blocking call leaves its loop only when the transport has
\* completed the command of that very lane: no stale status byte and no byte
\* of somebody else lets build_queue_element return early.
BlockingReturn ==
  \A w \in Wave :
    call[w].at = "wait" =>
      \A l \in Active(w) \ call[w].todo : ~ InFlight(HandleOf[w], call[w].base + l)

-----------------------------------------------------------------------------
(***************************************************************************)
(* What the queue promises, RoFifo, and how its state is read as the state *)
(* of the promise.                                                         *)
(***************************************************************************)

\* The waves that have reserved index i of h and not written the element yet.
Holders(h, i) ==
  {w \in Wave : /\ HandleOf[w] = h
                /\ call[w].at \in {"unlock", "fill"}
                /\ i - call[w].base \in Active(w)}

\* A command that is reserved but not yet written is still with its wave.
CommandAt(h, i) ==
  IF Holders(h, i) # {}
    THEN LET w == CHOOSE w \in Holders(h, i) : TRUE IN ElementOf(w, i - call[w].base)
    ELSE element[QueueOf[h]][SlotOf(i)]

\* The first index of h that insertRequest has not taken yet.
FirstPending(h) ==
  LET k == QueueOf[h] IN
  host_read_index[k] +
    (IF pollQueue = k /\ pollAt \in {"clear", "advance"} THEN 1 ELSE 0)

\* The commands of h on their way to the transport.
PendingOf(h) ==
  [j \in 1 .. write_index[h] - FirstPending(h) |-> CommandAt(h, FirstPending(h) + j - 1)]

Fifo == INSTANCE RoFifo WITH
  MaxBatch  <- WaveSize,
  Capacity  <- QUEUE_SIZE,
  submitted <- write_index,
  pending   <- [h \in Handle |-> PendingOf(h)]

\* The circular queue with its lock, its lagging read index and its flags
\* implements one bounded first-in first-out channel per handle.
ImplementsFifo == Fifo!Spec

-----------------------------------------------------------------------------
(***************************************************************************)
(* The inductive invariant behind DeliveredInOrder, CapacityRespected,     *)
(* EveryCommandPresent and NoOverwrite.  It needs every handle to have a   *)
(* queue of its own.                                                       *)
(***************************************************************************)
PrivateQueues == \A g, h \in Handle : QueueOf[g] = QueueOf[h] => g = h

CallInv ==
  \A w \in Wave :
    /\ call[w].at # "idle" => call[w].cmd \in Cmd /\ call[w].lanes >= 1
    /\ call[w].at = "publish" => call[w].todo \subseteq Active(w)

HoldsLock(w) == call[w].at \in {"space", "unlock"}

LockInv ==
  \A w \in Wave :
    HoldsLock(w) =>
      /\ lock[HandleOf[w]] = 1
      /\ \A v \in Wave : HandleOf[v] = HandleOf[w] /\ HoldsLock(v) => v = w

IndexInv ==
  \A h \in Handle :
    /\ read_index[h] <= host_read_index[QueueOf[h]]
    /\ host_read_index[QueueOf[h]] <= write_index[h]
    /\ write_index[h] - read_index[h] <= QUEUE_SIZE

\* An unpublished index lies between the read and the write index, nobody else
\* has it, and its slot is free for the wave to write.
OwnedSlot(w, l) ==
  LET k == MyQueue(w)
      i == Idx(w, l)
  IN
  /\ host_read_index[k] <= i
  /\ i < write_index[HandleOf[w]]
  /\ valid[k][SlotOf(i)] = 0
  /\ ~ HandedOver(k, i)
  /\ call[w].at = "publish" => element[k][SlotOf(i)] = ElementOf(w, l)

OwnerInv ==
  \A w \in Wave : \A l \in Unpublished(w) :
    /\ OwnedSlot(w, l)
    /\ \A v \in Wave : \A m \in Unpublished(v) :
         HandleOf[v] = HandleOf[w] /\ Idx(v, m) = Idx(w, l) => v = w

\* A published element names the slot it is in and an index not yet read.
PublishedElement(k, s) ==
  LET e == element[k][s] IN
  /\ e \in Element
  /\ QueueOf[e.hnd] = k
  /\ host_read_index[k] <= e.idx
  /\ e.idx < write_index[e.hnd]
  /\ SlotOf(e.idx) = s

ValidInv ==
  \A k \in Queue : \A s \in Slot : valid[k][s] = 1 => PublishedElement(k, s)

PollInv ==
  /\ pollAt \in {"payload", "insert", "clear"} => valid[pollQueue][ReadSlot] = 1
  /\ pollAt = "insert" => cache = element[pollQueue][ReadSlot]
  /\ pollAt = "advance" =>
       /\ valid[pollQueue][ReadSlot] = 0
       /\ \A h \in Handle : QueueOf[h] = pollQueue =>
            host_read_index[pollQueue] < write_index[h]

IInv ==
  /\ TypeOK
  /\ CallInv
  /\ LockInv
  /\ IndexInv
  /\ OwnerInv
  /\ ValidInv
  /\ PollInv
  /\ EveryCommandPresent
=============================================================================
