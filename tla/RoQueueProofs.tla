--------------------------- MODULE RoQueueProofs ---------------------------
(***************************************************************************)
(* The command queue is correct for every number of queues, slots, waves   *)
(* and lanes, provided that no two block handles share a queue.  IInv is   *)
(* the inductive invariant: one lemma per action, then the safety          *)
(* properties from IInv, then the refinement of RoFifo.  The last part is  *)
(* about the status bytes: who a command belongs to, which commands the    *)
(* transport has not finished, and that a blocking call returns only with  *)
(* its own command done.                                                   *)
(***************************************************************************)
EXTENDS RoQueue, TLAPS

\* Indices less than a queue apart that share a slot are equal (the % of
\* build_queue_element and of Queue::process).
LEMMA SlotInjective ==
  ASSUME NEW a \in Nat, NEW b \in Nat,
         SlotOf(a) = SlotOf(b), a <= b, b < a + QUEUE_SIZE
  PROVE  a = b
<1> DEFINE Q == QUEUE_SIZE
           x == a \div Q
           y == b \div Q
           r == a % Q
<1>0. Q \in Nat \ {0}  BY ConstantsAssumption, Zenon
<1>1. a = Q * x + r /\ b = Q * y + (b % Q)
  BY <1>0, SMT
<1>2. x \in Int /\ y \in Int /\ r \in Int
  BY <1>0, SMT
<1>3. a = Q * x + r /\ b = Q * y + r
  BY <1>1, Zenon DEF SlotOf
<1> HIDE DEF x, y, r, Q
<1>4. b - a = Q * (y - x)
  BY <1>2, <1>3, <1>0, SMT
<1>5. y - x < 1
  <2>1. SUFFICES ASSUME y - x >= 1 PROVE FALSE  BY <1>2, SMT
  <2>2. Q * (y - x) >= Q  BY <2>1, <1>0, <1>2, SMT
  <2> QED BY <2>2, <1>4, <1>0, SMT DEF Q
<1>6. y - x > -1
  <2>1. SUFFICES ASSUME y - x <= -1 PROVE FALSE  BY <1>2, SMT
  <2>2. Q * (y - x) <= -Q  BY <2>1, <1>0, <1>2, SMT
  <2> QED BY <2>2, <1>4, <1>0, SMT DEF Q
<1>7. y = x  BY <1>5, <1>6, <1>2, SMT
<1> QED BY <1>7, <1>3, <1>0, <1>2, SMT

\* An index addresses a slot of the queue.
LEMMA SlotOfType == \A i \in Nat : SlotOf(i) \in Slot
BY ConstantsAssumption, SMT DEF SlotOf, Slot

\* A wave works on a handle, and on the queue of that handle.
LEMMA HandleOfType == \A w \in Wave : HandleOf[w] \in Handle /\ MyQueue(w) \in Queue
BY ConstantsAssumption, Zenon DEF MyQueue

\* get_flat_id is a natural number.
LEMMA FlatIdType == \A w \in Wave, l \in Lane : FlatId(w, l) \in Nat
<1> SUFFICES ASSUME NEW w \in Wave, NEW l \in Lane PROVE FlatId(w, l) \in Nat
  BY Zenon
<1>1. w \in Nat /\ l \in Nat /\ WaveSize \in Nat
  BY ConstantsAssumption DEF Wave, Lane
<1> QED BY <1>1, SMT DEF FlatId

\* The poll loop goes round the queues.
LEMMA NextQueueType == \A k \in Queue : (k + 1) % NumQueues \in Queue
BY ConstantsAssumption, SMT DEF Queue

\* A call is made by lanes of the wave.
LEMMA ActiveLanes ==
  ASSUME NEW w \in Wave, call[w].lanes \in 0 .. WaveSize
  PROVE  Active(w) \in SUBSET Lane
BY ConstantsAssumption, SMT DEF Active, Lane

\* The locals of build_queue_element are what they are set to.
LEMMA LocalsType ==
  ASSUME NEW at \in {"idle", "space", "unlock", "fill", "publish", "wait"},
         NEW c \in Cmd \union {Null}, NEW n \in 0 .. WaveSize, NEW b \in Nat,
         NEW t \in SUBSET Lane
  PROVE  LET r == Locals(at, c, n, b, t) IN
         /\ r \in Call /\ r.at = at /\ r.cmd = c
         /\ r.lanes = n /\ r.base = b /\ r.todo = t
BY SMT DEF Locals, Call

\* A wave outside of build_queue_element.
LEMMA NoCallType == NoCall \in Call /\ NoCall.at = "idle"
BY ConstantsAssumption, SMT DEF NoCall, Locals, Call

\* An unread index other than the read index is past it.
LEMMA PastReadIndex ==
  ASSUME NEW r \in Nat, NEW i \in Nat, r <= i, i # r
  PROVE  r + 1 <= i
BY SMT

\* The lanes that have not published are among the active ones.
LEMMA UnpublishedLanes ==
  ASSUME TypeOK, CallInv, NEW w \in Wave, NEW l \in Unpublished(w)
  PROVE  l \in Active(w) /\ l \in Lane /\ Idx(w, l) \in Nat
<1>1. call[w] \in Call /\ call[w].base \in Nat /\ call[w].lanes \in 0 .. WaveSize
  BY Zenon DEF TypeOK, Call
<1>2. l \in Active(w)
  BY Zenon DEF Unpublished, CallInv
<1> QED BY <1>1, <1>2, ConstantsAssumption, SMT DEF Active, Lane, Idx

\* Two unread indices of one handle are in different slots.
LEMMA WindowInjective ==
  ASSUME TypeOK, IndexInv, NEW h \in Handle,
         NEW i \in Nat, NEW j \in Nat,
         host_read_index[QueueOf[h]] <= i, i < write_index[h],
         host_read_index[QueueOf[h]] <= j, j < write_index[h],
         SlotOf(i) = SlotOf(j)
  PROVE  i = j
<1>1. /\ QueueOf[h] \in Queue /\ QUEUE_SIZE \in Nat
      /\ host_read_index[QueueOf[h]] \in Nat
      /\ write_index[h] \in Nat /\ read_index[h] \in Nat
  BY ConstantsAssumption, Zenon DEF TypeOK
<1>2. write_index[h] - host_read_index[QueueOf[h]] <= QUEUE_SIZE
  BY <1>1, SMT DEF IndexInv
<1>3. CASE i <= j
  BY <1>1, <1>2, <1>3, SlotInjective, SMT
<1>4. CASE j <= i
  BY <1>1, <1>2, <1>4, SlotInjective, SMT
<1> QED BY <1>3, <1>4, SMT

\* Different unpublished lanes of one queue have different slots.
LEMMA OwnersApart ==
  ASSUME IInv, PrivateQueues,
         NEW v \in Wave, NEW m \in Unpublished(v),
         NEW w \in Wave, NEW l \in Unpublished(w),
         MyQueue(v) = MyQueue(w),
         SlotOf(Idx(v, m)) = SlotOf(Idx(w, l))
  PROVE  v = w /\ m = l
<1>0. TypeOK /\ CallInv /\ IndexInv /\ OwnerInv
  BY Zenon DEF IInv
<1>1. HandleOf[v] = HandleOf[w] /\ HandleOf[w] \in Handle
  BY HandleOfType, Zenon DEF PrivateQueues, MyQueue
<1>2. Idx(v, m) \in Nat /\ Idx(w, l) \in Nat /\ m \in Lane /\ l \in Lane
  BY <1>0, UnpublishedLanes, Zenon
<1>3. OwnedSlot(v, m) /\ OwnedSlot(w, l)
  BY <1>0, Zenon DEF OwnerInv
<1>4. Idx(v, m) = Idx(w, l)
  BY <1>0, <1>1, <1>2, <1>3, WindowInjective, Zenon DEF OwnedSlot, MyQueue
<1>5. v = w
  BY <1>0, <1>1, <1>4, Zenon DEF OwnerInv
<1>6. call[w].base \in Nat
  BY <1>0, Zenon DEF TypeOK, Call
<1>7. m \in Int /\ l \in Int
  BY <1>2, ConstantsAssumption DEF Lane
<1> QED BY <1>4, <1>5, <1>6, <1>7, SMT DEF Idx

\* A set flag at the read index stands for the command of that index.
LEMMA ReadElement ==
  ASSUME IInv, PrivateQueues, NEW k \in Queue,
         valid[k][SlotOf(host_read_index[k])] = 1
  PROVE  LET e == element[k][SlotOf(host_read_index[k])] IN
         /\ e \in Element
         /\ QueueOf[e.hnd] = k
         /\ e.idx = host_read_index[k]
         /\ \A h \in Handle : QueueOf[h] = k =>
              h = e.hnd /\ host_read_index[k] < write_index[h]
<1> DEFINE e == element[k][SlotOf(host_read_index[k])]
<1>0. TypeOK /\ IndexInv /\ host_read_index[k] \in Nat
  BY Zenon DEF IInv, TypeOK
<1>1. PublishedElement(k, SlotOf(host_read_index[k]))
  BY <1>0, SlotOfType, Zenon DEF IInv, ValidInv
<1>2. e \in Element /\ e.hnd \in Handle /\ e.idx \in Nat /\ QueueOf[e.hnd] = k
  BY <1>1, Zenon DEF PublishedElement, Element
<1>3. /\ host_read_index[k] <= e.idx /\ e.idx < write_index[e.hnd]
      /\ SlotOf(e.idx) = SlotOf(host_read_index[k])
      /\ write_index[e.hnd] \in Nat
  BY <1>0, <1>1, <1>2, Zenon DEF PublishedElement, TypeOK
<1>4. host_read_index[k] < write_index[e.hnd]
  BY <1>0, <1>2, <1>3, SMT
<1>5. e.idx = host_read_index[k]
  BY <1>0, <1>2, <1>3, <1>4, WindowInjective
<1> QED BY <1>2, <1>4, <1>5, Zenon DEF PrivateQueues

\* The freshly constructed queues satisfy the invariant.
LEMMA InitIInv == Init => IInv
<1> SUFFICES ASSUME Init PROVE IInv
  BY Zenon
<1> USE ConstantsAssumption
<1>1. TypeOK
  BY SMT DEF Init, TypeOK, Call, NoCall, Locals, Queue, Lane
<1>2. CallInv
  BY Zenon DEF Init, CallInv, NoCall, Locals
<1>3. LockInv
  BY Zenon DEF Init, LockInv, HoldsLock, NoCall, Locals
<1>4. IndexInv
  BY DEF Init, IndexInv
<1>5. OwnerInv
  BY Zenon DEF Init, OwnerInv, Unpublished, NoCall, Locals
<1>6. ValidInv
  BY DEF Init, ValidInv
<1>7. PollInv
  BY Zenon DEF Init, PollInv
<1>8. EveryCommandPresent
  BY DEF Init, EveryCommandPresent
<1> QED BY <1>1, <1>2, <1>3, <1>4, <1>5, <1>6, <1>7, <1>8, Zenon DEF IInv

-----------------------------------------------------------------------------
\* Steps that touch neither the queues nor who owns which index.
LEMMA Frame ==
  ASSUME IInv,
         UNCHANGED <<write_index, queueVars, pollVars>>,
         \A v \in Wave :
           /\ Unpublished(v)' = Unpublished(v)
           /\ \A l \in Unpublished(v) :
                /\ Idx(v, l)' = Idx(v, l)
                /\ ElementOf(v, l)' = ElementOf(v, l)
                /\ call'[v].at = "publish" => call[v].at = "publish"
  PROVE  OwnerInv' /\ ValidInv' /\ PollInv' /\ EveryCommandPresent'
<1> USE DEF queueVars, pollVars
<1>1. \A k, i : HandedOver(k, i)' <=> HandedOver(k, i)
  BY Zenon DEF HandedOver
<1>2. OwnerInv'
  <2>1. OwnerInv
    BY Zenon DEF IInv
  <2>2. ASSUME NEW v \in Wave, NEW l \in Unpublished(v) PROVE OwnedSlot(v, l)'
    <3>1. OwnedSlot(v, l) /\ Idx(v, l)' = Idx(v, l) /\ MyQueue(v)' = MyQueue(v)
      BY <2>1, Zenon DEF OwnerInv, MyQueue
    <3> QED BY <1>1, <3>1, Zenon DEF OwnedSlot
  <2>3. ASSUME NEW v \in Wave, NEW m \in Unpublished(v)',
               NEW w \in Wave, NEW l \in Unpublished(w)',
               HandleOf[v] = HandleOf[w], Idx(v, m)' = Idx(w, l)'
        PROVE  v = w
    <3>1. m \in Unpublished(v) /\ l \in Unpublished(w) /\ Idx(v, m) = Idx(w, l)
      BY <2>3, Zenon
    <3> QED BY <2>1, <2>3, <3>1, Zenon DEF OwnerInv
  <2> QED BY <2>2, <2>3, Zenon DEF OwnerInv
<1>3. ValidInv' /\ PollInv'
  BY Zenon DEF IInv, ValidInv, PublishedElement, PollInv, ReadSlot
<1>4. EveryCommandPresent'
  <2>1. \A h, i : WithWave(h, i)' <=> WithWave(h, i)
    BY Zenon DEF WithWave
  <2>2. \A h, i : InSlot(h, i)' <=> InSlot(h, i)
    BY Zenon DEF InSlot
  <2> QED BY <1>1, <2>1, <2>2, Zenon DEF IInv, EveryCommandPresent
<1> QED BY <1>2, <1>3, <1>4, Zenon

\* acquire_lock: only the handle's lock and the locals of the wave change.
LEMMA AcquireLockInv ==
  ASSUME IInv, NEW w \in Wave, AcquireLock(w)
  PROVE  IInv'
<1> USE ConstantsAssumption
<1> DEFINE h == HandleOf[w]
<1>0. h \in Handle /\ TypeOK
  BY HandleOfType, Zenon DEF IInv
<1>1. /\ call[w].at = "idle" /\ lock[h] = 0
      /\ lock' = [lock EXCEPT ![h] = 1]
      /\ UNCHANGED <<write_index, read_index, queueVars, status, pollVars, q>>
  BY Zenon DEF AcquireLock
<1>2. PICK n \in 1 .. WaveSize, c \in Cmd :
        call' = [call EXCEPT ![w] = Locals("space", c, n, 0, {})]
  BY Zenon DEF AcquireLock
<1>3. /\ call'[w].at = "space" /\ call'[w].cmd = c /\ call'[w].lanes = n
      /\ \A v \in Wave : v # w => call'[v] = call[v]
      /\ call' \in [Wave -> Call]
  BY <1>0, <1>2, SMTT(30) DEF TypeOK, Call, Locals
<1>4. TypeOK'
  BY <1>0, <1>1, <1>3, SMT DEF TypeOK, AcquireLock, queueVars, pollVars
<1>5. CallInv'
  BY <1>3, SMT DEF IInv, CallInv, Active
<1>6. LockInv'
  <2>1. \A v \in Wave : HandleOf[v] = h => ~ HoldsLock(v)
    BY <1>1 DEF IInv, LockInv
  <2>2. \A v \in Wave : HoldsLock(v)' => v = w \/ HoldsLock(v)
    BY <1>3, Zenon DEF HoldsLock
  <2>3. \A g \in Handle : lock'[g] = IF g = h THEN 1 ELSE lock[g]
    BY <1>0, <1>1, Zenon DEF TypeOK
  <2> QED BY <2>1, <2>2, <2>3, HandleOfType, Zenon DEF IInv, LockInv
<1>7. IndexInv'
  BY <1>1, Zenon DEF IInv, IndexInv, queueVars
<1>8. \A v \in Wave :
        /\ Unpublished(v)' = Unpublished(v)
        /\ \A l \in Unpublished(v) : v # w
    BY <1>1, <1>3, Zenon DEF Unpublished, Active
<1>9. OwnerInv' /\ ValidInv' /\ PollInv' /\ EveryCommandPresent'
  BY <1>1, <1>3, <1>8, Frame, Zenon DEF Idx, ElementOf
<1> QED BY <1>4, <1>5, <1>6, <1>7, <1>9, Zenon DEF IInv

\* wait_until_space_available: the cached read index catches up with a counter
\* that only grows.
LEMMA RefreshReadIndexInv ==
  ASSUME IInv, NEW w \in Wave, RefreshReadIndex(w)
  PROVE  IInv'
<1> USE ConstantsAssumption
<1> DEFINE h == HandleOf[w]
<1>0. h \in Handle /\ QueueOf[h] \in Queue /\ TypeOK
  BY HandleOfType, Zenon DEF IInv
<1>1. /\ read_index' = [read_index EXCEPT ![h] = host_read_index[QueueOf[h]]]
      /\ UNCHANGED <<lock, write_index, queueVars, status, call, ops, pollVars, q>>
  BY Zenon DEF RefreshReadIndex
<1>2. host_read_index[QueueOf[h]] \in Nat
  BY <1>0, Zenon DEF TypeOK
<1>3. TypeOK'
  BY <1>0, <1>1, <1>2, Zenon DEF TypeOK, queueVars, pollVars
<1>4. CallInv' /\ LockInv'
  BY <1>1, Zenon DEF IInv, CallInv, LockInv, HoldsLock, Active
<1>5. IndexInv'
  <2>1. \A g \in Handle : read_index'[g] = IF g = h THEN host_read_index[QueueOf[h]]
                                                   ELSE read_index[g]
    BY <1>0, <1>1, Zenon DEF TypeOK
  <2>2. \A g \in Handle : /\ write_index[g] \in Nat /\ read_index[g] \in Nat
                          /\ host_read_index[QueueOf[g]] \in Nat
    BY <1>0, Zenon DEF TypeOK
  <2> QED BY <1>1, <2>1, <2>2, SMT DEF IInv, IndexInv, queueVars
<1>6. OwnerInv' /\ ValidInv' /\ PollInv' /\ EveryCommandPresent'
  BY <1>1, Frame, Zenon DEF Unpublished, Active, Idx, ElementOf
<1> QED BY <1>3, <1>4, <1>5, <1>6, Zenon DEF IInv

\* release_lock: the wave keeps the indices it has reserved.
LEMMA ReleaseLockInv ==
  ASSUME IInv, NEW w \in Wave, ReleaseLock(w)
  PROVE  IInv'
<1> USE ConstantsAssumption
<1> DEFINE h == HandleOf[w]
<1>0. h \in Handle /\ TypeOK /\ call[w].at = "unlock" /\ HoldsLock(w)
  BY HandleOfType, Zenon DEF IInv, ReleaseLock, HoldsLock
<1>1. /\ lock' = [lock EXCEPT ![h] = 0]
      /\ UNCHANGED <<write_index, read_index, queueVars, status, ops, pollVars, q>>
  BY Zenon DEF ReleaseLock
<1>2. /\ call' \in [Wave -> Call]
      /\ \A v \in Wave : v # w => call'[v] = call[v]
      /\ call'[w].at = "fill" /\ call'[w].cmd = call[w].cmd
      /\ call'[w].lanes = call[w].lanes /\ call'[w].base = call[w].base
  <2> DEFINE r == [call[w] EXCEPT !.at = "fill"]
  <2>1. call[w] \in Call /\ call' = [call EXCEPT ![w] = r]
    BY <1>0, Zenon DEF ReleaseLock, TypeOK
  <2>2. r \in Call /\ r.at = "fill" /\ r.cmd = call[w].cmd
        /\ r.lanes = call[w].lanes /\ r.base = call[w].base
    BY <2>1, SMT DEF Call
  <2> HIDE DEF r
  <2> QED BY <1>0, <2>1, <2>2, Zenon DEF TypeOK
<1>3. TypeOK'
  BY <1>0, <1>1, <1>2, Zenon DEF TypeOK, queueVars, pollVars
<1>4. CallInv'
  BY <1>0, <1>2, Zenon DEF IInv, CallInv, Active
<1>5. LockInv'
  <2>1. \A v \in Wave : HoldsLock(v)' => HoldsLock(v) /\ v # w /\ HandleOf[v] # h
    BY <1>0, <1>2, Zenon DEF IInv, LockInv, HoldsLock
  <2>2. \A g \in Handle : g # h => lock'[g] = lock[g]
    BY <1>0, <1>1, Zenon DEF TypeOK
  <2> QED BY <2>1, <2>2, HandleOfType, Zenon DEF IInv, LockInv
<1>6. IndexInv'
  BY <1>1, Zenon DEF IInv, IndexInv, queueVars
<1>7. OwnerInv' /\ ValidInv' /\ PollInv' /\ EveryCommandPresent'
  <2>1. \A v \in Wave : Unpublished(v)' = Unpublished(v)
    BY <1>0, <1>2, Zenon DEF Unpublished, Active
  <2> QED BY <1>0, <1>1, <1>2, <2>1, Frame, Zenon DEF Idx, ElementOf
<1> QED BY <1>3, <1>4, <1>5, <1>6, <1>7, Zenon DEF IInv

\* A lane that sees its status byte owns no slot any more.
LEMMA ObserveStatusInv ==
  ASSUME IInv, NEW w \in Wave, NEW l \in Lane, ObserveStatus(w, l)
  PROVE  IInv'
<1>0. TypeOK /\ call[w].at = "wait"
  BY Zenon DEF IInv, ObserveStatus
<1>1. UNCHANGED <<handleVars, queueVars, status, ops, pollVars, q>>
  BY Zenon DEF ObserveStatus
<1>2. /\ call' \in [Wave -> Call]
      /\ \A v \in Wave : v # w => call'[v] = call[v]
      /\ call'[w].at = "wait" /\ call'[w].cmd = call[w].cmd
      /\ call'[w].lanes = call[w].lanes
  <2> DEFINE r == [call[w] EXCEPT !.todo = @ \ {l}]
  <2>1. call[w] \in Call /\ call' = [call EXCEPT ![w] = r]
    BY <1>0, Zenon DEF ObserveStatus, TypeOK
  <2>2. r \in Call /\ r.at = call[w].at /\ r.cmd = call[w].cmd /\ r.lanes = call[w].lanes
    BY <2>1, SMT DEF Call
  <2> HIDE DEF r
  <2> QED BY <1>0, <2>1, <2>2, Zenon DEF TypeOK
<1>3. TypeOK' /\ IndexInv'
  BY <1>0, <1>1, <1>2, Zenon DEF IInv, TypeOK, IndexInv, handleVars, queueVars, pollVars
<1>4. CallInv'
  BY <1>0, <1>2, Zenon DEF IInv, CallInv, Active
<1>5. LockInv'
  BY <1>0, <1>1, <1>2, Zenon DEF IInv, LockInv, HoldsLock, handleVars
<1>6. OwnerInv' /\ ValidInv' /\ PollInv' /\ EveryCommandPresent'
  <2>1. \A v \in Wave : Unpublished(v)' = Unpublished(v) /\ \A m \in Unpublished(v) : v # w
    BY <1>0, <1>2, Zenon DEF Unpublished, Active
  <2> QED BY <1>1, <1>2, <2>1, Frame, Zenon DEF Idx, ElementOf, handleVars
<1> QED BY <1>3, <1>4, <1>5, <1>6, Zenon DEF IInv

\* The end of a blocking call: the status bytes are not part of the argument.
LEMMA ResetStatusInv ==
  ASSUME IInv, NEW w \in Wave, ResetStatus(w)
  PROVE  IInv'
<1> USE ConstantsAssumption
<1>0. TypeOK /\ call[w].at = "wait"
  BY Zenon DEF IInv, ResetStatus
<1>1. UNCHANGED <<handleVars, queueVars, ops, pollVars, q>>
  BY Zenon DEF ResetStatus
<1>2. /\ call' \in [Wave -> Call]
      /\ \A v \in Wave : v # w => call'[v] = call[v]
      /\ call'[w].at = "idle"
  BY <1>0, SMT DEF ResetStatus, TypeOK, Call, NoCall, Locals
<1>3. status' \in [Addr -> {0, 1}]
  BY <1>0, Zenon DEF ResetStatus, TypeOK
<1>4. TypeOK' /\ IndexInv'
  BY <1>0, <1>1, <1>2, <1>3, Zenon DEF IInv, TypeOK, IndexInv, handleVars, queueVars, pollVars
<1>5. CallInv'
  BY <1>0, <1>2, Zenon DEF IInv, CallInv, Active
<1>6. LockInv'
  BY <1>0, <1>1, <1>2, Zenon DEF IInv, LockInv, HoldsLock, handleVars
<1>7. OwnerInv' /\ ValidInv' /\ PollInv' /\ EveryCommandPresent'
  <2>1. \A v \in Wave : Unpublished(v)' = Unpublished(v) /\ \A m \in Unpublished(v) : v # w
    BY <1>0, <1>2, Zenon DEF Unpublished, Active
  <2> QED BY <1>1, <1>2, <2>1, Frame, Zenon DEF Idx, ElementOf, handleVars
<1> QED BY <1>4, <1>5, <1>6, <1>7, Zenon DEF IInv

\* The write index moves on: the new indices are fresh, fit into the queue and
\* their slots have been cleared by the poll thread.
LEMMA ReserveSlotsInv ==
  ASSUME IInv, PrivateQueues, NEW w \in Wave, ReserveSlots(w)
  PROVE  IInv'
<1> USE ConstantsAssumption
<1> DEFINE h == HandleOf[w]
           k == QueueOf[h]
           W == write_index[h]
           n == call[w].lanes
<1>0. h \in Handle /\ k \in Queue /\ TypeOK /\ IndexInv /\ CallInv /\ OwnerInv
  BY HandleOfType, Zenon DEF IInv
<1>1. /\ call[w].at = "space" /\ HoldsLock(w)
      /\ write_index' = [write_index EXCEPT ![h] = @ + n]
      /\ UNCHANGED <<lock, read_index, queueVars, status, ops, pollVars, q>>
      /\ call' = [call EXCEPT ![w] = Locals("unlock", call[w].cmd, n, W, {})]
  BY Zenon DEF ReserveSlots, HoldsLock
<1>2. /\ W \in Nat /\ n \in 1 .. WaveSize /\ call[w].cmd \in Cmd
      /\ read_index[h] \in Nat /\ host_read_index[k] \in Nat
      /\ QUEUE_SIZE - (W - read_index[h]) >= n
  BY <1>0, <1>1, SMT DEF TypeOK, Call, CallInv, ReserveSlots, EnoughSpace
<1>3. /\ call' \in [Wave -> Call]
      /\ \A v \in Wave : v # w => call'[v] = call[v]
      /\ call'[w].at = "unlock" /\ call'[w].cmd = call[w].cmd
      /\ call'[w].lanes = n /\ call'[w].base = W
  BY <1>0, <1>1, <1>2, SMT DEF TypeOK, Call, Locals
<1>4. /\ write_index' \in [Handle -> Nat] /\ write_index'[h] = W + n
      /\ \A g \in Handle : g # h => write_index'[g] = write_index[g]
      /\ \A g \in Handle : write_index[g] <= write_index'[g]
  <2>1. write_index \in [Handle -> Nat]
    BY <1>0, Zenon DEF TypeOK
  <2>2. W + n \in Nat /\ W <= W + n
    BY <1>2, SMT
  <2>3. write_index' = [write_index EXCEPT ![h] = W + n]
    BY <1>1, Zenon
  <2>4. \A g \in Handle : write_index[g] <= write_index[g]
    BY <2>1, SMT
  <2> HIDE DEF W, n, h
  <2>5. /\ write_index' \in [Handle -> Nat] /\ write_index'[h] = W + n
        /\ \A g \in Handle : g # h => write_index'[g] = write_index[g]
    BY <1>0, <2>1, <2>2, <2>3, Zenon
  <2>6. write_index[h] <= write_index'[h]
    BY <2>2, <2>5, Zenon DEF W
  <2> QED BY <2>4, <2>5, <2>6, Zenon
<1>5. TypeOK'
  BY <1>0, <1>1, <1>3, <1>4, Zenon DEF TypeOK, queueVars, pollVars
<1>6. CallInv'
  BY <1>2, <1>3 DEF IInv, CallInv, Active
<1>7. LockInv'
  <2>1. \A v \in Wave : HoldsLock(v)' => HoldsLock(v)
    BY <1>1, <1>3, Zenon DEF HoldsLock
  <2>2. lock' = lock
    BY <1>1, Zenon
  <2> QED BY <2>1, <2>2, Zenon DEF IInv, LockInv
<1>8. IndexInv'
  <2>1. \A g \in Handle : /\ write_index[g] \in Nat /\ read_index[g] \in Nat
                          /\ host_read_index[QueueOf[g]] \in Nat
    BY <1>0, Zenon DEF TypeOK
  <2> QED BY <1>0, <1>1, <1>2, <1>4, <2>1, SMT DEF IndexInv, queueVars
<1>9. \A l \in 0 .. n - 1 : valid[k][SlotOf(W + l)] = 0
  <2> SUFFICES ASSUME NEW l \in 0 .. n - 1, valid[k][SlotOf(W + l)] # 0
               PROVE  FALSE
    BY Zenon
  <2>1. W + l \in Nat /\ SlotOf(W + l) \in Slot
    BY <1>2, SlotOfType, SMT
  <2>2. PublishedElement(k, SlotOf(W + l))
    BY <1>0, <2>1 DEF IInv, ValidInv, TypeOK
  <2> DEFINE j == element[k][SlotOf(W + l)].idx
  <2>3. /\ j \in Nat /\ host_read_index[k] <= j /\ j < W /\ SlotOf(j) = SlotOf(W + l)
    BY <1>0, <2>2, Zenon DEF PublishedElement, Element, PrivateQueues
  <2>4. j <= W + l /\ W + l < j + QUEUE_SIZE /\ j # W + l
    <3>1. read_index[h] <= host_read_index[k]
      BY <1>0, Zenon DEF IndexInv
    <3>2. PICK a, r, s, m, b \in Nat : /\ a = W /\ r = read_index[h] /\ s = host_read_index[k]
                                      /\ m = n /\ b = j
      <4>1. n \in Nat
        BY <1>2, SMT
      <4> HIDE DEF W, j, n, h, k
      <4> QED BY <1>2, <2>3, <4>1, Zenon
    <3>3. r <= s /\ QUEUE_SIZE - (a - r) >= m /\ s <= b /\ b < a /\ l \in 0 .. m - 1
      BY <1>2, <2>3, <3>1, <3>2, Zenon
    <3> HIDE DEF W, j, n, h, k
    <3>4. b <= a + l /\ a + l < b + QUEUE_SIZE /\ b # a + l
      BY <3>2, <3>3, SMT
    <3> QED BY <3>2, <3>4, Zenon
  <2> QED BY <2>1, <2>3, <2>4, SlotInjective, Zenon
<1>10. /\ \A v \in Wave : v # w => Unpublished(v)' = Unpublished(v)
       /\ Unpublished(w) = {} /\ Unpublished(w)' = 0 .. n - 1
  BY <1>1, <1>3, Zenon DEF Unpublished, Active
<1>11. \A v \in Wave : v # w => \A l : /\ Idx(v, l)' = Idx(v, l)
                                       /\ ElementOf(v, l)' = ElementOf(v, l)
  BY <1>3, Zenon DEF Idx, ElementOf
<1>12. \A l \in 0 .. n - 1 : Idx(w, l)' = W + l /\ W + l \in Nat /\ W <= W + l
  BY <1>2, <1>3, SMT DEF Idx
<1>13. \A g, i : HandedOver(g, i)' <=> HandedOver(g, i)
  BY <1>1, Zenon DEF HandedOver, queueVars, pollVars
<1>14. \A v \in Wave : v # w => \A l \in Unpublished(v) :
          /\ OwnedSlot(v, l) /\ Idx(v, l) \in Nat
          /\ Idx(v, l) < write_index[HandleOf[v]]
          /\ write_index[HandleOf[v]] \in Nat
          /\ write_index'[HandleOf[v]] \in Nat
          /\ write_index[HandleOf[v]] <= write_index'[HandleOf[v]]
  BY <1>0, <1>4, UnpublishedLanes, HandleOfType, Zenon DEF OwnerInv, OwnedSlot, TypeOK
<1>15. OwnerInv'
  <2>1. ASSUME NEW v \in Wave, v # w, NEW l \in Unpublished(v)
        PROVE  OwnedSlot(v, l)'
    <3>1. Idx(v, l)' = Idx(v, l) /\ ElementOf(v, l)' = ElementOf(v, l) /\ call'[v] = call[v]
          /\ Idx(v, l) < write_index'[HandleOf[v]]
      BY <1>3, <1>11, <1>14, <2>1, SMT
    <3> QED BY <1>1, <1>13, <1>14, <2>1, <3>1, Zenon DEF OwnedSlot, MyQueue, queueVars
  <2>2. ASSUME NEW l \in 0 .. n - 1 PROVE OwnedSlot(w, l)'
    <3>1. W + l < write_index'[h] /\ host_read_index[k] <= W + l
      BY <1>0, <1>2, <1>4, SMT DEF IndexInv
    <3>2. ~ HandedOver(k, W + l)
      <4> SUFFICES ASSUME HandedOver(k, W + l) PROVE FALSE
        BY Zenon
      <4>1. host_read_index[k] < W /\ host_read_index[k] = W + l
        BY <1>0, Zenon DEF IInv, PollInv, HandedOver
      <4> QED BY <1>2, <4>1, SMT
    <3> QED BY <1>1, <1>3, <1>9, <1>12, <1>13, <3>1, <3>2, Zenon DEF OwnedSlot, MyQueue, queueVars
  <2>3. ASSUME NEW v \in Wave, NEW m \in Unpublished(v)',
               NEW u \in Wave, NEW l \in Unpublished(u)',
               HandleOf[v] = HandleOf[u], Idx(v, m)' = Idx(u, l)'
        PROVE  v = u
    <3>1. CASE v # w /\ u # w
      BY <1>0, <1>10, <1>11, <2>3, <3>1 DEF OwnerInv
    <3>2. CASE v # w /\ u = w
      BY <1>2, <1>10, <1>11, <1>12, <1>14, <2>3, <3>2, SMT
    <3>3. CASE v = w /\ u # w
      BY <1>2, <1>10, <1>11, <1>12, <1>14, <2>3, <3>3, SMT
    <3> QED BY <3>1, <3>2, <3>3, Zenon
  <2>4. ASSUME NEW v \in Wave, NEW l \in Unpublished(v)' PROVE OwnedSlot(v, l)'
    BY <1>10, <2>1, <2>2, Zenon
  <2> QED BY <2>3, <2>4, Zenon DEF OwnerInv
<1>16. ValidInv'
  <2> SUFFICES ASSUME NEW g \in Queue, NEW s \in Slot, valid[g][s] = 1
               PROVE  PublishedElement(g, s)'
    BY <1>1, Zenon DEF ValidInv, queueVars
  <2>1. PublishedElement(g, s)
    BY Zenon DEF IInv, ValidInv
  <2>2. element[g][s].idx \in Nat /\ element[g][s].hnd \in Handle
    BY <2>1, Zenon DEF PublishedElement, Element
  <2>3. element[g][s].idx < write_index'[element[g][s].hnd]
    BY <1>0, <1>4, <2>1, <2>2, SMT DEF PublishedElement, TypeOK
  <2> QED BY <1>1, <2>1, <2>3, Zenon DEF PublishedElement, queueVars
<1>17. PollInv'
  <2>1. \A g \in Handle : host_read_index[pollQueue] < write_index[g]
                          => host_read_index[pollQueue] < write_index'[g]
    BY <1>0, <1>4, SMT DEF TypeOK
  <2> QED BY <1>1, <2>1, Zenon DEF IInv, PollInv, ReadSlot, queueVars, pollVars
<1>18. EveryCommandPresent'
  <2> SUFFICES ASSUME NEW g \in Handle,
                      NEW i \in host_read_index[QueueOf[g]] .. write_index'[g] - 1
               PROVE  WithWave(g, i)' \/ InSlot(g, i)' \/ HandedOver(QueueOf[g], i)'
    BY <1>1, Zenon DEF EveryCommandPresent, queueVars
  <2>0. /\ host_read_index[QueueOf[g]] \in Nat /\ write_index[g] \in Nat
    BY <1>0, Zenon DEF TypeOK
  <2>1. CASE i < write_index[g]
    <3>1. WithWave(g, i) \/ InSlot(g, i) \/ HandedOver(QueueOf[g], i)
      BY <1>4, <2>0, <2>1, SMT DEF IInv, EveryCommandPresent
    <3>2. WithWave(g, i) => WithWave(g, i)'
      BY <1>10, <1>11, Zenon DEF WithWave
    <3>3. InSlot(g, i) => InSlot(g, i)'
      BY <1>1, Zenon DEF InSlot, queueVars
    <3> QED BY <1>13, <3>1, <3>2, <3>3, Zenon
  <2>2. CASE ~ (i < write_index[g])
    <3>1. g = h /\ i - W \in 0 .. n - 1 /\ i = W + (i - W)
      BY <1>2, <1>4, <2>0, <2>2, SMT
    <3>2. PICK l \in 0 .. n - 1 : i = W + l
      BY <3>1, Zenon
    <3>3. l \in Unpublished(w)' /\ Idx(w, l)' = i
      BY <1>10, <1>12, <3>2, Zenon
    <3> QED BY <3>1, <3>3, Zenon DEF WithWave
  <2> QED BY <2>1, <2>2, Zenon
<1> QED BY <1>5, <1>6, <1>7, <1>8, <1>15, <1>16, <1>17, <1>18, Zenon DEF IInv

\* A wave writes only into slots whose flag is clear and that nobody else owns.
LEMMA FillElementsInv ==
  ASSUME IInv, PrivateQueues, NEW w \in Wave, FillElements(w)
  PROVE  IInv'
<1> USE ConstantsAssumption
<1> DEFINE k == MyQueue(w)
           mine == {SlotOf(call[w].base + l) : l \in Active(w)}
           new(s) == ElementOf(w, LaneOfSlot(w, s))
<1>0. k \in Queue /\ HandleOf[w] \in Handle /\ TypeOK /\ CallInv /\ OwnerInv /\ IndexInv
  BY HandleOfType, Zenon DEF IInv
<1>1. /\ call[w].at = "fill" /\ Unpublished(w) = Active(w)
      /\ element' = [element EXCEPT ![k] =
                       [s \in Slot |-> IF s \in mine THEN new(s) ELSE @[s]]]
      /\ call' = [call EXCEPT ![w] =
                    Locals("publish", call[w].cmd, call[w].lanes, call[w].base, Active(w))]
      /\ UNCHANGED <<handleVars, host_read_index, valid, status, ops, pollVars, q>>
  BY Zenon DEF FillElements, Unpublished
<1>2. call[w] \in Call /\ call[w].cmd \in Cmd /\ Active(w) \in SUBSET Lane
  BY <1>0, <1>1, SMT DEF TypeOK, Call, CallInv, Active, Lane
<1>3. /\ call' \in [Wave -> Call]
      /\ \A v \in Wave : v # w => call'[v] = call[v]
      /\ call'[w].at = "publish" /\ call'[w].cmd = call[w].cmd
      /\ call'[w].lanes = call[w].lanes /\ call'[w].base = call[w].base
      /\ call'[w].todo = Active(w)
  BY <1>0, <1>1, <1>2, SMT DEF TypeOK, Call, Locals
<1>4. \A l \in Active(w) : /\ l \in Lane /\ Idx(w, l) \in Nat
                           /\ SlotOf(Idx(w, l)) \in Slot /\ SlotOf(Idx(w, l)) \in mine
                           /\ OwnedSlot(w, l)
  BY <1>0, <1>1, UnpublishedLanes, SlotOfType, Zenon DEF Idx, OwnerInv
<1>5. \A l \in Lane : Idx(w, l) \in Nat => ElementOf(w, l) \in Element
  BY <1>0, <1>2, FlatIdType, Zenon DEF ElementOf, Element, Idx
<1>6. \A l \in Active(w) : LaneOfSlot(w, SlotOf(Idx(w, l))) = l
  <2> SUFFICES ASSUME NEW l \in Active(w)
               PROVE  LaneOfSlot(w, SlotOf(Idx(w, l))) = l
    BY Zenon
  <2>1. \A m \in Active(w) : SlotOf(Idx(w, m)) = SlotOf(Idx(w, l)) => m = l
    BY <1>1, OwnersApart
  <2> QED BY <2>1, Zenon DEF LaneOfSlot, Idx
<1>7. \A s \in mine : new(s) \in Element
  <2> SUFFICES ASSUME NEW l \in Active(w) PROVE new(SlotOf(Idx(w, l))) \in Element
    BY Zenon DEF Idx
  <2> QED BY <1>4, <1>5, <1>6, Zenon
<1> HIDE DEF new
<1>8. /\ element' \in [Queue -> [Slot -> Element \union {Null}]]
      /\ \A g \in Queue : g # k => element'[g] = element[g]
      /\ \A s \in Slot : element'[k][s] = IF s \in mine THEN new(s) ELSE element[k][s]
  BY <1>0, <1>1, <1>7, Zenon DEF TypeOK
<1>9. \A l \in Active(w) : element'[k][SlotOf(Idx(w, l))] = ElementOf(w, l)
  BY <1>4, <1>6, <1>8, Zenon DEF new
<1>10. \A g \in Queue, s \in Slot : valid[g][s] = 1 => element'[g][s] = element[g][s]
  <2> SUFFICES ASSUME NEW s \in Slot, valid[k][s] = 1 PROVE s \notin mine
    BY <1>8, Zenon
  <2> QED BY <1>4 DEF OwnedSlot, Idx
<1>11. TypeOK'
  BY <1>0, <1>1, <1>3, <1>8, Zenon DEF TypeOK, handleVars, pollVars
<1>12. CallInv' /\ IndexInv'
  BY <1>0, <1>1, <1>2, <1>3, Zenon DEF CallInv, IndexInv, Active, handleVars
<1>13. LockInv'
  <2>1. \A v \in Wave : HoldsLock(v)' => HoldsLock(v)
    BY <1>3, Zenon DEF HoldsLock
  <2>2. lock' = lock
    BY <1>1, Zenon DEF handleVars
  <2> QED BY <2>1, <2>2, Zenon DEF IInv, LockInv
<1>14. /\ \A v \in Wave : Unpublished(v)' = Unpublished(v)
       /\ \A v \in Wave, l \in Lane : /\ Idx(v, l)' = Idx(v, l)
                                      /\ ElementOf(v, l)' = ElementOf(v, l)
  BY <1>1, <1>3, Zenon DEF Unpublished, Active, Idx, ElementOf
<1>15. \A g, i : HandedOver(g, i)' <=> HandedOver(g, i)
  BY <1>1, Zenon DEF HandedOver, pollVars
<1>16. OwnerInv'
  <2>1. ASSUME NEW v \in Wave, NEW l \in Unpublished(v) PROVE OwnedSlot(v, l)'
    <3>1. OwnedSlot(v, l) /\ l \in Lane /\ Idx(v, l) \in Nat /\ MyQueue(v) \in Queue
          /\ SlotOf(Idx(v, l)) \in Slot
      BY <1>0, UnpublishedLanes, HandleOfType, SlotOfType, Zenon DEF OwnerInv
    <3>2. CASE v = w
      BY <1>1, <1>9, <1>14, <1>15, <3>1, <3>2, Zenon DEF OwnedSlot, MyQueue, handleVars
    <3>3. CASE v # w
      <4>1. element'[MyQueue(v)][SlotOf(Idx(v, l))] = element[MyQueue(v)][SlotOf(Idx(v, l))]
        <5>1. CASE MyQueue(v) # k
          BY <1>8, <3>1, <5>1, Zenon
        <5>2. CASE MyQueue(v) = k
          <6>1. \A m \in Active(w) : SlotOf(Idx(v, l)) # SlotOf(Idx(w, m))
            BY <1>1, <3>3, <5>2, OwnersApart
          <6> QED BY <1>8, <3>1, <5>2, <6>1, Zenon DEF Idx
        <5> QED BY <5>1, <5>2, Zenon
      <4>2. /\ valid' = valid /\ host_read_index' = host_read_index
            /\ write_index' = write_index /\ call'[v] = call[v]
            /\ Idx(v, l)' = Idx(v, l) /\ ElementOf(v, l)' = ElementOf(v, l)
            /\ MyQueue(v)' = MyQueue(v)
        BY <1>1, <1>3, <1>14, <3>1, <3>3, Zenon DEF MyQueue, handleVars
      <4> QED BY <1>15, <3>1, <4>1, <4>2, Zenon DEF OwnedSlot
    <3> QED BY <3>2, <3>3, Zenon
  <2>2. ASSUME NEW v \in Wave, NEW m \in Unpublished(v)',
               NEW u \in Wave, NEW l \in Unpublished(u)',
               HandleOf[v] = HandleOf[u], Idx(v, m)' = Idx(u, l)'
        PROVE  v = u
    <3>1. m \in Unpublished(v) /\ l \in Unpublished(u) /\ m \in Lane /\ l \in Lane
      BY <1>0, <1>14, UnpublishedLanes, Zenon
    <3> QED BY <1>0, <1>14, <2>2, <3>1 DEF OwnerInv
  <2> QED BY <1>14, <2>1, <2>2, Zenon DEF OwnerInv
<1>17. ValidInv'
  <2> SUFFICES ASSUME NEW g \in Queue, NEW s \in Slot, valid[g][s] = 1
               PROVE  PublishedElement(g, s)'
    BY <1>1, Zenon DEF ValidInv
  <2>1. PublishedElement(g, s)
    BY Zenon DEF IInv, ValidInv
  <2>2. /\ element'[g][s] = element[g][s]
        /\ host_read_index' = host_read_index /\ write_index' = write_index
    BY <1>1, <1>10, Zenon DEF handleVars
  <2> QED BY <2>1, <2>2, Zenon DEF PublishedElement
<1>18. PollInv'
  <2>1. pollQueue \in Queue /\ ReadSlot \in Slot
    BY <1>0, SlotOfType, Zenon DEF TypeOK, ReadSlot
  <2> QED BY <1>1, <1>10, <2>1 DEF IInv, PollInv, ReadSlot, handleVars, pollVars
<1>19. EveryCommandPresent'
  <2>1. \A h, i : WithWave(h, i) => WithWave(h, i)'
    BY <1>0, <1>14, UnpublishedLanes, Zenon DEF WithWave
  <2>2. \A h \in Handle, i \in Nat : InSlot(h, i) => InSlot(h, i)'
    <3> SUFFICES ASSUME NEW h \in Handle, NEW i \in Nat, InSlot(h, i) PROVE InSlot(h, i)'
      BY Zenon
    <3>1. QueueOf[h] \in Queue /\ SlotOf(i) \in Slot /\ valid[QueueOf[h]][SlotOf(i)] = 1
      BY SlotOfType, Zenon DEF InSlot
    <3>2. /\ element'[QueueOf[h]][SlotOf(i)] = element[QueueOf[h]][SlotOf(i)]
          /\ valid' = valid
      BY <1>1, <1>10, <3>1, Zenon
    <3> QED BY <3>2, Zenon DEF InSlot
  <2>3. \A h \in Handle : host_read_index[QueueOf[h]] \in Nat /\ write_index[h] \in Nat
    BY <1>0, Zenon DEF TypeOK
  <2>4. \A h \in Handle : \A i \in host_read_index[QueueOf[h]] .. write_index[h] - 1 : i \in Nat
    BY <2>3, SMT
  <2> QED BY <1>1, <1>15, <2>1, <2>2, <2>4, Zenon DEF IInv, EveryCommandPresent, handleVars
<1> QED BY <1>11, <1>12, <1>13, <1>16, <1>17, <1>18, <1>19, Zenon DEF IInv

\* A lane sets its flag: its index changes hands from the wave to the slot.
LEMMA PublishInv ==
  ASSUME IInv, PrivateQueues, NEW w \in Wave, NEW l \in Lane, Publish(w, l)
  PROVE  IInv'
<1> USE ConstantsAssumption
<1> DEFINE h == HandleOf[w]
           k == MyQueue(w)
           j == Idx(w, l)
           t == SlotOf(j)
<1>0. /\ h \in Handle /\ k \in Queue /\ k = QueueOf[h]
      /\ TypeOK /\ CallInv /\ OwnerInv /\ IndexInv /\ ValidInv
  BY HandleOfType, Zenon DEF IInv, MyQueue
<1>1. /\ call[w].at = "publish" /\ Unpublished(w) = call[w].todo /\ l \in Unpublished(w)
      /\ valid' = [valid EXCEPT ![k][t] = 1]
      /\ UNCHANGED <<handleVars, host_read_index, element, status, ops, pollVars, q>>
  BY Zenon DEF Publish, Unpublished, Idx
<1>2. /\ l \in Active(w) /\ j \in Nat /\ t \in Slot /\ OwnedSlot(w, l)
      /\ call[w] \in Call /\ call[w].cmd \in Cmd
  BY <1>0, <1>1, UnpublishedLanes, SlotOfType, Zenon DEF OwnerInv, TypeOK, CallInv
<1>3. /\ call' \in [Wave -> Call]
      /\ \A v \in Wave : v # w => call'[v] = call[v]
      /\ \/ /\ call'[w].at = "publish" /\ call'[w].cmd = call[w].cmd
            /\ call'[w].lanes = call[w].lanes /\ call'[w].base = call[w].base
            /\ call'[w].todo = call[w].todo \ {l}
         \/ /\ call[w].todo = {l} /\ call'[w].at = "idle"
         \/ /\ call[w].todo = {l} /\ call'[w].at = "wait"
            /\ call'[w].cmd = call[w].cmd /\ call'[w].lanes = call[w].lanes
  <2>1. CASE call' = [call EXCEPT ![w].todo = @ \ {l}]
    <3> DEFINE r == [call[w] EXCEPT !.todo = @ \ {l}]
    <3>1. call' = [call EXCEPT ![w] = r]
      BY <1>0, <2>1, Zenon DEF TypeOK
    <3>2. r \in Call /\ r.at = call[w].at /\ r.cmd = call[w].cmd /\ r.base = call[w].base
          /\ r.lanes = call[w].lanes /\ r.todo = call[w].todo \ {l}
      BY <1>2, SMT DEF Call
    <3> HIDE DEF r
    <3> QED BY <1>0, <1>1, <3>1, <3>2, Zenon DEF TypeOK
  <2>2. CASE call[w].todo = {l} /\ call' = [call EXCEPT ![w] = AfterPublish(w)]
    <3> DEFINE r == AfterPublish(w)
    <3>1. call[w].lanes \in 0 .. WaveSize /\ call[w].base \in Nat
      BY <1>2, Zenon DEF Call
    <3>2. r \in Call /\ \/ r.at = "idle"
                        \/ r.at = "wait" /\ r.cmd = call[w].cmd /\ r.lanes = call[w].lanes
      <4>1. CASE Blocking(call[w].cmd)
        <5>1. r = Locals("wait", call[w].cmd, call[w].lanes, call[w].base, Active(w))
          BY <4>1, Zenon DEF AfterPublish
        <5>2. Active(w) \in SUBSET Lane
          BY <3>1, ActiveLanes, Zenon
        <5> HIDE DEF r
        <5> QED BY <1>2, <3>1, <5>1, <5>2, LocalsType
      <4>2. CASE ~ Blocking(call[w].cmd)
        <5>1. r = NoCall
          BY <4>2, Zenon DEF AfterPublish
        <5> QED BY <5>1, NoCallType, Zenon
      <4> QED BY <4>1, <4>2, Zenon
    <3> HIDE DEF r
    <3> QED BY <1>0, <2>2, <3>2, Zenon DEF TypeOK, r
  <2> QED BY <2>1, <2>2, Zenon DEF Publish
<1>4. /\ valid' \in [Queue -> [Slot -> {0, 1}]]
      /\ valid'[k][t] = 1
      /\ \A g \in Queue, s \in Slot : ~ (g = k /\ s = t) => valid'[g][s] = valid[g][s]
  BY <1>0, <1>1, <1>2, Zenon DEF TypeOK
<1>5. TypeOK'
  BY <1>0, <1>1, <1>3, <1>4, Zenon DEF TypeOK, handleVars, pollVars
<1>6. CallInv' /\ IndexInv'
  BY <1>0, <1>1, <1>2, <1>3, Zenon DEF CallInv, IndexInv, Active, handleVars
<1>7. LockInv'
  BY <1>1, <1>3, Zenon DEF IInv, LockInv, HoldsLock, handleVars
<1>8. /\ \A v \in Wave : v # w => Unpublished(v)' = Unpublished(v)
      /\ Unpublished(w)' = Unpublished(w) \ {l}
  BY <1>1, <1>3, Zenon DEF Unpublished, Active
<1>9. \A v \in Wave : \A m \in Unpublished(v)' :
        /\ m \in Unpublished(v) /\ ~ (v = w /\ m = l)
        /\ Idx(v, m)' = Idx(v, m)
        /\ ElementOf(v, m)' = ElementOf(v, m)
        /\ call'[v].at = call[v].at
  BY <1>1, <1>3, <1>8, Zenon DEF Idx, ElementOf, Unpublished
<1>10. \A g, i : HandedOver(g, i)' <=> HandedOver(g, i)
  BY <1>1, Zenon DEF HandedOver, pollVars
<1>11. OwnerInv'
  <2>1. ASSUME NEW v \in Wave, NEW m \in Unpublished(v)' PROVE OwnedSlot(v, m)'
    <3>1. /\ m \in Unpublished(v) /\ ~ (v = w /\ m = l) /\ Idx(v, m)' = Idx(v, m)
          /\ ElementOf(v, m)' = ElementOf(v, m) /\ call'[v].at = call[v].at
      BY <1>9, Zenon
    <3>2. /\ OwnedSlot(v, m) /\ MyQueue(v) \in Queue /\ MyQueue(v)' = MyQueue(v)
          /\ SlotOf(Idx(v, m)) \in Slot
      BY <1>0, <3>1, UnpublishedLanes, HandleOfType, SlotOfType, Zenon DEF OwnerInv, MyQueue
    <3>3. ~ (MyQueue(v) = k /\ SlotOf(Idx(v, m)) = t)
      BY <1>1, <3>1, OwnersApart, Zenon
    <3>4. /\ valid'[MyQueue(v)][SlotOf(Idx(v, m))] = valid[MyQueue(v)][SlotOf(Idx(v, m))]
          /\ host_read_index' = host_read_index /\ write_index' = write_index
          /\ element' = element
          /\ HandedOver(MyQueue(v), Idx(v, m))' <=> HandedOver(MyQueue(v), Idx(v, m))
      <4>1. host_read_index' = host_read_index /\ write_index' = write_index /\ element' = element
        BY <1>1, Zenon DEF handleVars
      <4>2. valid'[MyQueue(v)][SlotOf(Idx(v, m))] = valid[MyQueue(v)][SlotOf(Idx(v, m))]
        BY <1>4, <3>2, <3>3, Zenon
      <4>3. HandedOver(MyQueue(v), Idx(v, m))' <=> HandedOver(MyQueue(v), Idx(v, m))
        BY <1>10, <3>1, <3>2, Zenon
      <4> QED BY <4>1, <4>2, <4>3, Zenon
    <3> QED BY <3>1, <3>2, <3>4, Zenon DEF OwnedSlot
  <2>2. ASSUME NEW v \in Wave, NEW m \in Unpublished(v)',
               NEW u \in Wave, NEW n \in Unpublished(u)',
               HandleOf[v] = HandleOf[u], Idx(v, m)' = Idx(u, n)'
        PROVE  v = u
    <3>1. m \in Unpublished(v) /\ n \in Unpublished(u) /\ Idx(v, m) = Idx(u, n)
      BY <1>9, <2>2, Zenon
    <3> QED BY <1>0, <2>2, <3>1, Zenon DEF OwnerInv
  <2> QED BY <2>1, <2>2, Zenon DEF OwnerInv
<1>12. element[k][t] = ElementOf(w, l) /\ PublishedElement(k, t)
  <2>1. element[k][t] = ElementOf(w, l)
    BY <1>1, <1>2, Zenon DEF OwnedSlot
  <2>2. ElementOf(w, l) \in Element
    BY <1>0, <1>2, FlatIdType, Zenon DEF ElementOf, Element, Idx
  <2>3. ElementOf(w, l).hnd = h /\ ElementOf(w, l).idx = j
    BY Zenon DEF ElementOf, Idx
  <2> QED BY <1>0, <1>2, <2>1, <2>2, <2>3, Zenon DEF PublishedElement, OwnedSlot
<1>13. ValidInv'
  <2> SUFFICES ASSUME NEW g \in Queue, NEW s \in Slot, valid'[g][s] = 1
               PROVE  PublishedElement(g, s)'
    BY Zenon DEF ValidInv
  <2>1. PublishedElement(g, s)
    BY <1>0, <1>4, <1>12, Zenon DEF ValidInv
  <2> QED BY <1>1, <2>1, Zenon DEF PublishedElement, handleVars
<1>14. PollInv'
  <2>1. pollQueue \in Queue /\ ReadSlot \in Slot /\ host_read_index[pollQueue] \in Nat
    BY <1>0, SlotOfType, Zenon DEF TypeOK, ReadSlot
  <2>2. PollInv
    BY Zenon DEF IInv
  <2>3. ASSUME pollAt = "advance" PROVE ~ (pollQueue = k /\ ReadSlot = t)
    <3> SUFFICES ASSUME pollQueue = k, ReadSlot = t PROVE FALSE
      BY Zenon
    <3>1. j # host_read_index[k]
      BY <1>2, <2>3, Zenon DEF OwnedSlot, HandedOver
    <3>2. host_read_index[k] < write_index[h] /\ host_read_index[k] <= host_read_index[k]
      BY <1>0, <2>1, <2>2, <2>3 DEF PollInv
    <3> QED BY <1>0, <1>2, <2>1, <3>1, <3>2, WindowInjective, Zenon DEF OwnedSlot, ReadSlot
  <2> QED BY <1>1, <1>4, <2>1, <2>2, <2>3, SMTT(30) DEF PollInv, ReadSlot, handleVars, pollVars
<1>15. EveryCommandPresent'
  <2> SUFFICES ASSUME NEW g \in Handle,
                      NEW i \in host_read_index[QueueOf[g]] .. write_index[g] - 1
               PROVE  WithWave(g, i)' \/ InSlot(g, i)' \/ HandedOver(QueueOf[g], i)'
    BY <1>1, Zenon DEF EveryCommandPresent, handleVars
  <2>1. i \in Nat /\ SlotOf(i) \in Slot /\ QueueOf[g] \in Queue
    BY <1>0, SlotOfType, SMT DEF TypeOK
  <2>2. CASE HandedOver(QueueOf[g], i)
    BY <1>10, <2>2, Zenon
  <2>3. CASE InSlot(g, i)
    BY <1>1, <1>4, <2>1, <2>3, Zenon DEF InSlot
  <2>4. CASE WithWave(g, i)
    <3>1. PICK v \in Wave : HandleOf[v] = g /\ \E m \in Unpublished(v) : Idx(v, m) = i
      BY <2>4, Zenon DEF WithWave
    <3>2. PICK m \in Unpublished(v) : Idx(v, m) = i
      BY <3>1, Zenon
    <3>3. CASE v = w /\ m = l
      <4>1. g = h /\ i = j
        BY <3>1, <3>2, <3>3, Zenon
      <4>2. ElementOf(w, l).hnd = h /\ ElementOf(w, l).idx = j
        BY Zenon DEF ElementOf, Idx
      <4>3. element[k][t] # Null
        BY <1>12, NullAssumption, Zenon DEF PublishedElement
      <4> QED BY <1>0, <1>1, <1>4, <1>12, <4>1, <4>2, <4>3, Zenon DEF InSlot
    <3>4. CASE ~ (v = w /\ m = l)
      <4>1. m \in Unpublished(v)'
        BY <1>8, <3>4, Zenon
      <4>2. Idx(v, m)' = i
        BY <1>9, <3>2, <4>1, Zenon
      <4> QED BY <3>1, <4>1, <4>2, Zenon DEF WithWave
    <3> QED BY <3>3, <3>4, Zenon
  <2> QED BY <2>2, <2>3, <2>4, Zenon DEF IInv, EveryCommandPresent
<1> QED BY <1>5, <1>6, <1>7, <1>11, <1>13, <1>14, <1>15, Zenon DEF IInv

-----------------------------------------------------------------------------
\* Steps of the poll thread that only read the queues.
LEMMA PollFrame ==
  ASSUME IInv, UNCHANGED <<handleVars, queueVars, call>>,
         pollAt # "advance", pollAt' # "advance"
  PROVE  CallInv' /\ LockInv' /\ IndexInv' /\ OwnerInv' /\ ValidInv' /\ EveryCommandPresent'
<1> USE DEF handleVars, queueVars
<1>1. CallInv' /\ LockInv' /\ IndexInv' /\ ValidInv'
  BY Zenon DEF IInv, CallInv, LockInv, HoldsLock, IndexInv, ValidInv, PublishedElement, Active
<1>2. \A k, i : ~ HandedOver(k, i) /\ ~ HandedOver(k, i)'
  BY Zenon DEF HandedOver
<1>3. \A v : Unpublished(v)' = Unpublished(v)
  BY Zenon DEF Unpublished, Active
<1>4. \A v, m : Idx(v, m)' = Idx(v, m) /\ ElementOf(v, m)' = ElementOf(v, m)
  BY Zenon DEF Idx, ElementOf
<1>5. \A v, m : OwnedSlot(v, m) => OwnedSlot(v, m)'
  BY <1>2, <1>4, Zenon DEF OwnedSlot, MyQueue
<1>6. OwnerInv'
  BY <1>3, <1>4, <1>5, Zenon DEF IInv, OwnerInv
<1>7. \A h, i : WithWave(h, i) \/ InSlot(h, i) => WithWave(h, i)' \/ InSlot(h, i)'
  BY <1>3, <1>4, Zenon DEF WithWave, InSlot
<1>8. EveryCommandPresent'
  BY <1>2, <1>7, Zenon DEF IInv, EveryCommandPresent
<1> QED BY <1>1, <1>6, <1>8, Zenon

\* copy_element_to_cache, the flag: what was set stays set until ClearValid.
LEMMA CopyFlagInv ==
  ASSUME IInv, CopyFlag
  PROVE  IInv'
<1> USE ConstantsAssumption
<1>1. CallInv' /\ LockInv' /\ IndexInv' /\ OwnerInv' /\ ValidInv' /\ EveryCommandPresent'
  BY PollFrame, Zenon DEF CopyFlag
<1>2. (pollQueue + 1) % NumQueues \in Queue
  BY SMT DEF IInv, TypeOK, Queue
<1>3. pollQueue' \in Queue /\ pollCount' \in 0 .. MaxCount
  BY <1>2 DEF IInv, TypeOK, CopyFlag, NextQueue
<1>4. TypeOK'
  BY <1>3, Zenon DEF IInv, TypeOK, CopyFlag, handleVars, queueVars
<1>5. PollInv'
  BY Zenon DEF PollInv, CopyFlag, ReadSlot, queueVars
<1> QED BY <1>1, <1>4, <1>5, Zenon DEF IInv

\* copy_element_to_cache, the rest: the slot does not change while its flag is set.
LEMMA CopyPayloadInv ==
  ASSUME IInv, PrivateQueues, CopyPayload
  PROVE  IInv'
<1>1. CallInv' /\ LockInv' /\ IndexInv' /\ OwnerInv' /\ ValidInv' /\ EveryCommandPresent'
  BY PollFrame, Zenon DEF CopyPayload
<1>2. cache' \in Element
  BY ReadElement, Zenon DEF IInv, TypeOK, PollInv, CopyPayload, ReadSlot
<1>3. TypeOK'
  BY <1>2, Zenon DEF IInv, TypeOK, CopyPayload, handleVars, queueVars
<1>4. PollInv'
  BY Zenon DEF IInv, PollInv, CopyPayload, ReadSlot, queueVars
<1> QED BY <1>1, <1>3, <1>4, Zenon DEF IInv

\* insertRequest: the cached element is a request of the polled queue.
LEMMA InsertRequestInv ==
  ASSUME IInv, PrivateQueues, InsertRequest
  PROVE  IInv'
<1>1. CallInv' /\ LockInv' /\ IndexInv' /\ OwnerInv' /\ ValidInv' /\ EveryCommandPresent'
  BY PollFrame, Zenon DEF InsertRequest
<1>2. cache \in Element
  BY ReadElement, Zenon DEF IInv, TypeOK, PollInv, InsertRequest, ReadSlot
<1>3. q' \in Seq(Request)
  BY <1>2 DEF IInv, TypeOK, InsertRequest, Request
<1>4. TypeOK'
  BY <1>3, Zenon DEF IInv, TypeOK, InsertRequest, handleVars, queueVars
<1>5. PollInv'
  BY Zenon DEF IInv, PollInv, InsertRequest, ReadSlot, queueVars
<1> QED BY <1>1, <1>4, <1>5, Zenon DEF IInv

\* process clears the flag: the slot is empty, its index is still unread.
LEMMA ClearValidInv ==
  ASSUME IInv, PrivateQueues, ClearValid
  PROVE  IInv'
<1> USE ConstantsAssumption
<1> DEFINE k == pollQueue
           i0 == host_read_index[k]
           t == ReadSlot
<1>0. /\ TypeOK /\ CallInv /\ OwnerInv /\ IndexInv /\ ValidInv /\ PollInv
      /\ k \in Queue /\ i0 \in Nat /\ t \in Slot /\ t = SlotOf(i0)
      /\ pollAt = "clear" /\ valid[k][t] = 1
  BY SlotOfType, Zenon DEF IInv, TypeOK, PollInv, ClearValid, ReadSlot
<1>1. /\ valid' = [valid EXCEPT ![k][t] = 0]
      /\ pollAt' = "advance"
      /\ UNCHANGED <<handleVars, host_read_index, element, status, call, ops,
                     pollQueue, pollCount, cache, q>>
  BY Zenon DEF ClearValid
<1>2. /\ valid' \in [Queue -> [Slot -> {0, 1}]]
      /\ valid'[k][t] = 0
      /\ \A g \in Queue, s \in Slot : ~ (g = k /\ s = t) => valid'[g][s] = valid[g][s]
  BY <1>0, <1>1, Zenon DEF TypeOK
<1>3. TypeOK'
  BY <1>0, <1>1, <1>2, Zenon DEF TypeOK, handleVars
<1>4. CallInv' /\ LockInv' /\ IndexInv'
  BY <1>1, Zenon DEF IInv, CallInv, LockInv, HoldsLock, IndexInv, Active, handleVars
<1>5. \A v : Unpublished(v)' = Unpublished(v)
  BY <1>1, Zenon DEF Unpublished, Active
<1>6. \A g, i : /\ ~ HandedOver(g, i)
                /\ HandedOver(g, i)' <=> g = k /\ i = host_read_index[g]
  BY <1>0, <1>1, Zenon DEF HandedOver
<1>7. OwnerInv'
  <2>1. ASSUME NEW v \in Wave, NEW m \in Unpublished(v) PROVE OwnedSlot(v, m)'
    <3>1. /\ OwnedSlot(v, m) /\ MyQueue(v) \in Queue /\ SlotOf(Idx(v, m)) \in Slot
      BY <1>0, UnpublishedLanes, HandleOfType, SlotOfType, Zenon DEF OwnerInv
    <3>2. ~ (MyQueue(v) = k /\ Idx(v, m) = i0)
      <4>1. valid[MyQueue(v)][SlotOf(Idx(v, m))] = 0
        BY <3>1, Zenon DEF OwnedSlot
      <4>2. valid[k][SlotOf(i0)] = 1
        BY <1>0, Zenon
      <4> HIDE DEF k, i0
      <4> QED BY <4>1, <4>2
    <3>3. valid'[MyQueue(v)][SlotOf(Idx(v, m))] = 0
      BY <1>2, <3>1, Zenon DEF OwnedSlot
    <3>4. ~ HandedOver(MyQueue(v), Idx(v, m))'
      BY <1>6, <1>1, <3>2, Zenon DEF Idx, MyQueue
    <3> QED BY <1>1, <3>1, <3>3, <3>4, Zenon DEF OwnedSlot, Idx, MyQueue, ElementOf, handleVars
  <2> QED BY <1>0, <1>1, <1>5, <2>1, Zenon DEF OwnerInv, Idx
<1>8. ValidInv'
  <2> SUFFICES ASSUME NEW g \in Queue, NEW s \in Slot, valid'[g][s] = 1
               PROVE  PublishedElement(g, s)'
    BY Zenon DEF ValidInv
  <2>1. PublishedElement(g, s)
    BY <1>0, <1>2 DEF ValidInv
  <2> QED BY <1>1, <2>1, Zenon DEF PublishedElement, handleVars
<1>9. \A h \in Handle : QueueOf[h] = k => i0 < write_index[h]
  BY <1>0, ReadElement, Zenon
<1>10. PollInv'
  BY <1>1, <1>2, <1>9, Zenon DEF PollInv, ReadSlot, handleVars
<1>11. EveryCommandPresent'
  <2> SUFFICES ASSUME NEW g \in Handle,
                      NEW i \in host_read_index[QueueOf[g]] .. write_index[g] - 1
               PROVE  WithWave(g, i)' \/ InSlot(g, i)' \/ HandedOver(QueueOf[g], i)'
    BY <1>1, Zenon DEF EveryCommandPresent, handleVars
  <2>1. i \in Nat /\ SlotOf(i) \in Slot /\ QueueOf[g] \in Queue
        /\ host_read_index[QueueOf[g]] <= i /\ i < write_index[g]
        /\ host_read_index[QueueOf[g]] \in Nat
    BY <1>0, SlotOfType, SMT DEF TypeOK
  <2>2. WithWave(g, i) \/ InSlot(g, i)
    BY <1>6, Zenon DEF IInv, EveryCommandPresent
  <2>3. CASE WithWave(g, i)
    BY <1>1, <1>5, <2>3, Zenon DEF WithWave, Idx
  <2>4. CASE InSlot(g, i) /\ ~ (QueueOf[g] = k /\ SlotOf(i) = t)
    BY <1>1, <1>2, <2>1, <2>4, Zenon DEF InSlot
  <2>5. CASE QueueOf[g] = k /\ SlotOf(i) = t
    <3>1. i = i0
      <4>1. i0 \in Nat /\ i0 = host_read_index[QueueOf[g]] /\ i0 < write_index[g]
            /\ SlotOf(i) = SlotOf(i0)
        <5>1. i0 = host_read_index[QueueOf[g]]
          BY <2>5, Zenon
        <5>2. t = SlotOf(i0) /\ i0 \in Nat
          BY <1>0, Zenon
        <5>3. i0 < write_index[g]
          BY <1>9, <2>5, Zenon
        <5> HIDE DEF i0, t
        <5> QED BY <2>5, <5>1, <5>2, <5>3, Zenon
      <4>2. i0 <= i0
        BY <4>1, SMT
      <4> HIDE DEF i0, k, t
      <4>3. host_read_index[QueueOf[g]] <= i0
        BY <4>1, <4>2, Zenon
      <4> QED BY <1>0, <2>1, <4>1, <4>3, WindowInjective, Zenon
    <3> QED BY <1>6, <2>5, <3>1, Zenon
  <2> QED BY <2>2, <2>3, <2>4, <2>5, Zenon
<1> QED BY <1>3, <1>4, <1>7, <1>8, <1>10, <1>11, Zenon DEF IInv

\* increment_read_index: the slot that was cleared becomes free for the writers.
LEMMA IncrementReadIndexInv ==
  ASSUME IInv, PrivateQueues, IncrementReadIndex
  PROVE  IInv'
<1> USE ConstantsAssumption
<1> DEFINE k == pollQueue
           i0 == host_read_index[k]
<1>0. /\ TypeOK /\ CallInv /\ OwnerInv /\ IndexInv /\ ValidInv
      /\ k \in Queue /\ i0 \in Nat /\ pollAt = "advance"
      /\ valid[k][SlotOf(i0)] = 0
      /\ \A h \in Handle : QueueOf[h] = k => i0 < write_index[h]
  BY Zenon DEF IInv, TypeOK, PollInv, IncrementReadIndex, ReadSlot
<1>1. /\ host_read_index' = [host_read_index EXCEPT ![k] = @ + 1]
      /\ pollAt' = "flag"
      /\ UNCHANGED <<handleVars, valid, element, status, call, ops, cache, q>>
  BY Zenon DEF IncrementReadIndex
<1>2. /\ host_read_index' \in [Queue -> Nat]
      /\ host_read_index'[k] = i0 + 1
      /\ \A g \in Queue : g # k => host_read_index'[g] = host_read_index[g]
  BY <1>0, <1>1, SMT DEF TypeOK
<1>3. TypeOK'
  <2>1. (pollQueue + 1) % NumQueues \in Queue
    BY <1>0, NextQueueType, Zenon
  <2>2. pollQueue' \in Queue /\ pollCount' \in 0 .. MaxCount
    BY <1>0, <2>1, SMT DEF IncrementReadIndex, NextQueue, TypeOK
  <2> QED BY <1>0, <1>1, <1>2, <2>2, Zenon DEF TypeOK, handleVars
<1>4. CallInv' /\ LockInv'
  BY <1>1, Zenon DEF IInv, CallInv, LockInv, HoldsLock, Active, handleVars
<1>5. IndexInv'
  <2>1. \A h \in Handle : /\ QueueOf[h] \in Queue
                          /\ write_index[h] \in Nat /\ read_index[h] \in Nat
                          /\ host_read_index[QueueOf[h]] \in Nat
    BY <1>0, Zenon DEF TypeOK
  <2> QED BY <1>0, <1>1, <1>2, <2>1, SMT DEF IndexInv, handleVars
<1>6. \A v : Unpublished(v)' = Unpublished(v)
  BY <1>1, Zenon DEF Unpublished, Active
<1>7. \A g, i : /\ ~ HandedOver(g, i)'
                /\ HandedOver(g, i) <=> g = k /\ i = host_read_index[g]
  BY <1>0, <1>1, Zenon DEF HandedOver
<1>8. OwnerInv'
  <2>1. ASSUME NEW v \in Wave, NEW m \in Unpublished(v) PROVE OwnedSlot(v, m)'
    <3>1. OwnedSlot(v, m) /\ MyQueue(v) \in Queue /\ Idx(v, m) \in Nat
          /\ host_read_index[MyQueue(v)] \in Nat
      BY <1>0, UnpublishedLanes, HandleOfType, Zenon DEF OwnerInv, TypeOK
    <3>2. ~ (MyQueue(v) = k /\ Idx(v, m) = i0)
      BY <1>7, <3>1, Zenon DEF OwnedSlot
    <3>3. host_read_index'[MyQueue(v)] <= Idx(v, m)
      <4>1. host_read_index[MyQueue(v)] <= Idx(v, m)
        BY <3>1, Zenon DEF OwnedSlot
      <4>2. CASE MyQueue(v) = k
        BY <1>0, <1>2, <3>1, <3>2, <4>1, <4>2, PastReadIndex, Zenon
      <4>3. CASE MyQueue(v) # k
        BY <1>2, <3>1, <4>1, <4>3, Zenon
      <4> QED BY <4>2, <4>3, Zenon
    <3> QED BY <1>1, <1>7, <3>1, <3>3, Zenon DEF OwnedSlot, Idx, MyQueue, ElementOf, handleVars
  <2> QED BY <1>0, <1>1, <1>6, <2>1, Zenon DEF OwnerInv, Idx
<1>9. ValidInv'
  <2> SUFFICES ASSUME NEW g \in Queue, NEW s \in Slot, valid[g][s] = 1
               PROVE  PublishedElement(g, s)'
    BY <1>1, Zenon DEF ValidInv
  <2> DEFINE e == element[g][s]
  <2>1. PublishedElement(g, s) /\ e.idx \in Nat /\ host_read_index[g] \in Nat
    BY <1>0 DEF ValidInv, PublishedElement, Element, TypeOK
  <2>2. ~ (g = k /\ e.idx = i0)
    BY <1>0, <2>1 DEF PublishedElement
  <2>3. host_read_index'[g] <= e.idx
    <3>1. host_read_index[g] <= e.idx
      BY <2>1, Zenon DEF PublishedElement
    <3> HIDE DEF e
    <3>2. CASE g = k
      BY <1>0, <1>2, <2>1, <2>2, <3>1, <3>2, PastReadIndex, Zenon
    <3>3. CASE g # k
      BY <1>2, <3>1, <3>3, Zenon
    <3> QED BY <3>2, <3>3, Zenon
  <2> QED BY <1>1, <2>1, <2>3, Zenon DEF PublishedElement, handleVars
<1>10. PollInv'
  BY <1>1, Zenon DEF PollInv
<1>11. EveryCommandPresent'
  <2> SUFFICES ASSUME NEW g \in Handle,
                      NEW i \in host_read_index'[QueueOf[g]] .. write_index[g] - 1
               PROVE  WithWave(g, i)' \/ InSlot(g, i)'
    BY <1>1, Zenon DEF EveryCommandPresent, handleVars
  <2>1. /\ i \in host_read_index[QueueOf[g]] .. write_index[g] - 1
        /\ ~ (QueueOf[g] = k /\ i = i0)
    BY <1>0, <1>2, SMT DEF TypeOK
  <2>2. WithWave(g, i) \/ InSlot(g, i)
    BY <1>7, <2>1, Zenon DEF IInv, EveryCommandPresent
  <2>3. CASE WithWave(g, i)
    BY <1>1, <1>6, <2>3, Zenon DEF WithWave, Idx
  <2>4. CASE InSlot(g, i)
    BY <1>1, <2>4, Zenon DEF InSlot
  <2> QED BY <2>2, <2>3, <2>4, Zenon
<1> QED BY <1>3, <1>4, <1>5, <1>8, <1>9, <1>10, <1>11, Zenon DEF IInv

\* A step of the transport: it has to do with q and the status bytes alone.
LEMMA TransportStepInv ==
  ASSUME IInv, UNCHANGED <<handleVars, queueVars, call, ops, pollVars>>,
         q' \in Seq(Request), status' \in [Addr -> {0, 1}]
  PROVE  IInv'
<1>1. TypeOK
  BY Zenon DEF IInv
<1>2. TypeOK'
  BY <1>1, Zenon DEF TypeOK, handleVars, queueVars, pollVars
<1>3. CallInv' /\ LockInv' /\ IndexInv'
  BY <1>1, Zenon DEF IInv, CallInv, LockInv, HoldsLock, IndexInv, Active, handleVars, queueVars
<1>4. OwnerInv' /\ ValidInv' /\ PollInv' /\ EveryCommandPresent'
  BY Frame, Zenon DEF Unpublished, Active, Idx, ElementOf, handleVars
<1> QED BY <1>2, <1>3, <1>4, Zenon DEF IInv

\* Serve is such a step.
LEMMA ServeInv ==
  ASSUME IInv, NEW i \in 1 .. Len(q), Serve(i)
  PROVE  IInv'
<1>1. UNCHANGED <<handleVars, queueVars, call, ops, pollVars>> /\ TypeOK
  BY Zenon DEF Serve, IInv
<1>2. q' \in Seq(Request)
  BY <1>1, SMTT(30) DEF Serve, TypeOK
<1>3. status' \in [Addr -> {0, 1}]
  BY <1>1, Zenon DEF Serve, Notify, TypeOK
<1> QED BY <1>1, <1>2, <1>3, TransportStepInv, Zenon

\* A step that changes nothing.
LEMMA StutterInv ==
  ASSUME IInv, UNCHANGED vars
  PROVE  IInv'
<1> USE DEF vars, handleVars, queueVars, pollVars
<1>1. TypeOK' /\ CallInv' /\ LockInv' /\ IndexInv'
  BY Zenon DEF IInv, TypeOK, CallInv, LockInv, HoldsLock, IndexInv, Active
<1>2. OwnerInv' /\ ValidInv' /\ PollInv' /\ EveryCommandPresent'
  BY Frame, Zenon DEF Unpublished, Active, Idx, ElementOf
<1> QED BY <1>1, <1>2, Zenon DEF IInv

-----------------------------------------------------------------------------
\* Every step of a wave, of the poll thread or of the transport preserves the
\* inductive invariant, as long as no two block handles share a queue.
LEMMA NextInv == PrivateQueues /\ IInv /\ [Next]_vars => IInv'
<1> SUFFICES ASSUME PrivateQueues, IInv, [Next]_vars PROVE IInv'
  BY Zenon
<1>1. ASSUME NEW w \in Wave,
             \/ AcquireLock(w) \/ RefreshReadIndex(w) \/ ReserveSlots(w)
             \/ ReleaseLock(w) \/ FillElements(w) \/ ResetStatus(w)
      PROVE  IInv'
  BY <1>1, AcquireLockInv, RefreshReadIndexInv, ReserveSlotsInv, ReleaseLockInv,
     FillElementsInv, ResetStatusInv, Zenon
<1>2. ASSUME NEW w \in Wave, NEW l \in Lane, Publish(w, l) \/ ObserveStatus(w, l)
      PROVE  IInv'
  BY <1>2, PublishInv, ObserveStatusInv, Zenon
<1>3. CASE Poll
  BY <1>3, CopyFlagInv, CopyPayloadInv, InsertRequestInv, ClearValidInv,
     IncrementReadIndexInv, Zenon DEF Poll
<1>4. CASE \E i \in 1 .. Len(q) : Serve(i)
  BY <1>4, ServeInv, Zenon
<1>5. CASE UNCHANGED vars
  BY <1>5, StutterInv, Zenon
<1> QED BY <1>1, <1>2, <1>3, <1>4, <1>5, Zenon DEF Next, GPU

\* The inductive invariant of the command queue holds for every number of
\* queues, slots, waves and lanes (build_queue_element against Queue::process).
THEOREM QueueInvariant ==
  ASSUME PrivateQueues
  PROVE  Spec => []IInv
<1>1. IInv /\ [Next]_vars => IInv'
  BY NextInv, PrivateQueues, Zenon
<1> QED BY <1>1, InitIInv, PTL DEF Spec

\* Whatever the poll thread hands to the transport is the command that
\* reserved the read index (copy_element_to_cache never sees a stale element).
THEOREM DeliveredInOrderThm ==
  ASSUME PrivateQueues
  PROVE  Spec => []DeliveredInOrder
<1>1. ASSUME IInv PROVE DeliveredInOrder
  <2> SUFFICES ASSUME pollAt = "insert"
               PROVE  /\ cache # Null
                      /\ cache.idx = host_read_index[pollQueue]
                      /\ QueueOf[cache.hnd] = pollQueue
    BY Zenon DEF DeliveredInOrder
  <2>1. /\ pollQueue \in Queue /\ valid[pollQueue][ReadSlot] = 1
        /\ cache = element[pollQueue][ReadSlot]
    BY <1>1, Zenon DEF IInv, PollInv, TypeOK
  <2> QED BY <1>1, <2>1, PrivateQueues, ReadElement, NullAssumption, Zenon DEF ReadSlot
<1>2. IInv => DeliveredInOrder
  BY <1>1, Zenon
<1> QED BY <1>2, QueueInvariant, PrivateQueues, PTL

\* enough_space works with a read index that lags, and still no more commands
\* are unread than the queue has slots.
THEOREM CapacityThm ==
  ASSUME PrivateQueues
  PROVE  Spec => []CapacityRespected
<1>1. ASSUME IInv PROVE CapacityRespected
  <2>1. \A h \in Handle : /\ QueueOf[h] \in Queue
                          /\ write_index[h] \in Nat /\ read_index[h] \in Nat
                          /\ host_read_index[QueueOf[h]] \in Nat
    BY <1>1, ConstantsAssumption, Zenon DEF IInv, TypeOK
  <2> QED BY <1>1, <2>1, ConstantsAssumption, SMT DEF IInv, IndexInv, CapacityRespected
<1>2. IInv => CapacityRespected
  BY <1>1, Zenon
<1> QED BY <1>2, QueueInvariant, PrivateQueues, PTL

\* No command that reserved an index is lost before Queue::process has handed
\* it to the transport.
THEOREM NoCommandLost ==
  ASSUME PrivateQueues
  PROVE  Spec => []EveryCommandPresent
<1>1. IInv => EveryCommandPresent
  BY Zenon DEF IInv
<1> QED BY <1>1, QueueInvariant, PrivateQueues, PTL

\* FillElements writes only where no flag is set.
LEMMA FillFresh ==
  ASSUME IInv, NEW w \in Wave, FillElements(w), NEW k \in Queue, NEW s \in Slot, element'[k][s] # element[k][s]
  PROVE  valid[k][s] = 0
<1>1. /\ TypeOK /\ MyQueue(w) \in Queue
      /\ Unpublished(w) = Active(w) /\ OwnerInv
  BY HandleOfType, Zenon DEF IInv, FillElements, Unpublished
<1>2. k = MyQueue(w) /\ \E l \in Active(w) : s = SlotOf(call[w].base + l)
  <2> DEFINE mine == {SlotOf(call[w].base + l) : l \in Active(w)}
             new == [t \in Slot |-> IF t \in mine THEN ElementOf(w, LaneOfSlot(w, t))
                                                 ELSE element[MyQueue(w)][t]]
  <2>1. element' = [element EXCEPT ![MyQueue(w)] = new] /\ element \in [Queue -> [Slot -> Element \union {Null}]]
    BY <1>1, Zenon DEF FillElements, TypeOK
  <2>2. new[s] = IF s \in mine THEN ElementOf(w, LaneOfSlot(w, s))
                               ELSE element[MyQueue(w)][s]
    BY Zenon
  <2> HIDE DEF new
  <2>3. k = MyQueue(w) /\ new[s] # element[MyQueue(w)][s]
    BY <1>1, <2>1, Zenon
  <2>4. s \in mine
    BY <2>2, <2>3, Zenon
  <2> QED BY <2>3, <2>4, Zenon
<1> QED BY <1>1, <1>2 DEF OwnerInv, OwnedSlot, Idx

\* build_queue_element never writes into an element the CPU has not consumed.
THEOREM NoOverwriteThm ==
  ASSUME PrivateQueues
  PROVE  Spec => NoOverwrite
<1> DEFINE Step == \A k \in Queue : \A s \in Slot :
                     element'[k][s] # element[k][s] => valid[k][s] = 0
<1>1. ASSUME IInv, [Next]_vars, ~ UNCHANGED vars PROVE Step
  <2> SUFFICES ASSUME NEW k \in Queue, NEW s \in Slot, element'[k][s] # element[k][s]
               PROVE  valid[k][s] = 0
    BY Zenon
  <2>1. PICK w \in Wave : FillElements(w)
    BY <1>1, Zenon DEF Next, GPU, Poll, AcquireLock, RefreshReadIndex, ReserveSlots,
       ReleaseLock, Publish, ObserveStatus, ResetStatus, CopyFlag, CopyPayload,
       InsertRequest, ClearValid, IncrementReadIndex, Serve, queueVars
  <2> QED BY <1>1, <2>1, FillFresh, Zenon
<1>2. IInv /\ [Next]_vars => [Step]_vars
  BY <1>1, Zenon
<1>3. Spec => [][Step]_vars
  BY <1>2, QueueInvariant, PrivateQueues, PTL DEF Spec
<1> QED BY <1>3, Zenon DEF NoOverwrite

-----------------------------------------------------------------------------
(***************************************************************************)
(* The refinement of RoFifo.                                               *)
(***************************************************************************)

\* A function on 1 .. n is a sequence of length n.
LEMMA ListOfFunction ==
  ASSUME NEW S, NEW n \in Nat, NEW f \in [1 .. n -> S]
  PROVE  f \in Seq(S) /\ Len(f) = n
BY SMT

\* A sequence that goes on like s starts with s.
LEMMA LongerList ==
  ASSUME NEW S, NEW s \in Seq(S), NEW t \in Seq(S), NEW n \in Nat, Len(t) = Len(s) + n,
         \A j \in 1 .. Len(s) : t[j] = s[j]
  PROVE  SubSeq(t, 1, Len(s)) = s
BY SMT

\* A sequence that lacks only the first element of s is the tail of s.
LEMMA ShorterList ==
  ASSUME NEW S, NEW s \in Seq(S), NEW t \in Seq(S), Len(s) = Len(t) + 1,
         \A j \in 1 .. Len(t) : t[j] = s[j + 1]
  PROVE  s # <<>> /\ Head(s) = s[1] /\ t = Tail(s)
BY SMT

\* At most the command that the poll thread is at lies between the read index
\* and the first pending one, and it has been written.
LEMMA FirstPendingRange ==
  ASSUME IInv, PrivateQueues, NEW h \in Handle
  PROVE  /\ FirstPending(h) \in Nat /\ write_index[h] \in Nat
         /\ host_read_index[QueueOf[h]] \in Nat
         /\ host_read_index[QueueOf[h]] <= FirstPending(h)
         /\ FirstPending(h) <= write_index[h]
         /\ write_index[h] - FirstPending(h) \in 0 .. QUEUE_SIZE
<1> DEFINE k == QueueOf[h]
<1>1. /\ k \in Queue /\ host_read_index[k] \in Nat /\ write_index[h] \in Nat
      /\ read_index[h] \in Nat /\ QUEUE_SIZE \in Nat
  BY ConstantsAssumption, Zenon DEF IInv, TypeOK
<1>2. /\ read_index[h] <= host_read_index[k] /\ host_read_index[k] <= write_index[h]
      /\ write_index[h] - read_index[h] <= QUEUE_SIZE
  BY Zenon DEF IInv, IndexInv
<1>3. CASE ~ (pollQueue = k /\ pollAt \in {"clear", "advance"})
  <2>1. FirstPending(h) = host_read_index[k] + 0
    BY <1>3, Zenon DEF FirstPending
  <2> QED BY <1>1, <1>2, <2>1, SMT
<1>4. CASE pollQueue = k /\ pollAt \in {"clear", "advance"}
  <2>1. FirstPending(h) = host_read_index[k] + 1
    BY <1>4, Zenon DEF FirstPending
  <2>2. host_read_index[k] < write_index[h]
    <3>1. CASE pollAt = "advance"
      BY <1>4, <3>1, Zenon DEF IInv, PollInv
    <3>2. CASE pollAt = "clear"
      <4>1. valid[k][SlotOf(host_read_index[k])] = 1
        BY <1>4, <3>2, Zenon DEF IInv, PollInv, ReadSlot
      <4>2. PICK e : e = element[k][SlotOf(host_read_index[k])]
        BY Zenon
      <4>3. e \in Element /\ QueueOf[e.hnd] = k /\ e.idx = host_read_index[k]
        BY <1>1, <4>1, <4>2, ReadElement, Zenon
      <4>4. SlotOf(host_read_index[k]) \in Slot
        BY <1>1, SlotOfType, Zenon
      <4>5. e.idx < write_index[e.hnd]
        BY <1>1, <4>1, <4>2, <4>4, Zenon DEF IInv, ValidInv, PublishedElement
      <4>6. e.hnd = h
        BY <4>3, Zenon DEF PrivateQueues, Element
      <4> QED BY <4>3, <4>5, <4>6, Zenon
    <3> QED BY <1>4, <3>1, <3>2, Zenon
  <2> QED BY <1>1, <1>2, <2>1, <2>2, SMT
<1> QED BY <1>3, <1>4, Zenon

\* The list of pending commands, index by index.
LEMMA PendingList ==
  ASSUME IInv, PrivateQueues, NEW h \in Handle
  PROVE  /\ Len(PendingOf(h)) = write_index[h] - FirstPending(h)
         /\ PendingOf(h) \in Seq({CommandAt(h, i) : i \in Int})
         /\ \A j \in 1 .. write_index[h] - FirstPending(h) :
              PendingOf(h)[j] = CommandAt(h, FirstPending(h) + j - 1)
<1> DEFINE n == write_index[h] - FirstPending(h)
           S == {CommandAt(h, i) : i \in Int}
<1>1. n \in Nat /\ FirstPending(h) \in Nat
  BY FirstPendingRange, SMT
<1>2. \A j \in 1 .. n : FirstPending(h) + j - 1 \in Int
  BY <1>1, SMT
<1> HIDE DEF n
<1>3. PendingOf(h) = [j \in 1 .. n |-> CommandAt(h, FirstPending(h) + j - 1)]
  BY Zenon DEF PendingOf, n
<1>4. PendingOf(h) \in [1 .. n -> S]
  BY <1>2, <1>3, Zenon
<1>5. PendingOf(h) \in Seq(S) /\ Len(PendingOf(h)) = n
  BY <1>1, <1>4, ListOfFunction, Zenon
<1> QED BY <1>3, <1>5, Zenon DEF n

\* Nobody else has the index a wave holds.
LEMMA OneHolder ==
  ASSUME IInv, NEW h \in Handle, NEW i \in Nat, NEW w \in Holders(h, i)
  PROVE  \E l \in Active(w) :
           /\ l = i - call[w].base /\ Idx(w, l) = i /\ l \in Unpublished(w) /\ l \in Lane
           /\ w \in Wave /\ HandleOf[w] = h /\ OwnedSlot(w, l) /\ Holders(h, i) = {w}
<1>1. ASSUME NEW v \in Holders(h, i)
      PROVE  /\ v \in Wave /\ HandleOf[v] = h /\ call[v].at \in {"unlock", "fill"}
             /\ \E m \in Active(v) : /\ m = i - call[v].base /\ Idx(v, m) = i
                                     /\ m \in Unpublished(v) /\ m \in Lane
  <2>1. /\ v \in Wave /\ HandleOf[v] = h /\ call[v].at \in {"unlock", "fill"}
        /\ i - call[v].base \in Active(v)
    BY Zenon DEF Holders
  <2>2. PICK m \in Active(v) : m = i - call[v].base
    BY <2>1, Zenon
  <2>3. call[v].base \in Nat
    BY <2>1, Zenon DEF IInv, TypeOK, Call
  <2>4. Idx(v, m) = i
    BY <2>2, <2>3, SMT DEF Idx
  <2>5. Unpublished(v) = Active(v)
    BY <2>1, Zenon DEF Unpublished
  <2>6. m \in Lane
    BY <2>1, <2>5, UnpublishedLanes, Zenon DEF IInv
  <2> QED BY <2>1, <2>2, <2>4, <2>5, <2>6, Zenon
<1>2. \A v \in Holders(h, i) : v = w
  <2> SUFFICES ASSUME NEW v \in Holders(h, i) PROVE v = w
    BY Zenon
  <2>1. PICK m \in Active(v) : Idx(v, m) = i /\ m \in Unpublished(v)
    BY <1>1, Zenon
  <2>2. PICK l \in Active(w) : Idx(w, l) = i /\ l \in Unpublished(w)
    BY <1>1, Zenon
  <2>3. v \in Wave /\ w \in Wave /\ HandleOf[v] = HandleOf[w]
    BY <1>1, Zenon
  <2> QED BY <2>1, <2>2, <2>3, Zenon DEF IInv, OwnerInv
<1>3. Holders(h, i) = {w}
  BY <1>2, Zenon
<1>4. PICK l \in Active(w) : l = i - call[w].base /\ Idx(w, l) = i /\ l \in Unpublished(w) /\ l \in Lane
  BY <1>1, Zenon
<1>5. w \in Wave /\ HandleOf[w] = h /\ OwnedSlot(w, l)
  BY <1>1, <1>4, Zenon DEF IInv, OwnerInv
<1> QED BY <1>3, <1>4, <1>5, Zenon

\* The command with a wave is the one the wave is going to write.
LEMMA HeldCommand ==
  ASSUME NEW h, NEW i, NEW w, Holders(h, i) = {w}
  PROVE  CommandAt(h, i) = ElementOf(w, i - call[w].base)
<1>1. (CHOOSE v \in Holders(h, i) : TRUE) = w
  BY Zenon
<1> QED BY <1>1, Zenon DEF CommandAt

LEMMA WrittenCommand ==
  ASSUME NEW h, NEW i, Holders(h, i) = {}
  PROVE  CommandAt(h, i) = element[QueueOf[h]][SlotOf(i)]
BY Zenon DEF CommandAt

\* A step after which every pending command is where it was, as far as the
\* promise goes.
LEMMA PendingKept ==
  ASSUME write_index' = write_index, NEW h \in Handle, FirstPending(h)' = FirstPending(h),
         \A i \in FirstPending(h) .. write_index[h] - 1 : CommandAt(h, i)' = CommandAt(h, i),
         FirstPending(h) \in Nat, write_index[h] \in Nat
  PROVE  PendingOf(h)' = PendingOf(h)
<1>1. PICK f \in Nat : f = FirstPending(h)
  BY Zenon
<1>2. PICK n : n = write_index[h] - FirstPending(h)
  BY Zenon
<1>3. \A j \in 1 .. n : f + j - 1 \in f .. write_index[h] - 1
  BY <1>1, <1>2, SMT
<1>4. \A j \in 1 .. n : CommandAt(h, f + j - 1)' = CommandAt(h, f + j - 1)
  BY <1>1, <1>3, Zenon
<1>5. PendingOf(h) = [j \in 1 .. n |-> CommandAt(h, f + j - 1)]
  BY <1>1, <1>2, Zenon DEF PendingOf
<1>6. PendingOf(h)' = [j \in 1 .. n |-> CommandAt(h, f + j - 1)']
  BY <1>1, <1>2, Zenon DEF PendingOf
<1> QED BY <1>4, <1>5, <1>6, Zenon

\* A command stays what it is while its holder and its slot stay the same.
LEMMA CommandKept ==
  ASSUME NEW h, NEW i, Holders(h, i)' = Holders(h, i),
         \A w \in Holders(h, i) : call'[w].base = call[w].base /\ call'[w].cmd = call[w].cmd,
         Holders(h, i) = {} => element'[QueueOf[h]][SlotOf(i)] = element[QueueOf[h]][SlotOf(i)]
  PROVE  CommandAt(h, i)' = CommandAt(h, i)
<1>1. CASE Holders(h, i) = {}
  BY <1>1, Zenon DEF CommandAt
<1>2. CASE Holders(h, i) # {}
  <2>1. PICK w : w = CHOOSE v \in Holders(h, i) : TRUE
    BY Zenon
  <2>2. w \in Holders(h, i)
    BY <1>2, <2>1, Zenon
  <2>3. w = (CHOOSE v \in Holders(h, i) : TRUE)'
    BY <2>1, Zenon
  <2>4. CommandAt(h, i) = ElementOf(w, i - call[w].base)
    BY <1>2, <2>1, Zenon DEF CommandAt
  <2>5. CommandAt(h, i)' = ElementOf(w, i - call[w].base)'
    BY <1>2, <2>3, Zenon DEF CommandAt
  <2>6. ElementOf(w, i - call[w].base)' = ElementOf(w, i - call[w].base)
    BY <2>2, Zenon DEF ElementOf
  <2> QED BY <2>4, <2>5, <2>6, Zenon
<1> QED BY <1>1, <1>2, Zenon

\* The abstract state.
PromiseKept == \A h \in Handle : PendingOf(h)' = PendingOf(h)

\* A step of one wave that neither reserves nor writes.
LEMMA CallPromise ==
  ASSUME IInv, PrivateQueues, NEW w \in Wave,
         UNCHANGED <<write_index, element, host_read_index, pollVars>>,
         \A v \in Wave \ {w} : call'[v] = call[v],
         \/ call[w].at \notin {"unlock", "fill"} /\ call'[w].at \notin {"unlock", "fill"}
         \/ /\ call[w].at \in {"unlock", "fill"} /\ call'[w].at \in {"unlock", "fill"}
            /\ call'[w].lanes = call[w].lanes /\ call'[w].base = call[w].base
            /\ call'[w].cmd = call[w].cmd
  PROVE  PromiseKept
<1> SUFFICES ASSUME NEW h \in Handle PROVE PendingOf(h)' = PendingOf(h)
  BY Zenon DEF PromiseKept
<1>1. ASSUME NEW i PROVE CommandAt(h, i)' = CommandAt(h, i)
  <2>1. \A v \in Wave : v \in Holders(h, i)' <=> v \in Holders(h, i)
    BY Zenon DEF Holders, Active
  <2>2. Holders(h, i)' = Holders(h, i)
    BY <2>1, Zenon DEF Holders
  <2>3. \A v \in Holders(h, i) : call'[v].base = call[v].base /\ call'[v].cmd = call[v].cmd
    BY Zenon DEF Holders
  <2> QED BY <2>2, <2>3, CommandKept, Zenon
<1>2. FirstPending(h)' = FirstPending(h)
  BY Zenon DEF FirstPending, pollVars
<1>3. FirstPending(h) \in Nat /\ write_index[h] \in Nat
  BY FirstPendingRange, Zenon
<1> QED BY <1>1, <1>2, <1>3, PendingKept, Zenon

\* The lock, the flags and the status bytes are no part of the promise.
LEMMA QuietCallSteps ==
  ASSUME IInv, PrivateQueues, NEW w \in Wave,
         \/ AcquireLock(w) \/ RefreshReadIndex(w) \/ ReleaseLock(w) \/ ResetStatus(w)
         \/ \E l \in Lane : Publish(w, l) \/ ObserveStatus(w, l)
  PROVE  PromiseKept /\ UNCHANGED <<write_index, q>>
<1>0. call \in [Wave -> Call] /\ call[w] \in Call
  BY Zenon DEF IInv, TypeOK
<1> USE DEF handleVars, queueVars
<1>1. UNCHANGED <<write_index, element, host_read_index, pollVars, q>>
  BY Zenon DEF AcquireLock, RefreshReadIndex, ReleaseLock, ResetStatus, Publish, ObserveStatus
<1>2. CASE AcquireLock(w)
  <2>1. PICK n \in 1 .. WaveSize, c \in Cmd : call' = [call EXCEPT ![w] = Locals("space", c, n, 0, {})]
    BY <1>2, Zenon DEF AcquireLock
  <2>2. call'[w].at = "space" /\ call[w].at = "idle" /\ \A v \in Wave \ {w} : call'[v] = call[v]
    BY <1>0, <1>2, <2>1, Zenon DEF Locals, AcquireLock
  <2> QED BY <1>1, <2>2, CallPromise
<1>3. CASE RefreshReadIndex(w)
  <2>1. call' = call /\ call[w].at = "space"
    BY <1>3, Zenon DEF RefreshReadIndex
  <2> QED BY <1>1, <2>1, CallPromise
<1>4. CASE ReleaseLock(w)
  <2>1. call' = [call EXCEPT ![w].at = "fill"] /\ call[w].at = "unlock"
    BY <1>4, Zenon DEF ReleaseLock
  <2>2. /\ call'[w].at = "fill" /\ \A v \in Wave \ {w} : call'[v] = call[v]
        /\ call'[w].lanes = call[w].lanes /\ call'[w].base = call[w].base
        /\ call'[w].cmd = call[w].cmd
    BY <1>0, <2>1, SMT DEF Call
  <2> QED BY <1>1, <2>1, <2>2, CallPromise
<1>5. CASE ResetStatus(w)
  <2>1. call'[w].at = "idle" /\ call[w].at = "wait" /\ \A v \in Wave \ {w} : call'[v] = call[v]
    BY <1>0, <1>5, Zenon DEF NoCall, Locals, ResetStatus
  <2> QED BY <1>1, <2>1, CallPromise
<1>6. ASSUME NEW l \in Lane, Publish(w, l) PROVE PromiseKept
  <2>1. PICK c : call' = [call EXCEPT ![w] = c] /\ c.at \in {"publish", "wait", "idle"}
    <3>1. CASE call' = [call EXCEPT ![w].todo = @ \ {l}]
      <4>1. call[w].at = "publish"
        BY <1>6, Zenon DEF Publish
      <4>2. PICK c : c = [call[w] EXCEPT !.todo = @ \ {l}]
        BY Zenon
      <4>3. c.at = "publish"
        BY <1>0, <4>1, <4>2, SMT DEF Call
      <4> QED BY <3>1, <4>2, <4>3, Zenon
    <3>2. CASE call' = [call EXCEPT ![w] = AfterPublish(w)]
      <4>1. AfterPublish(w).at \in {"publish", "wait", "idle"}
        BY Zenon DEF AfterPublish, NoCall, Locals
      <4> QED BY <3>2, <4>1, Zenon
    <3> QED BY <1>6, <3>1, <3>2, Zenon DEF Publish
  <2>2. /\ call'[w].at \in {"publish", "wait", "idle"} /\ call[w].at = "publish"
        /\ \A v \in Wave \ {w} : call'[v] = call[v]
    BY <1>0, <1>6, <2>1, Zenon DEF Publish
  <2> QED BY <1>1, <2>2, CallPromise
<1>7. ASSUME NEW l \in Lane, ObserveStatus(w, l) PROVE PromiseKept
  <2>1. /\ call[w].at = "wait" /\ call' = [call EXCEPT ![w].todo = @ \ {l}]
    BY <1>7, Zenon DEF ObserveStatus
  <2>2. call'[w].at = "wait" /\ \A v \in Wave \ {w} : call'[v] = call[v]
    BY <1>0, <2>1, SMT DEF Call
  <2> QED BY <1>1, <2>1, <2>2, CallPromise
<1> QED BY <1>1, <1>2, <1>3, <1>4, <1>5, <1>6, <1>7, Zenon

\* The poll thread does nothing to the promise but insertRequest.
LEMMA QuietPollSteps ==
  ASSUME IInv, PrivateQueues, CopyFlag \/ CopyPayload \/ ClearValid \/ IncrementReadIndex
  PROVE  PromiseKept /\ UNCHANGED <<write_index, q>>
<1> USE DEF handleVars, queueVars
<1>1. UNCHANGED <<write_index, element, call, q>>
  BY Zenon DEF CopyFlag, CopyPayload, ClearValid, IncrementReadIndex
<1>2. ASSUME NEW h \in Handle PROVE FirstPending(h)' = FirstPending(h)
  <2> DEFINE k == QueueOf[h]
  <2>1. k \in Queue /\ host_read_index[k] \in Nat /\ host_read_index \in [Queue -> Nat] /\ pollQueue \in Queue
    BY <1>2, ConstantsAssumption, Zenon DEF IInv, TypeOK
  <2>2. CASE CopyFlag \/ CopyPayload
    BY <2>2, Zenon DEF FirstPending, CopyFlag, CopyPayload
  <2>3. CASE ClearValid
    BY <2>3, Zenon DEF FirstPending, ClearValid
  <2>4. CASE IncrementReadIndex
    <3>1. /\ pollAt = "advance" /\ pollAt' = "flag"
          /\ host_read_index' = [host_read_index EXCEPT ![pollQueue] = @ + 1]
      BY <2>4, Zenon DEF IncrementReadIndex
    <3>2. FirstPending(h)' = host_read_index'[k] + 0
      BY <3>1, Zenon DEF FirstPending
    <3>3. CASE pollQueue = k
      <4>1. FirstPending(h) = host_read_index[k] + 1
        BY <3>1, <3>3, Zenon DEF FirstPending
      <4>2. host_read_index'[k] = host_read_index[k] + 1
        BY <2>1, <3>1, <3>3, Zenon
      <4> QED BY <2>1, <3>2, <4>1, <4>2, SMT
    <3>4. CASE pollQueue # k
      <4>1. FirstPending(h) = host_read_index[k] + 0
        BY <3>4, Zenon DEF FirstPending
      <4>2. host_read_index'[k] = host_read_index[k]
        BY <2>1, <3>1, <3>4, Zenon
      <4> QED BY <3>2, <4>1, <4>2, Zenon
    <3> QED BY <3>3, <3>4, Zenon
  <2> QED BY <2>2, <2>3, <2>4, Zenon
<1>3. ASSUME NEW h, NEW i PROVE CommandAt(h, i)' = CommandAt(h, i)
  <2>1. Holders(h, i)' = Holders(h, i)
    BY <1>1, Zenon DEF Holders, Active
  <2> QED BY <1>1, <2>1, CommandKept, Zenon
<1>4. ASSUME NEW h \in Handle PROVE PendingOf(h)' = PendingOf(h)
  <2>1. FirstPending(h) \in Nat /\ write_index[h] \in Nat
    BY <1>4, FirstPendingRange, Zenon
  <2> QED BY <1>1, <1>2, <1>3, <1>4, <2>1, PendingKept, Zenon
<1> QED BY <1>1, <1>4, Zenon DEF PromiseKept

\* A command that moves from its wave into its slot stays the same, and no
\* other pending command is in one of the slots that are written.
LEMMA FillPromise ==
  ASSUME IInv, PrivateQueues, NEW w \in Wave, FillElements(w)
  PROVE  PromiseKept /\ UNCHANGED <<write_index, q>>
<1> USE DEF handleVars, pollVars
<1> DEFINE k == MyQueue(w)
           mine == {SlotOf(call[w].base + l) : l \in Active(w)}
           new(s) == ElementOf(w, LaneOfSlot(w, s))
<1>0. k \in Queue /\ HandleOf[w] \in Handle /\ TypeOK /\ IndexInv /\ OwnerInv
  BY HandleOfType, Zenon DEF IInv
<1>1. /\ call[w].at = "fill" /\ Unpublished(w) = Active(w)
      /\ UNCHANGED <<write_index, host_read_index, pollQueue, pollAt, q>>
      /\ element' = [element EXCEPT ![k] = [s \in Slot |-> IF s \in mine THEN new(s) ELSE @[s]]]
      /\ call' = [call EXCEPT ![w] =
                    Locals("publish", call[w].cmd, call[w].lanes, call[w].base, Active(w))]
  BY Zenon DEF FillElements, Unpublished
<1>2. \A v \in Wave \ {w} : call'[v] = call[v]
  BY <1>0, <1>1, Zenon DEF TypeOK
<1>3. call'[w].at = "publish"
  BY <1>0, <1>1, Zenon DEF TypeOK, Locals
<1> HIDE DEF new
<1>4. /\ \A g \in Queue : g # k => element'[g] = element[g]
      /\ \A s \in Slot : element'[k][s] = IF s \in mine THEN new(s) ELSE element[k][s]
  BY <1>0, <1>1, Zenon DEF TypeOK
<1>5. ASSUME NEW l \in Active(w) PROVE element'[k][SlotOf(Idx(w, l))] = ElementOf(w, l)
  <2>1. \A m \in Active(w) : SlotOf(Idx(w, m)) = SlotOf(Idx(w, l)) => m = l
    BY <1>1, <1>5, OwnersApart
  <2>2. LaneOfSlot(w, SlotOf(Idx(w, l))) = l
    BY <1>5, <2>1, Zenon DEF LaneOfSlot, Idx
  <2>3. SlotOf(Idx(w, l)) \in mine
    BY <1>5, Zenon DEF Idx
  <2>4. SlotOf(Idx(w, l)) \in Slot
    BY <1>1, <1>5, UnpublishedLanes, SlotOfType, Zenon DEF IInv
  <2> QED BY <1>4, <2>2, <2>3, <2>4, Zenon DEF new
<1>6. ASSUME NEW h \in Handle, NEW i \in Nat, host_read_index[QueueOf[h]] <= i, i < write_index[h]
      PROVE  CommandAt(h, i)' = CommandAt(h, i)
  <2>1. SlotOf(i) \in Slot /\ QueueOf[h] \in Queue
    BY SlotOfType, ConstantsAssumption, Zenon
  <2>2. \A v \in Wave : v \in Holders(h, i)' <=> v \in Holders(h, i) /\ v # w
    BY <1>2, <1>3, Zenon DEF Holders, Active
  <2>3. CASE w \in Holders(h, i)
    <3>1. PICK l \in Active(w) : /\ l = i - call[w].base /\ Idx(w, l) = i
                                 /\ HandleOf[w] = h /\ Holders(h, i) = {w}
      BY <2>3, OneHolder, Zenon
    <3>2. Holders(h, i)' = {}
      BY <2>2, <3>1, Zenon DEF Holders
    <3>3. CommandAt(h, i) = ElementOf(w, l)
      BY <3>1, HeldCommand, Zenon
    <3>4. CommandAt(h, i)' = element'[QueueOf[h]][SlotOf(i)]
      BY <3>2, Zenon DEF CommandAt
    <3> QED BY <1>5, <3>1, <3>3, <3>4, Zenon DEF MyQueue
  <2>4. CASE w \notin Holders(h, i)
    <3>1. Holders(h, i)' = Holders(h, i)
      BY <2>2, <2>4, Zenon DEF Holders
    <3>2. \A v \in Holders(h, i) : call'[v].base = call[v].base /\ call'[v].cmd = call[v].cmd
      BY <1>2, <2>4, Zenon DEF Holders
    <3>3. element'[QueueOf[h]][SlotOf(i)] = element[QueueOf[h]][SlotOf(i)]
      <4>1. CASE QueueOf[h] # k
        BY <1>4, <2>1, <4>1, Zenon
      <4>2. CASE QueueOf[h] = k
        <5>1. h = HandleOf[w]
          BY <1>0, <1>6, <4>2, Zenon DEF PrivateQueues, MyQueue
        <5>2. ASSUME NEW l \in Active(w), SlotOf(i) = SlotOf(Idx(w, l)) PROVE FALSE
          <6>1. /\ host_read_index[QueueOf[h]] <= Idx(w, l) /\ Idx(w, l) < write_index[h]
            BY <1>0, <1>1, <5>1, <5>2, Zenon DEF OwnerInv, OwnedSlot, MyQueue
          <6>2. Idx(w, l) \in Nat
            BY <1>1, <5>2, UnpublishedLanes, Zenon DEF IInv
          <6>3. i = Idx(w, l)
            BY <1>0, <1>6, <5>2, <6>1, <6>2, WindowInjective, Zenon
          <6>4. call[w].base \in Nat /\ call[w].lanes \in 0 .. WaveSize
            BY <1>0, Zenon DEF TypeOK, Call
          <6>5. l \in Int
            BY <5>2, <6>4, SMT DEF Active
          <6>6. i - call[w].base = l
            BY <6>3, <6>4, <6>5, SMT DEF Idx
          <6>7. w \in Holders(h, i)
            BY <1>1, <5>1, <5>2, <6>6, Zenon DEF Holders
          <6> QED BY <2>4, <6>7, Zenon
        <5>3. SlotOf(i) \notin mine
          BY <5>2, Zenon DEF Idx
        <5> QED BY <1>4, <2>1, <4>2, <5>3, Zenon
      <4> QED BY <4>1, <4>2, Zenon
    <3> QED BY <3>1, <3>2, <3>3, CommandKept, Zenon
  <2> QED BY <2>3, <2>4, Zenon
<1>7. ASSUME NEW h \in Handle PROVE PendingOf(h)' = PendingOf(h)
  <2>1. /\ FirstPending(h) \in Nat /\ write_index[h] \in Nat /\ host_read_index[QueueOf[h]] \in Nat
        /\ host_read_index[QueueOf[h]] <= FirstPending(h)
    BY <1>7, FirstPendingRange, Zenon
  <2>2. \A i \in FirstPending(h) .. write_index[h] - 1 :
          i \in Nat /\ host_read_index[QueueOf[h]] <= i /\ i < write_index[h]
    BY <2>1, SMT
  <2>3. \A i \in FirstPending(h) .. write_index[h] - 1 : CommandAt(h, i)' = CommandAt(h, i)
    BY <1>6, <1>7, <2>2, Zenon
  <2>4. FirstPending(h)' = FirstPending(h)
    BY <1>1, Zenon DEF FirstPending
  <2> QED BY <1>1, <1>7, <2>1, <2>3, <2>4, PendingKept, Zenon
<1> QED BY <1>1, <1>7, Zenon DEF PromiseKept

\* The loop of wait_until_space_available ends: the commands of the lanes are
\* appended to what is pending, with the next indices.
LEMMA ReservePromise ==
  ASSUME IInv, IInv', PrivateQueues, NEW w \in Wave, ReserveSlots(w)
  PROVE  \E n \in 1 .. WaveSize : Fifo!Submit(HandleOf[w], n)
<1> USE DEF handleVars, queueVars, pollVars
<1>0. PICK h \in Handle : h = HandleOf[w]
  BY HandleOfType, Zenon
<1>1. PICK n : n = call[w].lanes
  BY Zenon
<1>2. PICK W \in Nat, f \in Nat : W = write_index[h] /\ f = FirstPending(h)
  BY FirstPendingRange, Zenon
<1>3. /\ n \in 1 .. WaveSize /\ call[w] \in Call /\ call[w].at = "space"
  <2>1. call[w] \in Call /\ call[w].at = "space" /\ call[w].lanes \in 0 .. WaveSize
    BY Zenon DEF IInv, TypeOK, Call, ReserveSlots
  <2>2. n >= 1
    BY <1>1, <2>1, Zenon DEF IInv, CallInv
  <2> QED BY <1>1, <2>1, <2>2, ConstantsAssumption, SMT
<1>4. /\ call' = [call EXCEPT ![w] = Locals("unlock", call[w].cmd, n, W, {})]
      /\ write_index' = [write_index EXCEPT ![h] = @ + n]
      /\ UNCHANGED <<element, host_read_index, pollQueue, pollAt, q>>
      /\ EnoughSpace(h, n)
  BY <1>0, <1>1, <1>2, Zenon DEF ReserveSlots
<1>5. /\ call'[w].at = "unlock" /\ call'[w].lanes = n /\ call'[w].base = W
      /\ \A v \in Wave \ {w} : call'[v] = call[v]
  BY <1>4, Zenon DEF IInv, TypeOK, Locals
<1>6. write_index'[h] = W + n /\ \A g \in Handle \ {h} : write_index'[g] = write_index[g]
  BY <1>2, <1>4, Zenon DEF IInv, TypeOK
<1>7. \A g : FirstPending(g)' = FirstPending(g)
  BY <1>4, Zenon DEF FirstPending
<1>8. ASSUME NEW g \in Handle, NEW i \in Nat, i < write_index[g]
      PROVE  CommandAt(g, i)' = CommandAt(g, i)
  <2>1. w \notin Holders(g, i)
    BY <1>3, Zenon DEF Holders
  <2>2. w \notin Holders(g, i)'
    <3> SUFFICES ASSUME g = h, i - W \in 0 .. n - 1 PROVE FALSE
      BY <1>0, <1>5, Zenon DEF Holders, Active
    <3> QED BY <1>2, <1>3, <1>8, SMT
  <2>3. \A v \in Wave : v \in Holders(g, i)' <=> v \in Holders(g, i)
    BY <1>5, <2>1, <2>2, Zenon DEF Holders, Active
  <2>4. Holders(g, i)' = Holders(g, i)
    BY <2>3, Zenon DEF Holders
  <2>5. \A v \in Holders(g, i) : call'[v].base = call[v].base /\ call'[v].cmd = call[v].cmd
    BY <1>5, <2>1, Zenon DEF Holders
  <2> QED BY <1>4, <2>4, <2>5, CommandKept, Zenon
<1>9. ASSUME NEW g \in Handle \ {h} PROVE PendingOf(g)' = PendingOf(g)
  <2>1. PICK x \in Nat, W1 \in Nat : x = FirstPending(g) /\ W1 = write_index[g]
    BY <1>9, FirstPendingRange, Zenon
  <2>2. \A j \in 1 .. W1 - x : x + j - 1 \in Nat /\ x + j - 1 < W1
    BY <2>1, SMT
  <2>3. \A j \in 1 .. W1 - x : CommandAt(g, x + j - 1)' = CommandAt(g, x + j - 1)
    BY <1>8, <1>9, <2>1, <2>2, Zenon
  <2>4. PendingOf(g) = [j \in 1 .. W1 - x |-> CommandAt(g, x + j - 1)]
    BY <2>1, Zenon DEF PendingOf
  <2>5. PendingOf(g)' = [j \in 1 .. W1 - x |-> CommandAt(g, x + j - 1)']
    BY <1>6, <1>7, <1>9, <2>1, Zenon DEF PendingOf
  <2> QED BY <2>3, <2>4, <2>5, Zenon
<1>10. ASSUME NEW i \in W .. W + n - 1
       PROVE  CommandAt(h, i)'.hnd = h /\ CommandAt(h, i)'.idx = i
  <2>1. i - W \in 0 .. n - 1 /\ i \in Int
    BY <1>2, <1>3, <1>10, SMT
  <2>2. w \in Holders(h, i)'
    BY <1>0, <1>5, <2>1, Zenon DEF Holders, Active
  <2>3. PICK v : v = CHOOSE u \in Holders(h, i)' : TRUE
    BY Zenon
  <2>4. v \in Holders(h, i)'
    BY <2>2, <2>3, Zenon
  <2>5. v \in Wave /\ HandleOf[v] = h
    BY <2>4, Zenon DEF Holders
  <2>6. PICK b \in Nat : b = call'[v].base
    BY <2>5, Zenon DEF IInv, TypeOK, Call
  <2>7. CommandAt(h, i)' = ElementOf(v, i - b)'
    BY <2>2, <2>3, <2>6, Zenon DEF CommandAt
  <2>8. ElementOf(v, i - b)'.hnd = HandleOf[v] /\ ElementOf(v, i - b)'.idx = b + (i - b)
    BY <2>6, Zenon DEF ElementOf
  <2>9. b + (i - b) = i
    BY <2>1, <2>6, SMT
  <2> QED BY <2>5, <2>7, <2>8, <2>9, Zenon
<1>11. /\ f <= W /\ (W - f) + n <= QUEUE_SIZE /\ W - f \in Nat /\ n \in Nat
  <2>1. /\ host_read_index[QueueOf[h]] \in Nat /\ host_read_index[QueueOf[h]] <= f /\ f <= W
    BY <1>2, FirstPendingRange, Zenon
  <2>2. read_index[h] <= host_read_index[QueueOf[h]] /\ read_index[h] \in Nat
    BY Zenon DEF IInv, IndexInv, TypeOK
  <2>3. QUEUE_SIZE - (W - read_index[h]) >= n
    BY <1>2, <1>4, Zenon DEF EnoughSpace
  <2> QED BY <1>2, <1>3, <2>1, <2>2, <2>3, ConstantsAssumption, SMT
<1> DEFINE S == {CommandAt(h, i) : i \in Int} \union {CommandAt(h, i)' : i \in Int}
<1>12. PICK p : p = PendingOf(h)
  BY Zenon
<1>13. PICK p1 : p1 = PendingOf(h)'
  BY Zenon
<1>14. /\ p = [j \in 1 .. W - f |-> CommandAt(h, f + j - 1)]
       /\ p1 = [j \in 1 .. (W + n) - f |-> CommandAt(h, f + j - 1)']
  <2>1. FirstPending(h)' = f /\ write_index'[h] = W + n
    BY <1>2, <1>6, <1>7, Zenon
  <2>2. p = [j \in 1 .. W - f |-> CommandAt(h, f + j - 1)]
    BY <1>2, <1>12, Zenon DEF PendingOf
  <2>3. p1 = [j \in 1 .. (W + n) - f |-> CommandAt(h, f + j - 1)']
    BY <1>13, <2>1, Zenon DEF PendingOf
  <2> QED BY <2>2, <2>3, Zenon
<1>15. /\ \A j \in 1 .. W - f : f + j - 1 \in Int
       /\ \A j \in 1 .. (W + n) - f : f + j - 1 \in Int
       /\ (W + n) - f \in Nat
  BY <1>2, <1>11, SMT
<1>16. p \in [1 .. W - f -> S] /\ p1 \in [1 .. (W + n) - f -> S]
  BY <1>14, <1>15, Zenon
<1> HIDE DEF S
<1>17. p \in Seq(S) /\ Len(p) = W - f /\ p1 \in Seq(S) /\ Len(p1) = (W + n) - f
  <2>1. p \in Seq(S) /\ Len(p) = W - f
    BY <1>11, <1>16, ListOfFunction, Zenon
  <2>2. p1 \in Seq(S) /\ Len(p1) = (W + n) - f
    BY <1>15, <1>16, ListOfFunction, Zenon
  <2> QED BY <2>1, <2>2, Zenon
<1>18. \A j \in 1 .. Len(p) : p1[j] = p[j]
  <2>1. \A j \in 1 .. W - f : f + j - 1 \in Nat /\ f + j - 1 < W /\ j \in 1 .. (W + n) - f
    BY <1>2, <1>11, SMT
  <2> QED BY <1>2, <1>8, <1>14, <1>17, <2>1, Zenon
<1>19. Len(p1) = Len(p) + n /\ Len(p) + n <= QUEUE_SIZE
  BY <1>2, <1>11, <1>17, SMT
<1>20. SubSeq(p1, 1, Len(p)) = p
  BY <1>11, <1>17, <1>18, <1>19, LongerList, Zenon
<1>21. ASSUME NEW j \in 1 .. n
       PROVE  p1[Len(p) + j].hnd = h /\ p1[Len(p) + j].idx = W + j - 1
  <2>1. /\ W - f + j \in 1 .. (W + n) - f /\ f + (W - f + j) - 1 = W + j - 1
        /\ W + j - 1 \in W .. W + n - 1
    BY <1>2, <1>11, <1>21, SMT
  <2>2. p1[W - f + j] = CommandAt(h, W + j - 1)'
    BY <1>14, <2>1, Zenon
  <2> QED BY <1>10, <1>17, <2>1, <2>2, Zenon
<1>22. Fifo!Submit(h, n)
  <2> DEFINE P == [g \in Handle |-> PendingOf(g)]
  <2>1. P[h] = p /\ P'[h] = p1 /\ \A g \in Handle \ {h} : P'[g] = P[g]
    BY <1>9, <1>12, <1>13, Zenon
  <2> HIDE DEF P
  <2>2. /\ Len(P[h]) + n <= QUEUE_SIZE
        /\ write_index' = [write_index EXCEPT ![h] = @ + n]
        /\ \A g \in Handle \ {h} : P'[g] = P[g]
        /\ Len(P'[h]) = Len(P[h]) + n
        /\ SubSeq(P'[h], 1, Len(P[h])) = P[h]
        /\ \A j \in 1 .. n : P'[h][Len(P[h]) + j].hnd = h
        /\ \A j \in 1 .. n : P'[h][Len(P[h]) + j].idx = write_index[h] + j - 1
        /\ UNCHANGED q
    BY <1>2, <1>4, <1>19, <1>20, <1>21, <2>1, Zenon
  <2> QED BY <2>2, Zenon DEF Fifo!Submit, P
<1> QED BY <1>0, <1>3, <1>22, Zenon

\* insertRequest takes the oldest pending command of the handle of the queue
\* that is polled.
LEMMA InsertPromise ==
  ASSUME IInv, PrivateQueues, InsertRequest
  PROVE  \E h \in Handle : Fifo!Deliver(h)
<1> USE DEF handleVars, queueVars
<1>1. PICK k \in Queue : k = pollQueue
  BY Zenon DEF IInv, TypeOK
<1>2. PICK r \in Nat : r = host_read_index[k]
  BY Zenon DEF IInv, TypeOK
<1>3. /\ pollAt = "insert" /\ pollAt' = "clear" /\ pollQueue' = pollQueue
      /\ q' = Append(q, [elem |-> cache, queue |-> k])
      /\ UNCHANGED <<write_index, host_read_index, element, call>>
      /\ valid[k][SlotOf(r)] = 1 /\ cache = element[k][SlotOf(r)]
  BY <1>1, <1>2, Zenon DEF InsertRequest, IInv, PollInv, ReadSlot
<1>4. cache \in Element /\ QueueOf[cache.hnd] = k /\ cache.idx = r
  BY <1>2, <1>3, ReadElement, Zenon
<1>5. PICK h \in Handle : h = cache.hnd /\ QueueOf[h] = k
  BY <1>4, Zenon DEF Element
<1>6. PICK W \in Nat : W = write_index[h]
  BY Zenon DEF IInv, TypeOK
<1>7. r < W
  <2>1. SlotOf(r) \in Slot
    BY SlotOfType, Zenon
  <2> QED BY <1>3, <1>4, <1>5, <1>6, <2>1, Zenon DEF IInv, ValidInv, PublishedElement
<1>8. FirstPending(h) = r /\ FirstPending(h)' = r + 1
  <2>1. FirstPending(h) = r + 0 /\ FirstPending(h)' = r + 1
    BY <1>1, <1>2, <1>3, <1>5, Zenon DEF FirstPending
  <2> QED BY <2>1, SMT
<1>9. ASSUME NEW g \in Handle \ {h} PROVE FirstPending(g)' = FirstPending(g)
  <2>1. QueueOf[g] # pollQueue
    BY <1>1, <1>5, <1>9, Zenon DEF PrivateQueues
  <2> QED BY <1>3, <2>1, Zenon DEF FirstPending
<1>10. ASSUME NEW g, NEW i PROVE CommandAt(g, i)' = CommandAt(g, i)
  <2>1. Holders(g, i)' = Holders(g, i)
    BY <1>3, Zenon DEF Holders, Active
  <2> QED BY <1>3, <2>1, CommandKept, Zenon
<1>11. \A g \in Handle \ {h} : PendingOf(g)' = PendingOf(g)
  BY <1>3, <1>9, <1>10, FirstPendingRange, PendingKept, Zenon
<1>12. CommandAt(h, r) = cache
  <2>1. ASSUME NEW w \in Holders(h, r) PROVE FALSE
    <3>1. PICK l \in Active(w) : Idx(w, l) = r /\ HandleOf[w] = h /\ OwnedSlot(w, l)
      BY <2>1, OneHolder, Zenon
    <3>2. valid[k][SlotOf(r)] = 0
      BY <1>5, <3>1, Zenon DEF OwnedSlot, MyQueue
    <3> QED BY <1>3, <3>2
  <2> QED BY <1>3, <1>5, <2>1, WrittenCommand, Zenon
<1> DEFINE S == {CommandAt(h, i) : i \in Int}
<1>13. PICK p : p = PendingOf(h)
  BY Zenon
<1>14. PICK p1 : p1 = PendingOf(h)'
  BY Zenon
<1>15. /\ p = [j \in 1 .. W - r |-> CommandAt(h, r + j - 1)]
       /\ p1 = [j \in 1 .. W - (r + 1) |-> CommandAt(h, r + 1 + j - 1)']
  BY <1>3, <1>6, <1>8, <1>13, <1>14, Zenon DEF PendingOf
<1>16. /\ \A j \in 1 .. W - r : r + j - 1 \in Int
       /\ \A j \in 1 .. W - (r + 1) : r + 1 + j - 1 \in Int /\ r + 1 + j - 1 = r + (j + 1) - 1
                                     /\ j + 1 \in 1 .. W - r
       /\ W - r \in Nat /\ W - (r + 1) \in Nat /\ W - r = W - (r + 1) + 1
       /\ 1 \in 1 .. W - r /\ r + 1 - 1 = r
  BY <1>7, SMT
<1>17. p \in [1 .. W - r -> S] /\ p1 \in [1 .. W - (r + 1) -> S]
  BY <1>10, <1>15, <1>16, Zenon
<1> HIDE DEF S
<1>18. p \in Seq(S) /\ Len(p) = W - r /\ p1 \in Seq(S) /\ Len(p1) = W - (r + 1)
  <2>1. p \in Seq(S) /\ Len(p) = W - r
    BY <1>16, <1>17, ListOfFunction, Zenon
  <2>2. PICK d \in Nat : d = W - (r + 1)
    BY <1>16, Zenon
  <2>3. p1 \in [1 .. d -> S]
    BY <1>17, <2>2, Zenon
  <2>4. p1 \in Seq(S) /\ Len(p1) = d
    BY <2>2, <2>3, ListOfFunction, Zenon
  <2> QED BY <2>1, <2>2, <2>4, Zenon
<1>19. \A j \in 1 .. Len(p1) : p1[j] = p[j + 1]
  BY <1>10, <1>15, <1>16, <1>18, Zenon
<1>20. p[1] = cache
  BY <1>12, <1>15, <1>16, Zenon
<1>21. p # <<>> /\ Head(p) = cache /\ p1 = Tail(p)
  BY <1>16, <1>18, <1>19, <1>20, ShorterList, Zenon
<1>22. Fifo!Deliver(h)
  <2> DEFINE P == [g \in Handle |-> PendingOf(g)]
  <2>1. P[h] = p /\ P' = [P EXCEPT ![h] = p1]
    BY <1>11, <1>13, <1>14, Zenon
  <2> HIDE DEF P
  <2>2. /\ P[h] # <<>>
        /\ q' = Append(q, [elem |-> Head(P[h]), queue |-> QueueOf[h]])
        /\ P' = [P EXCEPT ![h] = Tail(P[h])]
        /\ UNCHANGED write_index
    BY <1>3, <1>5, <1>21, <2>1, Zenon
  <2> QED BY <2>2, Zenon DEF Fifo!Deliver, P
<1> QED BY <1>22, Zenon

\* The transport takes a request out of its queue; the pending commands stay.
LEMMA ServePromise ==
  ASSUME NEW i \in 1 .. Len(q), Serve(i)
  PROVE  Fifo!Complete(i)
<1> USE DEF handleVars, queueVars, pollVars
<1>1. UNCHANGED <<write_index, host_read_index, element, call, pollQueue, pollAt>>
  BY Zenon DEF Serve
<1>2. \A h, j : Holders(h, j)' = Holders(h, j)
  BY <1>1, Zenon DEF Holders, Active
<1>3. \A h, j : CommandAt(h, j)' = CommandAt(h, j)
  BY <1>1, <1>2, CommandKept, Zenon
<1>4. \A h : FirstPending(h)' = FirstPending(h)
  BY <1>1, Zenon DEF FirstPending
<1>5. \A h : PendingOf(h)' = PendingOf(h)
  BY <1>1, <1>3, <1>4, Zenon DEF PendingOf
<1> QED BY <1>1, <1>5, Zenon DEF Fifo!Complete, Serve

\* A step that keeps the pending commands is a stutter of the promise.
LEMMA PromiseStutters ==
  ASSUME PromiseKept, UNCHANGED <<write_index, q>>
  PROVE  UNCHANGED Fifo!vars
<1>1. [h \in Handle |-> PendingOf(h)]' = [h \in Handle |-> PendingOf(h)]
  BY Zenon DEF PromiseKept
<1> QED BY <1>1, Zenon DEF Fifo!vars

LEMMA InitPromise == Init => Fifo!Init
<1> SUFFICES ASSUME Init PROVE Fifo!Init
  BY Zenon
<1>1. ASSUME NEW h \in Handle PROVE PendingOf(h) = <<>>
  <2>1. write_index[h] = 0 /\ host_read_index[QueueOf[h]] = 0 /\ pollAt = "flag"
    BY <1>1, ConstantsAssumption, Zenon DEF Init
  <2>2. FirstPending(h) = 0 + 0
    BY <2>1, Zenon DEF FirstPending
  <2>3. 1 .. write_index[h] - FirstPending(h) = {}
    BY <2>1, <2>2, SMT
  <2> QED BY <2>3, SMT DEF PendingOf
<1>2. [h \in Handle |-> PendingOf(h)] = [h \in Handle |-> <<>>]
  BY <1>1, Zenon
<1> QED BY <1>2, Zenon DEF Fifo!Init, Init

LEMMA NextPromise ==
  PrivateQueues /\ IInv /\ IInv' /\ [Next]_vars => [Fifo!Next]_(Fifo!vars)
<1> SUFFICES ASSUME PrivateQueues, IInv, IInv', [Next]_vars
             PROVE  Fifo!Next \/ UNCHANGED Fifo!vars
  BY Zenon
<1>1. ASSUME NEW w \in Wave, ReserveSlots(w) PROVE Fifo!Next
  <2>1. HandleOf[w] \in Handle
    BY <1>1, HandleOfType, Zenon
  <2> QED BY <1>1, <2>1, ReservePromise, Zenon DEF Fifo!Next
<1>2. ASSUME NEW w \in Wave, FillElements(w) PROVE UNCHANGED Fifo!vars
  BY <1>2, FillPromise, PromiseStutters, Zenon
<1>3. ASSUME NEW w \in Wave,
             \/ AcquireLock(w) \/ RefreshReadIndex(w) \/ ReleaseLock(w) \/ ResetStatus(w)
             \/ \E l \in Lane : Publish(w, l) \/ ObserveStatus(w, l)
      PROVE  UNCHANGED Fifo!vars
  BY <1>3, QuietCallSteps, PromiseStutters, Zenon
<1>4. CASE InsertRequest
  BY <1>4, InsertPromise, Zenon DEF Fifo!Next
<1>5. ASSUME CopyFlag \/ CopyPayload \/ ClearValid \/ IncrementReadIndex
      PROVE  UNCHANGED Fifo!vars
  BY <1>5, QuietPollSteps, PromiseStutters, Zenon
<1>6. ASSUME NEW i \in 1 .. Len(q), Serve(i) PROVE Fifo!Next
  BY <1>6, ServePromise, Zenon DEF Fifo!Next
<1>7. CASE UNCHANGED vars
  <2>1. UNCHANGED <<write_index, host_read_index, element, call, pollQueue, pollAt, q>>
    BY <1>7, Zenon DEF vars, handleVars, queueVars, pollVars
  <2>2. \A h, j : CommandAt(h, j)' = CommandAt(h, j)
    <3>1. \A h, j : Holders(h, j)' = Holders(h, j)
      BY <2>1, Zenon DEF Holders, Active
    <3> QED BY <2>1, <3>1, CommandKept, Zenon
  <2>3. \A h : PendingOf(h)' = PendingOf(h)
    BY <2>1, <2>2, Zenon DEF PendingOf, FirstPending
  <2> QED BY <2>1, <2>3, PromiseStutters, Zenon DEF PromiseKept
<1>8. CASE GPU
  BY <1>1, <1>2, <1>3, <1>8, Zenon DEF GPU
<1>9. CASE Poll
  BY <1>4, <1>5, <1>9, Zenon DEF Poll
<1> QED BY <1>6, <1>7, <1>8, <1>9, Zenon DEF Next

\* build_queue_element and Queue::process together are one bounded first-in
\* first-out channel per handle: a wave's commands enter together and in order,
\* insertRequest takes the oldest, and no other step of the GPU or of the poll
\* thread adds, drops, changes or reorders a command.
THEOREM QueueImplementsFifo ==
  ASSUME PrivateQueues
  PROVE  Spec => ImplementsFifo
<1>1. IInv /\ IInv' /\ [Next]_vars => [Fifo!Next]_(Fifo!vars)
  BY NextPromise, PrivateQueues, Zenon
<1>2. Init => Fifo!Init
  BY InitPromise
<1>3. Spec => Fifo!Spec
  BY <1>1, <1>2, QueueInvariant, PrivateQueues, PTL DEF Spec, Fifo!Spec
<1> QED BY <1>3, Zenon DEF ImplementsFifo

-----------------------------------------------------------------------------
(***************************************************************************)
(* The status bytes.  P stands for the commands that the transport has and *)
(* has not finished; RoQueue and RoSystem put their own in its place.      *)
(***************************************************************************)

\* The work-items of the grid fit in the status bytes of one descriptor.
GridFits == NumWaves * WaveSize <= MAX_THREADS_PER_BLOCK

\* insertRequest has been called for index i of queue k.
PassedOn(k, i) ==
  \/ i < host_read_index[k]
  \/ i = host_read_index[k] /\ pollQueue = k /\ pollAt \in {"clear", "advance"}

Finished(P, h, i) == PassedOn(QueueOf[h], i) /\ \A e \in P : ~ (e.hnd = h /\ e.idx = i)

\* Lane l of a blocking call has set its flag and has not returned.
Posted(w, l) ==
  /\ l \in Active(w) /\ Blocking(call[w].cmd)
  /\ call[w].at = "wait" \/ (call[w].at = "publish" /\ l \notin call[w].todo)

Awaits(e) == \E w \in Wave : \E l \in Lane : Posted(w, l) /\ e = ElementOf(w, l)

\* A flag is set that the poll thread has yet to act upon.
Unread(k, s) == valid[k][s] = 1 /\ ~ (pollQueue = k /\ pollAt = "clear" /\ s = ReadSlot)

WaitInv ==
  \A w \in Wave : call[w].at = "wait" => Blocking(call[w].cmd) /\ call[w].todo \subseteq Active(w)

PendingInv(P) ==
  \A e \in P : /\ e \in Element /\ PassedOn(QueueOf[e.hnd], e.idx)
               /\ Blocking(e.cmd) => Awaits(e)

UnreadInv ==
  \A k \in Queue, s \in Slot :
    Unread(k, s) /\ Blocking(element[k][s].cmd) => Awaits(element[k][s])

StatusInv(P) ==
  \A w \in Wave, l \in Lane :
    status[MyStatus(w, l)] = 1 => Posted(w, l) /\ Finished(P, HandleOf[w], Idx(w, l))

ReturnInv(P) ==
  \A w \in Wave :
    call[w].at = "wait" =>
      \A l \in Active(w) \ call[w].todo : Finished(P, HandleOf[w], Idx(w, l))

ClientInv(P) == WaitInv /\ PendingInv(P) /\ UnreadInv /\ StatusInv(P) /\ ReturnInv(P)

\* A number less than n and a digit less than b.
LEMMA DigitBound ==
  ASSUME NEW n \in Nat, NEW b \in Nat, NEW x \in 0 .. n - 1, NEW r \in 0 .. b - 1
  PROVE  x * b + r \in 0 .. n * b - 1
<1>1. x * b \in Nat /\ n * b \in Nat
  BY SMT
<1>2. PICK d \in Nat : d = n - 1 - x
  BY SMT
<1>3. n * b = x * b + d * b + b /\ d * b >= 0
  BY <1>2, SMT
<1> QED BY <1>1, <1>3, SMT

LEMMA DigitsUnique ==
  ASSUME NEW b \in Nat \ {0}, NEW x \in Nat, NEW y \in Nat,
         NEW r \in 0 .. b - 1, NEW s \in 0 .. b - 1, x * b + r = y * b + s
  PROVE  x = y /\ r = s
<1>1. ASSUME NEW u \in Nat, NEW v \in Nat, NEW i \in 0 .. b - 1, NEW j \in 0 .. b - 1, u * b + i = v * b + j
      PROVE  ~ (u < v)
  <2>1. SUFFICES ASSUME u < v PROVE FALSE
    BY Zenon
  <2>2. PICK d \in Nat : v = u + 1 + d
    <3>1. v - u - 1 \in Nat /\ v = u + 1 + (v - u - 1)
      BY <2>1, SMT
    <3> QED BY <3>1, Zenon
  <2>3. v * b = u * b + b + d * b /\ d * b >= 0 /\ u * b \in Nat
    BY <2>2, SMT
  <2> QED BY <1>1, <2>3, SMT
<1>2. ~ (x < y) /\ ~ (y < x)
  BY <1>1, Zenon
<1>3. x = y
  BY <1>2, SMT
<1>4. x * b \in Nat
  BY SMT
<1> QED BY <1>3, <1>4, SMT

\* Every work-item has a status byte of its own.
LEMMA StatusApart ==
  ASSUME GridFits, NEW w \in Wave, NEW l \in Lane
  PROVE  /\ MyStatus(w, l) \in Addr
         /\ \A v \in Wave, m \in Lane : MyStatus(v, m) = MyStatus(w, l) => v = w /\ m = l
<1>1. /\ NumWaves \in Nat /\ WaveSize \in Nat \ {0} /\ MAX_THREADS_PER_BLOCK \in Nat \ {0}
      /\ NumQueues \in Nat \ {0}
  BY ConstantsAssumption, Zenon
<1>2. ASSUME NEW v \in Wave, NEW m \in Lane
      PROVE  /\ FlatId(v, m) \in 0 .. MAX_THREADS_PER_BLOCK - 1 /\ MyQueue(v) \in 0 .. NumQueues - 1
             /\ v \in Nat /\ m \in 0 .. WaveSize - 1
  <2>1. v \in 0 .. NumWaves - 1 /\ m \in 0 .. WaveSize - 1 /\ MyQueue(v) \in 0 .. NumQueues - 1
    BY HandleOfType, Zenon DEF Wave, Lane, Queue
  <2>2. v * WaveSize + m \in 0 .. NumWaves * WaveSize - 1
    BY <1>1, <2>1, DigitBound, Zenon
  <2>3. NumWaves * WaveSize \in Nat
    BY <1>1, SMT
  <2> QED BY <1>1, <2>1, <2>2, <2>3, SMT DEF GridFits, FlatId
<1>3. MyStatus(w, l) \in Addr
  <2>1. MyQueue(w) * MAX_THREADS_PER_BLOCK + FlatId(w, l) \in 0 .. NumQueues * MAX_THREADS_PER_BLOCK - 1
    BY <1>1, <1>2, DigitBound, Zenon
  <2>2. NumQueues * MAX_THREADS_PER_BLOCK \in Nat /\ NumWaves * WaveSize \in Nat
    BY <1>1, SMT
  <2> QED BY <2>1, <2>2, SMT DEF MyStatus, StatusAddr, Addr
<1>4. ASSUME NEW v \in Wave, NEW m \in Lane, MyStatus(v, m) = MyStatus(w, l) PROVE v = w /\ m = l
  <2>1. MyQueue(v) \in Nat /\ MyQueue(w) \in Nat
    BY <1>1, <1>2, SMT
  <2>2. MyQueue(v) * MAX_THREADS_PER_BLOCK + FlatId(v, m) = MyQueue(w) * MAX_THREADS_PER_BLOCK + FlatId(w, l)
    BY <1>4, Zenon DEF MyStatus, StatusAddr
  <2>3. FlatId(v, m) = FlatId(w, l)
    <3>1. PICK x, y, r, s : x = MyQueue(v) /\ y = MyQueue(w) /\ r = FlatId(v, m) /\ s = FlatId(w, l)
      BY Zenon
    <3>2. /\ x \in Nat /\ y \in Nat
          /\ r \in 0 .. MAX_THREADS_PER_BLOCK - 1 /\ s \in 0 .. MAX_THREADS_PER_BLOCK - 1
      BY <1>2, <2>1, <3>1, Zenon
    <3>3. x * MAX_THREADS_PER_BLOCK + r = y * MAX_THREADS_PER_BLOCK + s
      BY <2>2, <3>1, Zenon
    <3>4. r = s
      BY <1>1, <3>2, <3>3, DigitsUnique, SMT
    <3> QED BY <3>1, <3>4, Zenon
  <2>4. v * WaveSize + m = w * WaveSize + l
    BY <2>3, Zenon DEF FlatId
  <2> QED BY <1>1, <1>2, <2>4, DigitsUnique, SMT
<1> QED BY <1>3, <1>4, Zenon

\* What the steps of other waves leave a waiting lane with.
Keeps == \A v \in Wave, m \in Lane : Posted(v, m) => Posted(v, m)' /\ ElementOf(v, m)' = ElementOf(v, m)

LEMMA AwaitsKept == ASSUME Keeps, NEW e, Awaits(e) PROVE Awaits(e)'
<1>1. PICK w \in Wave, l \in Lane : Posted(w, l) /\ e = ElementOf(w, l)
  BY Zenon DEF Awaits
<1>2. Posted(w, l)' /\ e = ElementOf(w, l)'
  BY <1>1, Zenon DEF Keeps
<1> QED BY <1>2, Zenon DEF Awaits

\* An element whose flag the poll thread has yet to act upon is not passed on.
LEMMA UnreadNotPassed ==
  ASSUME IInv, NEW k \in Queue, NEW s \in Slot, Unread(k, s)
  PROVE  LET e == element[k][s] IN e \in Element /\ QueueOf[e.hnd] = k /\ ~ PassedOn(k, e.idx)
<1>1. PICK e : e = element[k][s]
  BY Zenon
<1>2. /\ e \in Element /\ QueueOf[e.hnd] = k /\ host_read_index[k] <= e.idx /\ SlotOf(e.idx) = s
      /\ valid[k][s] = 1
  BY <1>1, Zenon DEF Unread, IInv, ValidInv, PublishedElement
<1>3. e.idx \in Nat /\ host_read_index[k] \in Nat
  BY <1>2, Zenon DEF Element, IInv, TypeOK
<1>4. ~ (e.idx = host_read_index[k] /\ pollQueue = k /\ pollAt \in {"clear", "advance"})
  <2> SUFFICES ASSUME e.idx = host_read_index[k], pollQueue = k PROVE pollAt \notin {"clear", "advance"}
    BY Zenon
  <2>1. s = ReadSlot
    BY <1>2, Zenon DEF ReadSlot
  <2>2. pollAt = "advance" => valid[pollQueue][ReadSlot] = 0
    BY Zenon DEF IInv, PollInv
  <2>3. 0 # 1
    BY SMT
  <2> QED BY <1>2, <2>1, <2>2, <2>3, Zenon DEF Unread
<1>5. ~ (e.idx < host_read_index[k])
  BY <1>2, <1>3, SMT
<1> QED BY <1>1, <1>2, <1>4, <1>5, Zenon DEF PassedOn

\* A lane that is posted is one of the call's lanes.
LEMMA PostedLane ==
  ASSUME TypeOK, NEW w \in Wave, NEW l, Posted(w, l) \/ l \in Active(w) PROVE l \in Lane /\ Idx(w, l) \in Nat
<1>1. call[w].lanes \in 0 .. WaveSize /\ call[w].base \in Nat
  BY Zenon DEF TypeOK, Call
<1>2. l \in Active(w)
  BY Zenon DEF Posted
<1>3. l \in Lane
  BY <1>1, <1>2, ActiveLanes, Zenon
<1> QED BY <1>1, <1>3, ConstantsAssumption, SMT DEF Idx, Lane

\* Steps that leave the queues, q and the status bytes alone.
\* UnreadInv in the next state, one element at a time.
LEMMA UnreadNext ==
  ASSUME \A k \in Queue, s \in Slot : \A e : e = element'[k][s] /\ Unread(k, s)' /\ Blocking(e.cmd) => Awaits(e)'
  PROVE  UnreadInv'
<1> SUFFICES ASSUME NEW k \in Queue, NEW s \in Slot, Unread(k, s)', Blocking(element'[k][s].cmd)
             PROVE  Awaits(element[k][s])'
  BY Zenon DEF UnreadInv
<1>1. PICK e : e = element'[k][s]
  BY Zenon
<1>2. Awaits(e)'
  BY <1>1, Zenon
<1>3. PICK w \in Wave, l \in Lane : Posted(w, l)' /\ e = ElementOf(w, l)'
  BY <1>2, Zenon DEF Awaits
<1> QED BY <1>1, <1>3, Zenon DEF Awaits

LEMMA ClientFrame ==
  ASSUME NEW P, ClientInv(P), UNCHANGED <<queueVars, pollVars, status>>, Keeps, WaitInv', ReturnInv(P)'
  PROVE  ClientInv(P)'
<1> USE DEF queueVars, pollVars
<1>1. \A k, i : PassedOn(k, i)' <=> PassedOn(k, i)
  BY Zenon DEF PassedOn
<1>2. \A h, i : Finished(P, h, i)' <=> Finished(P, h, i)
  BY <1>1, Zenon DEF Finished
<1>3. PendingInv(P)'
  BY <1>1, AwaitsKept, Zenon DEF ClientInv, PendingInv
<1>4. UnreadInv'
  <2>1. \A k \in Queue, s \in Slot : Unread(k, s)' <=> Unread(k, s)
    BY Zenon DEF Unread, ReadSlot
  <2>2. element' = element
    BY Zenon
  <2> QED BY <2>1, <2>2, AwaitsKept, Zenon DEF ClientInv, UnreadInv
<1>5. StatusInv(P)'
  <2> SUFFICES ASSUME NEW w \in Wave, NEW l \in Lane, status'[MyStatus(w, l)] = 1
               PROVE  Posted(w, l)' /\ Finished(P, HandleOf[w], Idx(w, l))'
    BY Zenon DEF StatusInv, MyStatus, MyQueue
  <2>1. Posted(w, l) /\ Finished(P, HandleOf[w], Idx(w, l)) /\ ElementOf(w, l)' = ElementOf(w, l) /\ Posted(w, l)'
    BY Zenon DEF ClientInv, StatusInv, Keeps
  <2>2. Idx(w, l)' = Idx(w, l)
    BY <2>1, Zenon DEF ElementOf, Idx
  <2>3. Finished(P, HandleOf[w], Idx(w, l))'
    BY <1>1, <2>1, <2>2, Zenon DEF Finished
  <2> QED BY <2>1, <2>3, Zenon
<1> QED BY <1>3, <1>4, <1>5, Zenon DEF ClientInv

\* Steps of wave w before and after it publishes.
LEMMA CallStep ==
  ASSUME IInv, NEW P, ClientInv(P), NEW w \in Wave, UNCHANGED <<queueVars, pollVars, status>>,
         NEW c, call' = [call EXCEPT ![w] = c], call[w].at \notin {"publish", "wait"},
         c.at \notin {"publish", "wait"}
  PROVE  ClientInv(P)'
<1>1. call'[w] = c /\ \A v \in Wave : v # w => call'[v] = call[v]
  BY Zenon DEF IInv, TypeOK
<1>2. Keeps
  BY <1>1, Zenon DEF Keeps, Posted, Active, ElementOf
<1>3. \A v \in Wave : call'[v].at = "wait" => v # w
  BY <1>1, Zenon
<1>4. WaitInv'
  BY <1>1, <1>3, Zenon DEF WaitInv, ClientInv, Active
<1>5. ReturnInv(P)'
  <2>1. \A k, i : PassedOn(k, i)' <=> PassedOn(k, i)
    BY Zenon DEF PassedOn, queueVars, pollVars
  <2>2. ASSUME NEW v \in Wave, call'[v].at = "wait", NEW l \in Active(v)' \ call'[v].todo
        PROVE  Finished(P, HandleOf[v], Idx(v, l))'
    <3>1. call'[v] = call[v] /\ l \in Active(v) \ call[v].todo /\ Idx(v, l)' = Idx(v, l)
      BY <1>1, <1>3, <2>2, Zenon DEF Active, Idx
    <3>2. Finished(P, HandleOf[v], Idx(v, l))
      BY <2>2, <3>1, Zenon DEF ClientInv, ReturnInv
    <3> QED BY <2>1, <3>1, <3>2, Zenon DEF Finished
  <2> QED BY <2>2, Zenon DEF ReturnInv
<1> QED BY <1>2, <1>4, <1>5, ClientFrame, Zenon

LEMMA LockSteps ==
  ASSUME IInv, NEW P, ClientInv(P), NEW w \in Wave,
         AcquireLock(w) \/ RefreshReadIndex(w) \/ ReserveSlots(w) \/ ReleaseLock(w)
  PROVE  ClientInv(P)'
<1>1. DOMAIN call = Wave /\ call = [call EXCEPT ![w] = call[w]] /\ call[w] \in Call
  BY Zenon DEF IInv, TypeOK
<1>2. CASE AcquireLock(w)
  <2>1. PICK n \in 1 .. WaveSize, c \in Cmd : call' = [call EXCEPT ![w] = Locals("space", c, n, 0, {})]
    BY <1>2, Zenon DEF AcquireLock
  <2>2. Locals("space", c, n, 0, {}).at = "space"
    BY Zenon DEF Locals
  <2> QED BY <1>2, <2>1, <2>2, CallStep, Zenon DEF AcquireLock
<1>3. CASE RefreshReadIndex(w)
  BY <1>1, <1>3, CallStep, Zenon DEF RefreshReadIndex
<1>4. CASE ReserveSlots(w)
  <2>1. PICK c : c = Locals("unlock", call[w].cmd, call[w].lanes, write_index[HandleOf[w]], {})
    BY Zenon
  <2>2. call' = [call EXCEPT ![w] = c] /\ c.at = "unlock"
    BY <1>1, <1>4, <2>1, Zenon DEF ReserveSlots, Locals
  <2> QED BY <1>4, <2>2, CallStep, Zenon DEF ReserveSlots
<1>5. CASE ReleaseLock(w)
  <2>1. PICK c : c = [call[w] EXCEPT !.at = "fill"]
    BY Zenon
  <2>2. call' = [call EXCEPT ![w] = c] /\ c.at = "fill"
    BY <1>1, <1>5, <2>1, Zenon DEF ReleaseLock, Call
  <2> QED BY <1>5, <2>2, CallStep, Zenon DEF ReleaseLock
<1> QED BY <1>2, <1>3, <1>4, <1>5, Zenon

LEMMA FillStep ==
  ASSUME IInv, NEW P, ClientInv(P), NEW w \in Wave, FillElements(w) PROVE ClientInv(P)'
<1>1. PICK c : c = Locals("publish", call[w].cmd, call[w].lanes, call[w].base, Active(w))
  BY Zenon
<1>2. /\ call[w].at = "fill" /\ c.at = "publish" /\ c.cmd = call[w].cmd /\ c.lanes = call[w].lanes
      /\ c.base = call[w].base /\ c.todo = Active(w)
  BY <1>1, Zenon DEF FillElements, Locals
<1>3. call'[w] = c /\ \A v \in Wave : v # w => call'[v] = call[v]
  BY <1>1, Zenon DEF IInv, TypeOK, FillElements
<1>4. Active(w)' = Active(w)
  BY <1>2, <1>3, Zenon DEF Active
<1>5. Keeps
  <2> SUFFICES ASSUME NEW v \in Wave, NEW m \in Lane, Posted(v, m)
               PROVE  Posted(v, m)' /\ ElementOf(v, m)' = ElementOf(v, m)
    BY Zenon DEF Keeps
  <2>1. v # w
    BY <1>2, Zenon DEF Posted
  <2> QED BY <1>3, <2>1, Zenon DEF Posted, Active, ElementOf
<1>6. /\ valid' = valid /\ host_read_index' = host_read_index /\ status' = status
      /\ pollQueue' = pollQueue /\ pollAt' = pollAt
  BY Zenon DEF FillElements, pollVars
<1>7. \A k, i : PassedOn(k, i)' <=> PassedOn(k, i)
  BY <1>6, Zenon DEF PassedOn
<1>8. PendingInv(P)'
  BY <1>5, <1>7, AwaitsKept, Zenon DEF ClientInv, PendingInv
<1>9. UnreadInv'
  <2> SUFFICES ASSUME NEW k \in Queue, NEW s \in Slot, NEW e, e = element'[k][s], Unread(k, s)', Blocking(e.cmd)
               PROVE  Awaits(e)'
    BY UnreadNext, Zenon
  <2>1. Unread(k, s) /\ valid[k][s] = 1
    BY <1>6, Zenon DEF Unread, ReadSlot
  <2>2. 1 # 0
    BY SMT
  <2>3. element'[k][s] = element[k][s]
    BY <2>1, <2>2, FillFresh, Zenon
  <2>4. Awaits(e)
    BY <2>1, <2>3, Zenon DEF ClientInv, UnreadInv
  <2> QED BY <1>5, <2>4, AwaitsKept, Zenon
<1>10. StatusInv(P)'
  <2> SUFFICES ASSUME NEW v \in Wave, NEW l \in Lane, status[MyStatus(v, l)] = 1
               PROVE  Posted(v, l)' /\ Finished(P, HandleOf[v], Idx(v, l))'
    BY <1>6, Zenon DEF StatusInv, MyStatus, MyQueue
  <2>1. Posted(v, l) /\ Finished(P, HandleOf[v], Idx(v, l))
    BY Zenon DEF ClientInv, StatusInv
  <2>2. v # w /\ Posted(v, l)'
    BY <1>2, <1>5, <2>1, Zenon DEF Posted, Keeps
  <2>3. Idx(v, l)' = Idx(v, l)
    BY <1>3, <2>2, Zenon DEF Idx
  <2> QED BY <1>7, <2>1, <2>2, <2>3, Zenon DEF Finished
<1>11. WaitInv'
  BY <1>2, <1>3, Zenon DEF WaitInv, ClientInv, Active
<1>12. ReturnInv(P)'
  <2> SUFFICES ASSUME NEW v \in Wave, call'[v].at = "wait", NEW l \in Active(v)' \ call'[v].todo
               PROVE  Finished(P, HandleOf[v], Idx(v, l))'
    BY Zenon DEF ReturnInv
  <2>1. call'[v] = call[v] /\ l \in Active(v) \ call[v].todo /\ Idx(v, l)' = Idx(v, l)
    BY <1>2, <1>3, Zenon DEF Active, Idx
  <2>2. Finished(P, HandleOf[v], Idx(v, l))
    BY <2>1, Zenon DEF ClientInv, ReturnInv
  <2> QED BY <1>7, <2>1, <2>2, Zenon DEF Finished
<1> QED BY <1>8, <1>9, <1>10, <1>11, <1>12, Zenon DEF ClientInv

\* The call of wave w after lane l has set its flag.
LEMMA PublishCall ==
  ASSUME IInv, NEW w \in Wave, NEW l \in Lane, Publish(w, l)
  PROVE  /\ \A v \in Wave : v # w => call'[v] = call[v]
         /\ call[w].at = "publish" /\ l \in call[w].todo
         /\ \/ call'[w].at = "idle" /\ ~ Blocking(call[w].cmd)
            \/ /\ call'[w].cmd = call[w].cmd /\ call'[w].lanes = call[w].lanes /\ call'[w].base = call[w].base
               /\ \/ call'[w].at = "publish" /\ call'[w].todo = call[w].todo \ {l}
                  \/ /\ call'[w].at = "wait" /\ call'[w].todo = Active(w)
                     /\ call[w].todo = {l} /\ Blocking(call[w].cmd)
<1>1. call[w] \in Call /\ DOMAIN call = Wave /\ call[w].at = "publish" /\ l \in call[w].todo
  BY Zenon DEF IInv, TypeOK, Publish
<1>2. CASE call' = [call EXCEPT ![w].todo = @ \ {l}]
  <2>1. call'[w] = [call[w] EXCEPT !.todo = @ \ {l}] /\ \A v \in Wave : v # w => call'[v] = call[v]
    BY <1>1, <1>2, Zenon
  <2> QED BY <1>1, <2>1, Zenon DEF Call
<1>3. CASE call[w].todo = {l} /\ call' = [call EXCEPT ![w] = AfterPublish(w)]
  <2>1. call'[w] = AfterPublish(w) /\ \A v \in Wave : v # w => call'[v] = call[v]
    BY <1>1, <1>3, Zenon
  <2>2. CASE Blocking(call[w].cmd)
    <3>1. call'[w] = Locals("wait", call[w].cmd, call[w].lanes, call[w].base, Active(w))
      BY <2>1, <2>2, Zenon DEF AfterPublish
    <3>2. PICK r : r = Locals("wait", call[w].cmd, call[w].lanes, call[w].base, Active(w))
      BY Zenon
    <3>3. /\ r.at = "wait" /\ r.cmd = call[w].cmd /\ r.lanes = call[w].lanes
          /\ r.base = call[w].base /\ r.todo = Active(w)
      BY <3>2 DEF Locals
    <3> QED BY <1>1, <1>3, <2>1, <2>2, <3>1, <3>2, <3>3, Zenon
  <2>3. CASE ~ Blocking(call[w].cmd)
    BY <1>1, <2>1, <2>3, NoCallType, Zenon DEF AfterPublish
  <2> QED BY <2>2, <2>3, Zenon
<1> QED BY <1>2, <1>3, Zenon DEF Publish

LEMMA PublishStep ==
  ASSUME IInv, NEW P, ClientInv(P), NEW w \in Wave, NEW l \in Lane, Publish(w, l) PROVE ClientInv(P)'
<1>0. TypeOK /\ CallInv /\ OwnerInv
  BY Zenon DEF IInv
<1>1. /\ \A v \in Wave : v # w => call'[v] = call[v]
      /\ call[w].at = "publish" /\ l \in call[w].todo
  BY PublishCall, Zenon
<1>2. \/ call'[w].at = "idle" /\ ~ Blocking(call[w].cmd)
      \/ /\ call'[w].cmd = call[w].cmd /\ call'[w].lanes = call[w].lanes /\ call'[w].base = call[w].base
         /\ \/ call'[w].at = "publish" /\ call'[w].todo = call[w].todo \ {l}
            \/ /\ call'[w].at = "wait" /\ call'[w].todo = Active(w)
               /\ call[w].todo = {l} /\ Blocking(call[w].cmd)
  BY PublishCall, Zenon
<1>3. l \in Active(w)
  BY <1>0, <1>1, Zenon DEF CallInv
<1>4. Blocking(call[w].cmd) =>
        /\ call'[w].cmd = call[w].cmd /\ Active(w)' = Active(w)
        /\ \A m \in Active(w) : m \notin call[w].todo \/ m = l => Posted(w, m)' /\ ElementOf(w, m)' = ElementOf(w, m)
  BY <1>1, <1>2, Zenon DEF Active, Posted, ElementOf
<1>5. Keeps
  <2> SUFFICES ASSUME NEW v \in Wave, NEW m \in Lane, Posted(v, m)
               PROVE  Posted(v, m)' /\ ElementOf(v, m)' = ElementOf(v, m)
    BY Zenon DEF Keeps
  <2>1. CASE v # w
    BY <1>1, <2>1, Zenon DEF Posted, Active, ElementOf
  <2>2. CASE v = w
    BY <1>1, <1>4, <2>2, Zenon DEF Posted
  <2> QED BY <2>1, <2>2, Zenon
<1>6. /\ element' = element /\ host_read_index' = host_read_index /\ status' = status
      /\ pollQueue' = pollQueue /\ pollAt' = pollAt
  BY Zenon DEF Publish, pollVars
<1>7. \A k, i : PassedOn(k, i)' <=> PassedOn(k, i)
  BY <1>6, Zenon DEF PassedOn
<1>8. PendingInv(P)'
  BY <1>5, <1>7, AwaitsKept, Zenon DEF ClientInv, PendingInv
<1>9. UnreadInv'
  <2> SUFFICES ASSUME NEW k \in Queue, NEW s \in Slot, NEW e, e = element'[k][s], Unread(k, s)', Blocking(e.cmd)
               PROVE  Awaits(e)'
    BY UnreadNext, Zenon
  <2>0. MyQueue(w) \in Queue /\ SlotOf(Idx(w, l)) \in Slot /\ l \in Unpublished(w)
    BY <1>0, <1>1, <1>3, PostedLane, HandleOfType, SlotOfType, Zenon DEF Unpublished
  <2>1. CASE k = MyQueue(w) /\ s = SlotOf(Idx(w, l))
    <3>1. e = ElementOf(w, l)
      BY <1>0, <1>1, <1>6, <2>0, <2>1, Zenon DEF OwnerInv, OwnedSlot
    <3>2. Blocking(call[w].cmd)
      <4>1. ElementOf(w, l).cmd = call[w].cmd
        BY Zenon DEF ElementOf
      <4> QED BY <3>1, <4>1, Zenon
    <3>3. Posted(w, l)' /\ e = ElementOf(w, l)'
      BY <1>3, <1>4, <3>1, <3>2, Zenon
    <3> QED BY <3>3, Zenon DEF Awaits
  <2>2. CASE ~ (k = MyQueue(w) /\ s = SlotOf(Idx(w, l)))
    <3>1. valid'[k][s] = valid[k][s]
      <4>1. valid \in [Queue -> [Slot -> {0, 1}]]
        BY <1>0, Zenon DEF TypeOK
      <4>2. valid' = [valid EXCEPT ![MyQueue(w)] = [valid[MyQueue(w)] EXCEPT ![SlotOf(Idx(w, l))] = 1]]
        BY <1>0, Zenon DEF Publish, Idx
      <4> QED BY <2>0, <2>2, <4>1, <4>2, Zenon
    <3>2. Unread(k, s)
      BY <1>6, <3>1, Zenon DEF Unread, ReadSlot
    <3>3. Awaits(e)
      BY <1>6, <3>2, Zenon DEF ClientInv, UnreadInv
    <3> QED BY <1>5, <3>3, AwaitsKept, Zenon
  <2> QED BY <2>1, <2>2, Zenon
<1>10. StatusInv(P)'
  <2> SUFFICES ASSUME NEW v \in Wave, NEW m \in Lane, status[MyStatus(v, m)] = 1
               PROVE  Posted(v, m)' /\ Finished(P, HandleOf[v], Idx(v, m))'
    BY <1>6, Zenon DEF StatusInv, MyStatus, MyQueue
  <2>1. Posted(v, m) /\ Finished(P, HandleOf[v], Idx(v, m))
    BY Zenon DEF ClientInv, StatusInv
  <2>2. Posted(v, m)' /\ ElementOf(v, m)' = ElementOf(v, m)
    BY <1>5, <2>1, Zenon DEF Keeps
  <2>3. Idx(v, m)' = Idx(v, m)
    BY <2>2, Zenon DEF ElementOf, Idx
  <2> QED BY <1>7, <2>1, <2>2, <2>3, Zenon DEF Finished
<1>11. WaitInv'
  <2> SUFFICES ASSUME NEW v \in Wave, call'[v].at = "wait"
               PROVE  Blocking(call'[v].cmd) /\ call'[v].todo \subseteq Active(v)'
    BY Zenon DEF WaitInv
  <2>1. CASE v # w
    BY <1>1, <2>1, Zenon DEF WaitInv, ClientInv, Active
  <2>2. CASE v = w
    BY <1>2, <1>4, <2>2, Zenon
  <2> QED BY <2>1, <2>2, Zenon
<1>12. ReturnInv(P)'
  <2> SUFFICES ASSUME NEW v \in Wave, call'[v].at = "wait", NEW m \in Active(v)' \ call'[v].todo
               PROVE  Finished(P, HandleOf[v], Idx(v, m))'
    BY Zenon DEF ReturnInv
  <2>1. v # w
    BY <1>2, <1>4, Zenon
  <2>2. call'[v] = call[v] /\ m \in Active(v) \ call[v].todo /\ Idx(v, m)' = Idx(v, m)
    BY <1>1, <2>1, Zenon DEF Active, Idx
  <2>3. Finished(P, HandleOf[v], Idx(v, m))
    BY <2>2, Zenon DEF ClientInv, ReturnInv
  <2> QED BY <1>7, <2>2, <2>3, Zenon DEF Finished
<1> QED BY <1>8, <1>9, <1>10, <1>11, <1>12, Zenon DEF ClientInv

\* A lane that sees its status byte has its own command finished.
LEMMA ObserveStep ==
  ASSUME IInv, GridFits, NEW P, ClientInv(P), NEW w \in Wave, NEW l \in Lane, ObserveStatus(w, l)
  PROVE  ClientInv(P)'
<1>1. PICK c : c = [call[w] EXCEPT !.todo = @ \ {l}]
  BY Zenon
<1>2. /\ call[w] \in Call /\ call[w].at = "wait" /\ status[MyStatus(w, l)] = 1
      /\ UNCHANGED <<queueVars, pollVars, status>>
      /\ call'[w] = c /\ \A v \in Wave : v # w => call'[v] = call[v]
  BY <1>1, Zenon DEF IInv, TypeOK, ObserveStatus
<1>3. /\ c.at = "wait" /\ c.cmd = call[w].cmd /\ c.lanes = call[w].lanes /\ c.base = call[w].base
      /\ c.todo = call[w].todo \ {l}
  BY <1>1, <1>2, Zenon DEF Call
<1>4. /\ \A v \in Wave : /\ Active(v)' = Active(v) /\ call'[v].at = call[v].at /\ call'[v].cmd = call[v].cmd
                         /\ call'[v].base = call[v].base /\ call'[v].todo \subseteq call[v].todo
                         /\ v # w => call'[v].todo = call[v].todo
  BY <1>2, <1>3, Zenon DEF Active
<1>5. Keeps
  BY <1>2, <1>4, Zenon DEF Keeps, Posted, ElementOf
<1>6. WaitInv'
  BY <1>4, Zenon DEF WaitInv, ClientInv
<1>7. \A k, i : PassedOn(k, i)' <=> PassedOn(k, i)
  BY <1>2, Zenon DEF PassedOn, queueVars, pollVars
<1>8. ReturnInv(P)'
  <2> SUFFICES ASSUME NEW v \in Wave, call'[v].at = "wait", NEW m \in Active(v)' \ call'[v].todo
               PROVE  Finished(P, HandleOf[v], Idx(v, m))'
    BY Zenon DEF ReturnInv
  <2>1. call[v].at = "wait" /\ m \in Active(v) /\ Idx(v, m)' = Idx(v, m)
    BY <1>4, Zenon DEF Idx
  <2>2. Finished(P, HandleOf[v], Idx(v, m))
    <3>1. CASE m \notin call[v].todo
      BY <2>1, <3>1, Zenon DEF ClientInv, ReturnInv
    <3>2. CASE v = w /\ m = l
      BY <1>2, <3>2, Zenon DEF ClientInv, StatusInv
    <3> QED BY <1>2, <1>3, <1>4, <3>1, <3>2, Zenon
  <2> QED BY <1>7, <2>1, <2>2, Zenon DEF Finished
<1> QED BY <1>2, <1>5, <1>6, <1>8, ClientFrame, Zenon

\* The bytes of the wave are cleared: nothing that could set one again is left.
LEMMA ResetStep ==
  ASSUME IInv, GridFits, NEW P, ClientInv(P), NEW w \in Wave, ResetStatus(w)
  PROVE  ClientInv(P)'
<1>1. /\ call[w].at = "wait" /\ call[w].todo = {}
      /\ call'[w] = NoCall /\ \A v \in Wave : v # w => call'[v] = call[v]
  BY Zenon DEF IInv, TypeOK, ResetStatus
<1>2. call'[w].at = "idle"
  BY <1>1, NoCallType, Zenon
<1>3. "idle" # "wait"
  BY Zenon
<1>4. \A l \in Active(w) : Finished(P, HandleOf[w], Idx(w, l))
  BY <1>1, Zenon DEF ClientInv, ReturnInv
<1>5. ASSUME NEW v \in Wave, NEW m \in Lane, Posted(v, m), v # w
      PROVE  Posted(v, m)' /\ ElementOf(v, m)' = ElementOf(v, m) /\ Idx(v, m)' = Idx(v, m)
  BY <1>1, <1>5, Zenon DEF Posted, Active, ElementOf, Idx
<1>6. ASSUME NEW e, Awaits(e), ~ Finished(P, e.hnd, e.idx)
      PROVE  Awaits(e)'
  <2>1. PICK v \in Wave, m \in Lane : Posted(v, m) /\ e = ElementOf(v, m)
    BY <1>6, Zenon DEF Awaits
  <2>2. e.hnd = HandleOf[v] /\ e.idx = Idx(v, m)
    BY <2>1, Zenon DEF ElementOf, Idx
  <2>3. v # w
    BY <1>4, <1>6, <2>1, <2>2, Zenon DEF Posted
  <2> QED BY <1>5, <2>1, <2>3, Zenon DEF Awaits
<1>7. UNCHANGED <<queueVars, pollVars>>
  BY Zenon DEF ResetStatus
<1>8. \A k, i : PassedOn(k, i)' <=> PassedOn(k, i)
  BY <1>7, Zenon DEF PassedOn, queueVars, pollVars
<1>9. PendingInv(P)'
  BY <1>6, <1>8, Zenon DEF ClientInv, PendingInv, Finished
<1>10. UnreadInv'
  <2> SUFFICES ASSUME NEW k \in Queue, NEW s \in Slot, NEW e, e = element'[k][s], Unread(k, s)', Blocking(e.cmd)
               PROVE  Awaits(e)'
    BY UnreadNext, Zenon
  <2>1. Unread(k, s) /\ e = element[k][s]
    BY <1>7, Zenon DEF Unread, ReadSlot, queueVars, pollVars
  <2>2. Awaits(e)
    BY <2>1, Zenon DEF ClientInv, UnreadInv
  <2>3. QueueOf[e.hnd] = k /\ ~ PassedOn(k, e.idx)
    BY <2>1, UnreadNotPassed, SMTT(30)
  <2> QED BY <1>6, <2>2, <2>3, Zenon DEF Finished
<1>11. StatusInv(P)'
  <2> SUFFICES ASSUME NEW v \in Wave, NEW m \in Lane, status'[MyStatus(v, m)] = 1
               PROVE  Posted(v, m)' /\ Finished(P, HandleOf[v], Idx(v, m))'
    BY Zenon DEF StatusInv, MyStatus, MyQueue
  <2>1. MyStatus(v, m) \in Addr /\ 0 # 1
    BY StatusApart
  <2>2. status[MyStatus(v, m)] = 1 /\ ~ \E l \in Active(w) : MyStatus(v, m) = MyStatus(w, l)
    BY <2>1, Zenon DEF ResetStatus
  <2>3. Posted(v, m) /\ Finished(P, HandleOf[v], Idx(v, m))
    BY <2>2, Zenon DEF ClientInv, StatusInv
  <2>4. v # w
    BY <2>2, <2>3, Zenon DEF Posted
  <2> QED BY <1>5, <1>8, <2>3, <2>4, Zenon DEF Finished
<1>12. WaitInv'
  BY <1>1, <1>2, <1>3, Zenon DEF WaitInv, ClientInv, Active
<1>13. ReturnInv(P)'
  <2> SUFFICES ASSUME NEW v \in Wave, call'[v].at = "wait", NEW m \in Active(v)' \ call'[v].todo
               PROVE  Finished(P, HandleOf[v], Idx(v, m))'
    BY Zenon DEF ReturnInv
  <2>1. v # w
    BY <1>2, <1>3, Zenon
  <2>2. call'[v] = call[v] /\ m \in Active(v) \ call[v].todo /\ Idx(v, m)' = Idx(v, m)
    BY <1>1, <2>1, Zenon DEF Active, Idx
  <2> QED BY <1>8, <2>2, Zenon DEF Finished, ClientInv, ReturnInv
<1> QED BY <1>9, <1>10, <1>11, <1>12, <1>13, Zenon DEF ClientInv

\* Steps of the poll thread: P becomes R.
LEMMA PassSteps ==
  ASSUME IInv, NEW P, ClientInv(P), NEW R, PendingInv(R)',
         UNCHANGED <<element, status, call>>,
         \A k \in Queue, s \in Slot : Unread(k, s)' => Unread(k, s),
         \A h \in Handle, i \in Nat : Finished(P, h, i) => Finished(R, h, i)'
  PROVE  ClientInv(R)'
<1>1. \A w, l : /\ Posted(w, l)' <=> Posted(w, l)
                /\ ElementOf(w, l)' = ElementOf(w, l) /\ Idx(w, l)' = Idx(w, l)
  BY Zenon DEF Posted, ElementOf, Active, Idx
<1>2. WaitInv'
  BY Zenon DEF WaitInv, ClientInv, Active
<1>3. UnreadInv'
  <2> SUFFICES ASSUME NEW k \in Queue, NEW s \in Slot, NEW e, e = element'[k][s], Unread(k, s)', Blocking(e.cmd)
               PROVE  Awaits(e)'
    BY UnreadNext, Zenon
  <2>1. Awaits(e)
    BY Zenon DEF ClientInv, UnreadInv
  <2> QED BY <1>1, <2>1, Zenon DEF Awaits
<1>4. StatusInv(R)'
  <2> SUFFICES ASSUME NEW w \in Wave, NEW l \in Lane, status[MyStatus(w, l)] = 1
               PROVE  Posted(w, l)' /\ Finished(R, HandleOf[w], Idx(w, l))'
    BY Zenon DEF StatusInv, MyStatus, MyQueue
  <2>1. Posted(w, l) /\ Finished(P, HandleOf[w], Idx(w, l))
    BY Zenon DEF ClientInv, StatusInv
  <2>2. HandleOf[w] \in Handle /\ Idx(w, l) \in Nat
    BY <2>1, PostedLane, HandleOfType, Zenon DEF IInv
  <2>3. PICK i : i = Idx(w, l)
    BY Zenon
  <2>4. Finished(R, HandleOf[w], i)'
    BY <2>1, <2>2, <2>3, Zenon
  <2> QED BY <1>1, <2>1, <2>3, <2>4, Zenon DEF Finished
<1>5. ReturnInv(R)'
  <2> SUFFICES ASSUME NEW w \in Wave, call[w].at = "wait", NEW l \in Active(w) \ call[w].todo
               PROVE  Finished(R, HandleOf[w], Idx(w, l))'
    BY Zenon DEF ReturnInv, Active
  <2>1. Finished(P, HandleOf[w], Idx(w, l))
    BY Zenon DEF ClientInv, ReturnInv
  <2>2. HandleOf[w] \in Handle /\ Idx(w, l) \in Nat
    BY PostedLane, HandleOfType, Zenon DEF IInv
  <2>3. PICK i : i = Idx(w, l)
    BY Zenon
  <2>4. Finished(R, HandleOf[w], i)'
    BY <2>1, <2>2, <2>3, Zenon
  <2> QED BY <1>1, <2>3, <2>4, Zenon DEF Finished
<1> QED BY <1>2, <1>3, <1>4, <1>5, Zenon DEF ClientInv

\* Nothing is passed on or finished.
LEMMA QuietSteps ==
  ASSUME IInv, NEW P, ClientInv(P), UNCHANGED <<element, status, call>>,
         \A k \in Queue, s \in Slot : Unread(k, s)' => Unread(k, s),
         \A k \in Queue, i \in Nat : PassedOn(k, i) => PassedOn(k, i)'
  PROVE  ClientInv(P)'
<1>1. \A h \in Handle : QueueOf[h] \in Queue
  BY ConstantsAssumption, Zenon
<1>2. \A h \in Handle, i \in Nat : Finished(P, h, i) => Finished(P, h, i)'
  BY <1>1, Zenon DEF Finished
<1>3. PendingInv(P)'
  <2> SUFFICES ASSUME NEW e \in P PROVE /\ e \in Element /\ PassedOn(QueueOf[e.hnd], e.idx)'
                                        /\ Blocking(e.cmd) => Awaits(e)'
    BY Zenon DEF PendingInv
  <2>1. e \in Element /\ PassedOn(QueueOf[e.hnd], e.idx) /\ (Blocking(e.cmd) => Awaits(e))
    BY Zenon DEF ClientInv, PendingInv
  <2>2. e.hnd \in Handle /\ e.idx \in Nat
    BY <2>1, Zenon DEF Element
  <2> QED BY <1>1, <2>1, <2>2, Zenon DEF Awaits, Posted, ElementOf, Active
<1> QED BY <1>2, <1>3, PassSteps, Zenon

\* The element that insertRequest gets is the one at the read index, which
\* nobody was waiting for in vain before.
LEMMA InsertStep ==
  ASSUME IInv, PrivateQueues, NEW P, ClientInv(P), NEW R, R = P \union {cache},
         pollAt = "insert", pollAt' = "clear", pollQueue' = pollQueue,
         UNCHANGED <<queueVars, status, call>>
  PROVE  ClientInv(R)'
<1>0. "insert" \notin {"clear", "advance"} /\ "clear" \in {"clear", "advance"}
  BY Zenon
<1>1. PICK e, k, r : e = cache /\ k = pollQueue /\ r = host_read_index[k]
  BY Zenon
<1>2. /\ k \in Queue /\ r \in Nat /\ e = element[k][SlotOf(r)] /\ valid[k][SlotOf(r)] = 1
      /\ SlotOf(r) \in Slot /\ SlotOf(r) = ReadSlot
  BY <1>1, SlotOfType, Zenon DEF IInv, TypeOK, PollInv, ReadSlot
<1>3. e \in Element /\ QueueOf[e.hnd] = k /\ e.idx = r
  BY <1>1, <1>2, ReadElement, Zenon
<1>4. Blocking(e.cmd) => Awaits(e)
  <2>1. Unread(k, SlotOf(r))
    BY <1>0, <1>2, Zenon DEF Unread
  <2> QED BY <1>2, <2>1, Zenon DEF ClientInv, UnreadInv
<1>5. \A g, i : PassedOn(g, i)' <=> PassedOn(g, i) \/ (g = k /\ i = r)
  BY <1>0, <1>1, Zenon DEF PassedOn, queueVars
<1>6. ~ PassedOn(k, r)
  <2>1. ~ (r < r)
    BY <1>2, SMT
  <2> QED BY <1>0, <1>1, <2>1, Zenon DEF PassedOn
<1>7. \A g \in Queue, s \in Slot : Unread(g, s)' => Unread(g, s)
  BY <1>0, Zenon DEF Unread, ReadSlot, queueVars
<1>8. PendingInv(R)'
  <2> SUFFICES ASSUME NEW d \in R PROVE /\ d \in Element /\ PassedOn(QueueOf[d.hnd], d.idx)'
                                        /\ Blocking(d.cmd) => Awaits(d)'
    BY Zenon DEF PendingInv
  <2>1. d \in Element /\ PassedOn(QueueOf[d.hnd], d.idx)' /\ (Blocking(d.cmd) => Awaits(d))
    BY <1>1, <1>3, <1>4, <1>5, Zenon DEF ClientInv, PendingInv
  <2> QED BY <2>1, Zenon DEF Awaits, Posted, ElementOf, Active
<1>9. \A h \in Handle, i \in Nat : Finished(P, h, i) => Finished(R, h, i)'
  BY <1>1, <1>3, <1>5, <1>6, Zenon DEF Finished
<1> QED BY <1>7, <1>8, <1>9, PassSteps, Zenon DEF queueVars

\* The other steps of the poll thread.
LEMMA PollSteps ==
  ASSUME IInv, NEW P, ClientInv(P), CopyFlag \/ CopyPayload \/ ClearValid \/ IncrementReadIndex
  PROVE  ClientInv(P)'
<1> USE DEF queueVars
<1>1. /\ "flag" \notin {"clear", "advance"} /\ "payload" \notin {"clear", "advance"} /\ "insert" \notin {"clear", "advance"}
      /\ "clear" \in {"clear", "advance"} /\ "advance" \in {"clear", "advance"} /\ "advance" # "clear" /\ "flag" # "clear"
      /\ 0 # 1
  BY SMT
<1>2. UNCHANGED <<element, status, call>>
  BY Zenon DEF CopyFlag, CopyPayload, ClearValid, IncrementReadIndex
<1>3. CASE CopyFlag \/ CopyPayload
  <2>1. pollAt \notin {"clear", "advance"} /\ pollAt' \notin {"clear", "advance"} /\ UNCHANGED queueVars
    BY <1>1, <1>3, Zenon DEF CopyFlag, CopyPayload
  <2>2. \A k \in Queue, s \in Slot : Unread(k, s)' => Unread(k, s)
    BY <2>1, Zenon DEF Unread
  <2>3. \A k \in Queue, i \in Nat : PassedOn(k, i) => PassedOn(k, i)'
    BY <2>1, Zenon DEF PassedOn
  <2> QED BY <1>2, <2>2, <2>3, QuietSteps, Zenon
<1>4. CASE ClearValid
  <2>1. /\ pollAt = "clear" /\ pollAt' = "advance" /\ pollQueue' = pollQueue
        /\ host_read_index' = host_read_index /\ ReadSlot' = ReadSlot
    BY <1>4, Zenon DEF ClearValid, ReadSlot
  <2>2. ASSUME NEW k \in Queue, NEW s \in Slot, Unread(k, s)' PROVE Unread(k, s)
    <3>1. valid'[k][s] = 1 /\ ReadSlot \in Slot /\ pollQueue \in Queue /\ valid \in [Queue -> [Slot -> {0, 1}]]
      BY <2>2, SlotOfType, Zenon DEF Unread, ReadSlot, IInv, TypeOK
    <3>2. valid' = [valid EXCEPT ![pollQueue] = [valid[pollQueue] EXCEPT ![ReadSlot] = 0]]
      BY <1>4, Zenon DEF ClearValid
    <3>3. ~ (k = pollQueue /\ s = ReadSlot)
      BY <1>1, <3>1, <3>2, Zenon
    <3>4. valid[k][s] = 1
      BY <3>1, <3>2, <3>3, Zenon
    <3> QED BY <3>3, <3>4, Zenon DEF Unread
  <2>3. \A k \in Queue, i \in Nat : PassedOn(k, i) => PassedOn(k, i)'
    BY <1>1, <2>1, Zenon DEF PassedOn
  <2> QED BY <1>2, <2>2, <2>3, QuietSteps, Zenon
<1>5. CASE IncrementReadIndex
  <2>1. pollAt = "advance" /\ pollAt' = "flag" /\ valid' = valid
    BY <1>5, Zenon DEF IncrementReadIndex
  <2>2. \A k \in Queue, s \in Slot : Unread(k, s)' => Unread(k, s)
    BY <1>1, <2>1, Zenon DEF Unread
  <2>3. ASSUME NEW k \in Queue, NEW i \in Nat, PassedOn(k, i) PROVE PassedOn(k, i)'
    <3>1. PICK r : r = host_read_index[k]
      BY Zenon
    <3>2. r \in Nat /\ host_read_index'[k] = IF k = pollQueue THEN r + 1 ELSE r
      BY <1>5, <3>1, Zenon DEF IncrementReadIndex, IInv, TypeOK
    <3>3. i < r \/ (i = r /\ k = pollQueue)
      BY <2>3, <3>1, Zenon DEF PassedOn
    <3>4. i < host_read_index'[k]
      BY <3>2, <3>3, SMT
    <3> QED BY <3>4, Zenon DEF PassedOn
  <2> QED BY <1>2, <2>2, <2>3, QuietSteps, Zenon
<1> QED BY <1>3, <1>4, <1>5, Zenon

\* The transport finishes the commands F and notifies those that wait.
LEMMA FinishStep ==
  ASSUME IInv, GridFits, NEW P, ClientInv(P), NEW F, F \subseteq P,
         \A e \in F, d \in P : d.hnd = e.hnd /\ d.idx = e.idx => d \in F,
         NEW R, R = P \ F,
         UNCHANGED <<queueVars, call, pollVars>>,
         \A a \in Addr : status'[a] = 1 =>
           status[a] = 1 \/ \E e \in F : Blocking(e.cmd) /\ a = StatusAddr(QueueOf[e.hnd], e.tid)
  PROVE  ClientInv(R)'
<1>1. \A w, l : /\ Posted(w, l)' <=> Posted(w, l)
                /\ ElementOf(w, l)' = ElementOf(w, l) /\ Idx(w, l)' = Idx(w, l)
  BY Zenon DEF Posted, ElementOf, Active, Idx
<1>2. \A k, i : PassedOn(k, i)' <=> PassedOn(k, i)
  BY Zenon DEF PassedOn, queueVars, pollVars
<1>3. \A h, i : Finished(P, h, i) => Finished(R, h, i)'
  BY <1>2, Zenon DEF Finished
<1>4. WaitInv'
  BY Zenon DEF WaitInv, ClientInv, Active
<1>5. PendingInv(R)'
  BY <1>1, <1>2, Zenon DEF ClientInv, PendingInv, Awaits
<1>6. UnreadInv'
  <2> SUFFICES ASSUME NEW k \in Queue, NEW s \in Slot, NEW e, e = element'[k][s], Unread(k, s)', Blocking(e.cmd)
               PROVE  Awaits(e)'
    BY UnreadNext, Zenon
  <2>1. Unread(k, s) /\ e = element[k][s]
    BY Zenon DEF Unread, ReadSlot, queueVars, pollVars
  <2> QED BY <1>1, <2>1, Zenon DEF ClientInv, UnreadInv, Awaits
<1>7. StatusInv(R)'
  <2> SUFFICES ASSUME NEW w \in Wave, NEW l \in Lane, status'[MyStatus(w, l)] = 1
               PROVE  Posted(w, l) /\ Finished(R, HandleOf[w], Idx(w, l))'
    BY <1>1, Zenon DEF StatusInv, MyStatus, MyQueue
  <2>1. MyStatus(w, l) \in Addr
    BY StatusApart, Zenon
  <2>2. PICK i : i = Idx(w, l)
    BY Zenon
  <2>3. CASE status[MyStatus(w, l)] = 1
    <3>1. Posted(w, l) /\ Finished(P, HandleOf[w], i)
      BY <2>2, <2>3, Zenon DEF ClientInv, StatusInv
    <3> QED BY <1>1, <1>3, <2>2, <3>1, Zenon DEF Finished
  <2>4. CASE \E e \in F : Blocking(e.cmd) /\ MyStatus(w, l) = StatusAddr(QueueOf[e.hnd], e.tid)
    <3>1. PICK e \in F : Blocking(e.cmd) /\ MyStatus(w, l) = StatusAddr(QueueOf[e.hnd], e.tid)
      BY <2>4, Zenon
    <3>2. PassedOn(QueueOf[e.hnd], e.idx) /\ Awaits(e)
      BY <3>1, Zenon DEF ClientInv, PendingInv
    <3>3. PICK v \in Wave, m \in Lane : Posted(v, m) /\ e = ElementOf(v, m)
      BY <3>2, Zenon DEF Awaits
    <3>4. e.hnd = HandleOf[v] /\ e.tid = FlatId(v, m) /\ e.idx = Idx(v, m)
      BY <3>3, Zenon DEF ElementOf, Idx
    <3>5. MyStatus(v, m) = MyStatus(w, l)
      BY <3>1, <3>4, Zenon DEF MyStatus, MyQueue
    <3>6. v = w /\ m = l
      BY <3>5, StatusApart, Zenon
    <3>7. Finished(R, HandleOf[w], i)'
      BY <1>2, <2>2, <3>2, <3>4, <3>6, Zenon DEF Finished
    <3> QED BY <1>1, <2>2, <3>3, <3>6, <3>7, Zenon DEF Finished
  <2> QED BY <2>1, <2>3, <2>4, Zenon
<1>8. ReturnInv(R)'
  <2> SUFFICES ASSUME NEW w \in Wave, call[w].at = "wait", NEW l \in Active(w) \ call[w].todo
               PROVE  Finished(R, HandleOf[w], Idx(w, l))'
    BY Zenon DEF ReturnInv, Active
  <2>1. PICK i : i = Idx(w, l)
    BY Zenon
  <2>2. Finished(P, HandleOf[w], i)
    BY <2>1, Zenon DEF ClientInv, ReturnInv
  <2> QED BY <1>1, <1>3, <2>1, <2>2, Zenon DEF Finished
<1> QED BY <1>4, <1>5, <1>6, <1>7, <1>8, Zenon DEF ClientInv
-----------------------------------------------------------------------------
(***************************************************************************)
(* Who a command belongs to.  D stands for the commands that the transport *)
(* has, finished or not.                                                   *)
(***************************************************************************)

\* Wave w is in a call that has reserved its indices.
Holds(w) == call[w].at \in {"unlock", "fill", "publish", "wait"}

\* A command that the transport has or that waits in a slot with its flag set.
Known(D, e) == e \in D \/ \E k \in Queue, s \in Slot : valid[k][s] = 1 /\ e = element[k][s]

\* It is what the lane with its index, if that lane has not returned, has written.
KnownInv(D) ==
  \A e : Known(D, e) =>
    /\ e \in Element /\ e.tid \in 0 .. MAX_THREADS_PER_BLOCK - 1 /\ e.idx < write_index[e.hnd]
    /\ \A w \in Wave : \A l \in Active(w) :
         Holds(w) /\ HandleOf[w] = e.hnd /\ Idx(w, l) = e.idx => e = ElementOf(w, l)

\* No two lanes that have not returned have the same index.
RangeInv ==
  \A w \in Wave : \A l \in Active(w) :
    Holds(w) =>
      /\ Idx(w, l) < write_index[HandleOf[w]]
      /\ \A v \in Wave : \A m \in Active(v) :
           Holds(v) /\ HandleOf[v] = HandleOf[w] /\ Idx(v, m) = Idx(w, l) => v = w /\ m = l

LEMMA LaneElement ==
  ASSUME IInv, GridFits, NEW w \in Wave, NEW l \in Active(w), Holds(w)
  PROVE  /\ ElementOf(w, l) \in Element /\ ElementOf(w, l).tid \in 0 .. MAX_THREADS_PER_BLOCK - 1
         /\ ElementOf(w, l).hnd = HandleOf[w] /\ ElementOf(w, l).idx = Idx(w, l)
<1>1. l \in Lane /\ Idx(w, l) \in Nat /\ HandleOf[w] \in Handle
      BY PostedLane, HandleOfType, Zenon DEF IInv
<1>2. call[w].cmd \in Cmd
      BY Zenon DEF IInv, CallInv, Holds
<1>3. FlatId(w, l) \in 0 .. NumWaves * WaveSize - 1
      BY <1>1, DigitBound, ConstantsAssumption, Zenon DEF FlatId, Wave, Lane
<1>4. FlatId(w, l) \in Nat /\ FlatId(w, l) \in 0 .. MAX_THREADS_PER_BLOCK - 1
  <2>1. \A a, b \in Nat : a * b \in Nat
        OBVIOUS
  <2>2. PICK f, g \in Nat : f = FlatId(w, l) /\ g = NumWaves * WaveSize
        BY <1>1, <2>1, FlatIdType, ConstantsAssumption, Zenon
  <2>3. f \in 0 .. g - 1 /\ g <= MAX_THREADS_PER_BLOCK
        BY <1>3, <2>2, Zenon DEF GridFits
  <2>4. f \in Nat /\ f \in 0 .. MAX_THREADS_PER_BLOCK - 1
        BY <2>2, <2>3, ConstantsAssumption
  <2> QED BY <2>2, <2>4, Zenon
<1>5. PICK e, i, t, c : /\ e = ElementOf(w, l) /\ i = Idx(w, l) /\ t = FlatId(w, l) /\ c = call[w].cmd
                        /\ e = [hnd |-> HandleOf[w], idx |-> i, tid |-> t, cmd |-> c]
      BY Zenon DEF ElementOf, Idx
<1>6. e \in Element /\ e.tid = t /\ e.hnd = HandleOf[w] /\ e.idx = i
  <2>1. t \in Nat /\ i \in Nat /\ c \in Cmd /\ HandleOf[w] \in Handle
        BY <1>1, <1>2, <1>4, <1>5, Zenon
  <2>2. e = [hnd |-> HandleOf[w], idx |-> i, tid |-> t, cmd |-> c]
        BY <1>5, Zenon
  <2>3. PICK x : x = HandleOf[w]
        BY Zenon
  <2>4. x \in Handle /\ e = [hnd |-> x, idx |-> i, tid |-> t, cmd |-> c]
        BY <2>1, <2>2, <2>3, Zenon
  <2>5. e \in Element /\ e.tid = t /\ e.hnd = x /\ e.idx = i
        BY <2>1, <2>4 DEF Element
  <2> QED BY <2>3, <2>5, Zenon
<1> QED BY <1>4, <1>5, <1>6, Zenon

\* A step in which no wave reserves indices, and that makes known only what a
\* lane has written: D becomes R.
LEMMA KnownFrame ==
  ASSUME IInv, GridFits, NEW D, NEW R, KnownInv(D), RangeInv, write_index' = write_index,
         \A v \in Wave : Holds(v)' =>
           /\ Holds(v) /\ call'[v].lanes = call[v].lanes
           /\ call'[v].base = call[v].base /\ call'[v].cmd = call[v].cmd,
         \A e : Known(R, e)' =>
           Known(D, e) \/ \E w \in Wave : \E l \in Active(w) : Holds(w) /\ e = ElementOf(w, l)
  PROVE  KnownInv(R)' /\ RangeInv'
<1>1. \A v \in Wave : Holds(v)' =>
        /\ Holds(v) /\ Active(v)' = Active(v)
        /\ \A l : Idx(v, l)' = Idx(v, l) /\ ElementOf(v, l)' = ElementOf(v, l)
      BY Zenon DEF Active, Idx, ElementOf
<1>2. RangeInv'
  <2> SUFFICES ASSUME NEW w \in Wave, NEW l \in Active(w)', Holds(w)'
               PROVE  /\ Idx(w, l)' < write_index'[HandleOf[w]]
                      /\ \A v \in Wave : \A m \in Active(v)' :
                           Holds(v)' /\ HandleOf[v] = HandleOf[w] /\ Idx(v, m)' = Idx(w, l)' => v = w /\ m = l
      BY Zenon DEF RangeInv
  <2>1. l \in Active(w) /\ Holds(w) /\ Idx(w, l)' = Idx(w, l)
        BY <1>1, Zenon
  <2>2. /\ Idx(w, l) < write_index[HandleOf[w]]
        /\ \A v \in Wave : \A m \in Active(v) :
             Holds(v) /\ HandleOf[v] = HandleOf[w] /\ Idx(v, m) = Idx(w, l) => v = w /\ m = l
        BY <2>1, Zenon DEF RangeInv
  <2>3. ASSUME NEW v \in Wave, NEW m \in Active(v)', Holds(v)', HandleOf[v] = HandleOf[w], Idx(v, m)' = Idx(w, l)'
        PROVE  v = w /\ m = l
    <3>1. m \in Active(v) /\ Holds(v) /\ Idx(v, m)' = Idx(v, m)
          BY <1>1, <2>3, Zenon
    <3> QED BY <2>1, <2>2, <2>3, <3>1, Zenon
  <2> QED BY <2>1, <2>2, <2>3, Zenon
<1>3. ASSUME NEW e, Known(R, e)'
      PROVE  /\ e \in Element /\ e.tid \in 0 .. MAX_THREADS_PER_BLOCK - 1 /\ e.idx < write_index[e.hnd]
             /\ \A w \in Wave : \A l \in Active(w) :
                  Holds(w) /\ HandleOf[w] = e.hnd /\ Idx(w, l) = e.idx => e = ElementOf(w, l)
  <2>1. CASE Known(D, e)
        BY <2>1, Zenon DEF KnownInv
  <2>2. CASE \E w \in Wave : \E l \in Active(w) : Holds(w) /\ e = ElementOf(w, l)
    <3>1. PICK w \in Wave : \E l \in Active(w) : Holds(w) /\ e = ElementOf(w, l)
          BY <2>2, Zenon
    <3>2. PICK l \in Active(w) : Holds(w) /\ e = ElementOf(w, l)
          BY <3>1, Zenon
    <3>3. /\ e \in Element /\ e.tid \in 0 .. MAX_THREADS_PER_BLOCK - 1
          /\ e.hnd = HandleOf[w] /\ e.idx = Idx(w, l)
          BY <3>2, LaneElement, Zenon
    <3>4. /\ Idx(w, l) < write_index[HandleOf[w]]
          /\ \A v \in Wave : \A m \in Active(v) :
               Holds(v) /\ HandleOf[v] = HandleOf[w] /\ Idx(v, m) = Idx(w, l) => v = w /\ m = l
          BY <3>2, Zenon DEF RangeInv
    <3> QED BY <3>2, <3>3, <3>4, Zenon
  <2> QED BY <1>3, <2>1, <2>2, Zenon
<1>4. KnownInv(R)'
  <2> SUFFICES ASSUME NEW e, Known(R, e)'
               PROVE  /\ e \in Element /\ e.tid \in 0 .. MAX_THREADS_PER_BLOCK - 1 /\ e.idx < write_index'[e.hnd]
                      /\ \A w \in Wave : \A l \in Active(w)' :
                           Holds(w)' /\ HandleOf[w] = e.hnd /\ Idx(w, l)' = e.idx => e = ElementOf(w, l)'
      BY Zenon DEF KnownInv
  <2>1. \A w \in Wave : \A l \in Active(w) :
          Holds(w) /\ HandleOf[w] = e.hnd /\ Idx(w, l) = e.idx => e = ElementOf(w, l)
        BY <1>3, Zenon
  <2>2. /\ e \in Element /\ e.tid \in 0 .. MAX_THREADS_PER_BLOCK - 1 /\ e.idx < write_index'[e.hnd]
        BY <1>3, Zenon
  <2>3. ASSUME NEW w \in Wave, NEW l \in Active(w)', Holds(w)', HandleOf[w] = e.hnd, Idx(w, l)' = e.idx
        PROVE  e = ElementOf(w, l)'
    <3>1. Holds(w) /\ l \in Active(w) /\ Idx(w, l)' = Idx(w, l) /\ ElementOf(w, l)' = ElementOf(w, l)
          BY <1>1, <2>3, Zenon
    <3> QED BY <2>1, <2>3, <3>1, Zenon
  <2> QED BY <2>2, <2>3, Zenon
<1> QED BY <1>2, <1>4, Zenon

\* Steps in which the queues stay as they are and no call gets an index.
LEMMA KnownQuiet ==
  ASSUME IInv, GridFits, NEW D, KnownInv(D), RangeInv, UNCHANGED <<write_index, element, call>>,
         \A k \in Queue, s \in Slot : valid'[k][s] = 1 => valid[k][s] = 1
  PROVE  KnownInv(D)' /\ RangeInv'
<1>1. \A e : Known(D, e)' => Known(D, e)
      BY Zenon DEF Known
<1>2. \A v \in Wave : Holds(v)' =>
        /\ Holds(v) /\ call'[v].lanes = call[v].lanes
        /\ call'[v].base = call[v].base /\ call'[v].cmd = call[v].cmd
      BY Zenon DEF Holds
<1> QED BY <1>1, <1>2, KnownFrame, Zenon

\* The call of wave w moves on without a new index.
LEMMA KnownCall ==
  ASSUME IInv, GridFits, NEW D, KnownInv(D), RangeInv, UNCHANGED <<write_index, valid, element>>,
         NEW w \in Wave, NEW c, call' = [call EXCEPT ![w] = c],
         \/ c.at \in {"idle", "space"}
         \/ Holds(w) /\ c.lanes = call[w].lanes /\ c.base = call[w].base /\ c.cmd = call[w].cmd
  PROVE  KnownInv(D)' /\ RangeInv'
<1>1. call'[w] = c /\ \A v \in Wave : v # w => call'[v] = call[v]
      BY Zenon DEF IInv, TypeOK
<1>2. \A e : Known(D, e)' => Known(D, e)
      BY Zenon DEF Known
<1>3. \A v \in Wave : Holds(v)' =>
        /\ Holds(v) /\ call'[v].lanes = call[v].lanes
        /\ call'[v].base = call[v].base /\ call'[v].cmd = call[v].cmd
  <2> SUFFICES ASSUME NEW v \in Wave, Holds(v)'
               PROVE  /\ Holds(v) /\ call'[v].lanes = call[v].lanes
                      /\ call'[v].base = call[v].base /\ call'[v].cmd = call[v].cmd
      BY Zenon
  <2>1. CASE v # w
        BY <1>1, <2>1, Zenon DEF Holds
  <2>2. CASE v = w
    <3>1. c.at \notin {"idle", "space"}
          BY <1>1, <2>2, Zenon DEF Holds
    <3> QED BY <1>1, <2>2, <3>1, Zenon
  <2> QED BY <2>1, <2>2
<1> QED BY <1>2, <1>3, KnownFrame, Zenon

\* A wave fills elements that nobody knows of, and publishes what it has filled.
LEMMA KnownFill ==
  ASSUME IInv, GridFits, NEW D, KnownInv(D), RangeInv, NEW w \in Wave, FillElements(w)
  PROVE  KnownInv(D)' /\ RangeInv'
<1>1. PICK c : c = Locals("publish", call[w].cmd, call[w].lanes, call[w].base, Active(w))
      BY Zenon
<1>2. /\ c.cmd = call[w].cmd /\ c.lanes = call[w].lanes /\ c.base = call[w].base
      BY <1>1 DEF Locals
<1>3. call'[w] = c /\ \A v \in Wave : v # w => call'[v] = call[v]
      BY <1>1, Zenon DEF IInv, TypeOK, FillElements
<1>4. call[w].at = "fill" /\ write_index' = write_index /\ valid' = valid
      BY Zenon DEF FillElements, handleVars
<1>5. \A v \in Wave : Holds(v)' =>
        /\ Holds(v) /\ call'[v].lanes = call[v].lanes
        /\ call'[v].base = call[v].base /\ call'[v].cmd = call[v].cmd
      BY <1>2, <1>3, <1>4, Zenon DEF Holds
<1>6. ASSUME NEW e, Known(D, e)' PROVE Known(D, e)
  <2>1. CASE e \in D
        BY <2>1, Zenon DEF Known
  <2>2. CASE \E k \in Queue, s \in Slot : valid'[k][s] = 1 /\ e = element'[k][s]
    <3>1. PICK k \in Queue, s \in Slot : valid'[k][s] = 1 /\ e = element'[k][s]
          BY <2>2, Zenon
    <3>2. 1 # 0
          OBVIOUS
    <3>3. element'[k][s] = element[k][s]
          BY <1>4, <3>1, <3>2, FillFresh, Zenon
    <3> QED BY <1>4, <3>1, <3>3, Zenon DEF Known
  <2> QED BY <1>6, <2>1, <2>2, Zenon DEF Known
<1> QED BY <1>4, <1>5, <1>6, KnownFrame, Zenon

LEMMA KnownPublish ==
  ASSUME IInv, GridFits, NEW D, KnownInv(D), RangeInv, NEW w \in Wave, NEW l \in Lane, Publish(w, l)
  PROVE  KnownInv(D)' /\ RangeInv'
<1>1. /\ \A v \in Wave : v # w => call'[v] = call[v]
      /\ call[w].at = "publish" /\ l \in call[w].todo
      /\ \/ call'[w].at = "idle"
         \/ call'[w].cmd = call[w].cmd /\ call'[w].lanes = call[w].lanes /\ call'[w].base = call[w].base
      BY PublishCall, Zenon
<1>2. Holds(w) /\ l \in Active(w) /\ l \in Unpublished(w)
      BY <1>1, Zenon DEF Holds, IInv, CallInv, Unpublished
<1>3. \A v \in Wave : Holds(v)' =>
        /\ Holds(v) /\ call'[v].lanes = call[v].lanes
        /\ call'[v].base = call[v].base /\ call'[v].cmd = call[v].cmd
      BY <1>1, <1>2, Zenon DEF Holds
<1>4. element' = element /\ write_index' = write_index
      BY Zenon DEF Publish, handleVars
<1>5. element[MyQueue(w)][SlotOf(Idx(w, l))] = ElementOf(w, l)
      BY <1>1, <1>2, Zenon DEF IInv, OwnerInv, OwnedSlot
<1>6. ASSUME NEW e, Known(D, e)' PROVE Known(D, e) \/ e = ElementOf(w, l)
  <2>1. CASE e \in D
        BY <2>1, Zenon DEF Known
  <2>2. CASE \E k \in Queue, s \in Slot : valid'[k][s] = 1 /\ e = element'[k][s]
    <3>1. PICK k \in Queue, s \in Slot : valid'[k][s] = 1 /\ e = element'[k][s]
          BY <2>2, Zenon
    <3>2. CASE k = MyQueue(w) /\ s = SlotOf(Idx(w, l))
          BY <1>4, <1>5, <3>1, <3>2, Zenon
    <3>3. CASE ~ (k = MyQueue(w) /\ s = SlotOf(Idx(w, l)))
      <4>1. valid \in [Queue -> [Slot -> {0, 1}]] /\ MyQueue(w) \in Queue /\ SlotOf(Idx(w, l)) \in Slot
            BY <1>2, PostedLane, HandleOfType, SlotOfType, Zenon DEF IInv, TypeOK
      <4>2. valid' = [valid EXCEPT ![MyQueue(w)] = [valid[MyQueue(w)] EXCEPT ![SlotOf(Idx(w, l))] = 1]]
            BY Zenon DEF Publish, Idx
      <4>3. valid'[k][s] = valid[k][s]
            BY <3>3, <4>1, <4>2, Zenon
      <4> QED BY <1>4, <3>1, <4>3, Zenon DEF Known
    <3> QED BY <3>2, <3>3
  <2> QED BY <1>6, <2>1, <2>2, Zenon DEF Known
<1> QED BY <1>2, <1>3, <1>4, <1>6, KnownFrame, Zenon

\* New indices start at the write index, which no known command has reached.
LEMMA KnownReserve ==
  ASSUME IInv, NEW D, KnownInv(D), RangeInv, NEW w \in Wave, ReserveSlots(w)
  PROVE  KnownInv(D)' /\ RangeInv'
<1>1. PICK h \in Handle, b \in Nat, n \in 0 .. WaveSize :
        h = HandleOf[w] /\ b = write_index[h] /\ n = call[w].lanes
      BY HandleOfType, Zenon DEF IInv, TypeOK, Call
<1>. DEFINE c == Locals("unlock", call[w].cmd, n, b, {})
<1>2. c.base = b /\ c.lanes = n
      BY DEF Locals
<1>. HIDE DEF c
<1>3. /\ call'[w] = c /\ \A v \in Wave : v # w => call'[v] = call[v]
      /\ write_index'[h] = b + n /\ \A g \in Handle : g # h => write_index'[g] = write_index[g]
      /\ valid' = valid /\ element' = element
      BY <1>1, Zenon DEF ReserveSlots, IInv, TypeOK, queueVars, c
<1>4. n \in Nat
      BY ConstantsAssumption
<1>5. \A g \in Handle, i \in Nat : i < write_index[g] => i < write_index'[g]
  <2>1. \A i \in Nat : i < b => i < b + n
        BY <1>4
  <2> QED BY <1>1, <1>3, <2>1, Zenon
<1>6. /\ Active(w)' = 0 .. n - 1 /\ \A l \in 0 .. n - 1 : Idx(w, l)' = b + l
      BY <1>2, <1>3, Zenon DEF Active, Idx
<1>7. \A l \in 0 .. n - 1 : b + l < b + n /\ ~ (b + l < b) /\ b + l \in Nat
      BY <1>4
<1>8. \A v \in Wave : v # w =>
        /\ Active(v)' = Active(v) /\ (Holds(v)' <=> Holds(v))
        /\ \A l : Idx(v, l)' = Idx(v, l) /\ ElementOf(v, l)' = ElementOf(v, l)
      BY <1>3, Zenon DEF Active, Holds, Idx, ElementOf
<1>9. \A v \in Wave : \A l \in Active(v) : Idx(v, l) \in Nat /\ HandleOf[v] \in Handle
      BY PostedLane, HandleOfType, Zenon DEF IInv
<1>10. \A e : Known(D, e)' <=> Known(D, e)
      BY <1>3, Zenon DEF Known
<1>11. KnownInv(D)'
  <2> SUFFICES ASSUME NEW e, Known(D, e)
               PROVE  /\ e \in Element /\ e.tid \in 0 .. MAX_THREADS_PER_BLOCK - 1 /\ e.idx < write_index'[e.hnd]
                      /\ \A v \in Wave : \A l \in Active(v)' :
                           Holds(v)' /\ HandleOf[v] = e.hnd /\ Idx(v, l)' = e.idx => e = ElementOf(v, l)'
      BY <1>10, Zenon DEF KnownInv
  <2>1. /\ e \in Element /\ e.tid \in 0 .. MAX_THREADS_PER_BLOCK - 1 /\ e.idx < write_index[e.hnd]
        /\ \A v \in Wave : \A l \in Active(v) :
             Holds(v) /\ HandleOf[v] = e.hnd /\ Idx(v, l) = e.idx => e = ElementOf(v, l)
        BY Zenon DEF KnownInv
  <2>2. e.hnd \in Handle /\ e.idx \in Nat
        BY <2>1, Zenon DEF Element
  <2>3. ASSUME NEW v \in Wave, NEW l \in Active(v)', Holds(v)', HandleOf[v] = e.hnd, Idx(v, l)' = e.idx
        PROVE  e = ElementOf(v, l)'
    <3>1. v # w
      <4> SUFFICES ASSUME v = w PROVE FALSE
          OBVIOUS
      <4>1. e.idx < b /\ l \in 0 .. n - 1 /\ e.idx = b + l
            BY <1>1, <1>6, <2>1, <2>3, Zenon
      <4> QED BY <1>7, <4>1, Zenon
    <3>2. /\ Holds(v) /\ l \in Active(v) /\ Idx(v, l)' = Idx(v, l) /\ ElementOf(v, l)' = ElementOf(v, l)
          BY <1>8, <2>3, <3>1, Zenon
    <3> QED BY <2>1, <2>3, <3>2, Zenon
  <2> QED BY <1>5, <2>1, <2>2, <2>3, Zenon
<1>12. RangeInv'
  <2>1. ASSUME NEW v \in Wave, NEW l \in Active(v)', Holds(v)' PROVE Idx(v, l)' < write_index'[HandleOf[v]]
    <3>1. CASE v = w
      <4>1. l \in 0 .. n - 1 /\ Idx(v, l)' = b + l /\ write_index'[HandleOf[v]] = b + n
            BY <1>1, <1>3, <1>6, <2>1, <3>1, Zenon
      <4> QED BY <1>7, <4>1, Zenon
    <3>2. CASE v # w
      <4>1. l \in Active(v) /\ Holds(v) /\ Idx(v, l)' = Idx(v, l)
            BY <1>8, <2>1, <3>2, Zenon
      <4>2. Idx(v, l) < write_index[HandleOf[v]]
            BY <4>1, Zenon DEF RangeInv
      <4>3. Idx(v, l) \in Nat /\ HandleOf[v] \in Handle
            BY <1>9, <4>1, Zenon
      <4> QED BY <1>5, <4>1, <4>2, <4>3, Zenon
    <3> QED BY <3>1, <3>2
  <2>2. ASSUME NEW v \in Wave, v # w, NEW l \in Active(v)', Holds(v)', HandleOf[v] = h, NEW m \in Active(w)',
               Idx(v, l)' = Idx(w, m)'
        PROVE  FALSE
    <3>1. Idx(v, l) < b
          BY <1>1, <1>8, <2>2, Zenon DEF RangeInv
    <3>2. Idx(v, l) = b + m /\ m \in 0 .. n - 1
          BY <1>6, <1>8, <2>2, Zenon
    <3> QED BY <1>7, <3>1, <3>2, Zenon
  <2>3. ASSUME NEW l \in Active(w)', NEW m \in Active(w)', Idx(w, l)' = Idx(w, m)' PROVE l = m
    <3>1. l \in 0 .. n - 1 /\ m \in 0 .. n - 1 /\ b + l = b + m
          BY <1>6, <2>3, Zenon
    <3> QED BY <3>1
  <2>4. ASSUME NEW v \in Wave, NEW l \in Active(v)', Holds(v)', NEW u \in Wave, NEW m \in Active(u)', Holds(u)',
               HandleOf[u] = HandleOf[v], Idx(u, m)' = Idx(v, l)'
        PROVE  u = v /\ m = l
    <3>1. CASE u = w /\ v = w
          BY <2>3, <2>4, <3>1, Zenon
    <3>2. CASE u = w /\ v # w
          BY <1>1, <2>2, <2>4, <3>2, Zenon
    <3>3. CASE u # w /\ v = w
          BY <1>1, <2>2, <2>4, <3>3, Zenon
    <3>4. CASE u # w /\ v # w
      <4>1. l \in Active(v) /\ m \in Active(u) /\ Holds(u) /\ Holds(v) /\ Idx(u, m) = Idx(v, l)
            BY <1>8, <2>4, <3>4, Zenon
      <4> QED BY <2>4, <4>1, Zenon DEF RangeInv
    <3> QED BY <3>1, <3>2, <3>3, <3>4, Zenon
  <2> QED BY <2>1, <2>4, Zenon DEF RangeInv
<1> QED BY <1>11, <1>12, Zenon

\* Every step of the waves.
LEMMA KnownGPU ==
  ASSUME IInv, GridFits, NEW D, KnownInv(D), RangeInv, GPU PROVE KnownInv(D)' /\ RangeInv'
<1>1. ASSUME NEW w \in Wave, AcquireLock(w) PROVE KnownInv(D)' /\ RangeInv'
  <2>1. PICK n \in 1 .. WaveSize, c \in Cmd : call' = [call EXCEPT ![w] = Locals("space", c, n, 0, {})]
        BY <1>1, Zenon DEF AcquireLock
  <2>2. Locals("space", c, n, 0, {}).at = "space"
        BY Zenon DEF Locals
  <2> QED BY <1>1, <2>1, <2>2, KnownCall, Zenon DEF AcquireLock, queueVars
<1>2. ASSUME NEW w \in Wave, RefreshReadIndex(w) PROVE KnownInv(D)' /\ RangeInv'
      BY <1>2, KnownQuiet, Zenon DEF RefreshReadIndex, queueVars
<1>3. ASSUME NEW w \in Wave, ReserveSlots(w) \/ FillElements(w) PROVE KnownInv(D)' /\ RangeInv'
      BY <1>3, KnownReserve, KnownFill, Zenon
<1>4. ASSUME NEW w \in Wave, ReleaseLock(w) PROVE KnownInv(D)' /\ RangeInv'
  <2>1. PICK c : c = [call[w] EXCEPT !.at = "fill"]
        BY Zenon
  <2>2. call[w] \in Call /\ DOMAIN call = Wave
        BY Zenon DEF IInv, TypeOK
  <2>3. call' = [call EXCEPT ![w] = c] /\ c.lanes = call[w].lanes /\ c.base = call[w].base /\ c.cmd = call[w].cmd
        BY <1>4, <2>1, <2>2, Zenon DEF ReleaseLock, Call
  <2>4. Holds(w) /\ UNCHANGED <<write_index, valid, element>>
        BY <1>4, Zenon DEF ReleaseLock, Holds, queueVars
  <2> QED BY <2>3, <2>4, KnownCall, Zenon
<1>5. ASSUME NEW w \in Wave, NEW l \in Lane, Publish(w, l) PROVE KnownInv(D)' /\ RangeInv'
      BY <1>5, KnownPublish, Zenon
<1>6. ASSUME NEW w \in Wave, NEW l \in Lane, ObserveStatus(w, l) PROVE KnownInv(D)' /\ RangeInv'
  <2>1. PICK c : c = [call[w] EXCEPT !.todo = @ \ {l}]
        BY Zenon
  <2>2. call[w] \in Call /\ DOMAIN call = Wave
        BY Zenon DEF IInv, TypeOK
  <2>3. call' = [call EXCEPT ![w] = c] /\ c.lanes = call[w].lanes /\ c.base = call[w].base /\ c.cmd = call[w].cmd
        BY <1>6, <2>1, <2>2, Zenon DEF ObserveStatus, Call
  <2>4. Holds(w) /\ UNCHANGED <<write_index, valid, element>>
        BY <1>6, Zenon DEF ObserveStatus, Holds, handleVars, queueVars
  <2> QED BY <2>3, <2>4, KnownCall, Zenon
<1>7. ASSUME NEW w \in Wave, ResetStatus(w) PROVE KnownInv(D)' /\ RangeInv'
      BY <1>7, NoCallType, KnownCall, Zenon DEF ResetStatus, handleVars, queueVars
<1> QED BY <1>1, <1>2, <1>3, <1>4, <1>5, <1>6, <1>7, Zenon DEF GPU

\* Every step of the poll thread: insertRequest gets what was in the slot.
LEMMA KnownPoll ==
  ASSUME IInv, GridFits, NEW D, KnownInv(D), RangeInv,
         CopyFlag \/ CopyPayload \/ ClearValid \/ IncrementReadIndex
  PROVE  KnownInv(D)' /\ RangeInv'
<1>1. UNCHANGED <<write_index, element, call>>
      BY Zenon DEF CopyFlag, CopyPayload, ClearValid, IncrementReadIndex, handleVars, queueVars
<1>2. ASSUME NEW k \in Queue, NEW s \in Slot, valid'[k][s] = 1 PROVE valid[k][s] = 1
  <2>1. CASE valid' = valid
        BY <1>2, <2>1, Zenon
  <2>2. CASE ClearValid
    <3>1. ReadSlot \in Slot /\ pollQueue \in Queue /\ valid \in [Queue -> [Slot -> {0, 1}]]
          BY SlotOfType, Zenon DEF ReadSlot, IInv, TypeOK
    <3>2. valid' = [valid EXCEPT ![pollQueue] = [valid[pollQueue] EXCEPT ![ReadSlot] = 0]]
          BY <2>2, Zenon DEF ClearValid
    <3>3. 0 # 1
          OBVIOUS
    <3> QED BY <1>2, <3>1, <3>2, <3>3, Zenon
  <2> QED BY <2>1, <2>2, Zenon DEF CopyFlag, CopyPayload, IncrementReadIndex, queueVars
<1> QED BY <1>1, <1>2, KnownQuiet, Zenon

LEMMA KnownInsert ==
  ASSUME IInv, GridFits, NEW D, KnownInv(D), RangeInv, InsertRequest, NEW R, R = D \union {cache}
  PROVE  KnownInv(R)' /\ RangeInv' /\ Known(D, cache)
<1>1. UNCHANGED <<write_index, element, call, valid>> /\ pollAt = "insert"
      BY Zenon DEF InsertRequest, handleVars, queueVars
<1>2. Known(D, cache)
  <2>1. pollQueue \in Queue /\ ReadSlot \in Slot
        BY SlotOfType, Zenon DEF ReadSlot, IInv, TypeOK
  <2> QED BY <1>1, <2>1, Zenon DEF IInv, PollInv, Known
<1>3. \A e : Known(R, e)' => Known(D, e)
      BY <1>1, <1>2, Zenon DEF Known
<1>4. \A v \in Wave : Holds(v)' =>
        /\ Holds(v) /\ call'[v].lanes = call[v].lanes
        /\ call'[v].base = call[v].base /\ call'[v].cmd = call[v].cmd
      BY <1>1, Zenon DEF Holds
<1> QED BY <1>1, <1>2, <1>3, <1>4, KnownFrame, Zenon

\* ClientInv in every step of the waves.
LEMMA ClientGPU ==
  ASSUME IInv, GridFits, NEW P, ClientInv(P), GPU PROVE ClientInv(P)'
BY LockSteps, FillStep, ResetStep, PublishStep, ObserveStep, Zenon DEF GPU

-----------------------------------------------------------------------------
\* The commands that the transport of RoQueue has and has not finished.
Elems == {q[j].elem : j \in DOMAIN q}

\* They are filed under their own queue, and no two have the same index.
QInv ==
  /\ \A j \in DOMAIN q : q[j].queue = QueueOf[q[j].elem.hnd]
  /\ \A i, j \in DOMAIN q :
       q[i].elem.hnd = q[j].elem.hnd /\ q[i].elem.idx = q[j].elem.idx => i = j

\* Two sequences in a row.
LEMMA Concatenated ==
  ASSUME NEW S, NEW a \in Seq(S), NEW b \in Seq(S)
  PROVE  /\ a \o b \in Seq(S) /\ Len(a \o b) = Len(a) + Len(b)
         /\ \A j \in 1 .. Len(a) + Len(b) : (a \o b)[j] = IF j <= Len(a) THEN a[j] ELSE b[j - Len(a)]
OBVIOUS

\* What is left of a sequence when its i-th element is taken out.
LEMMA TakenOut ==
  ASSUME NEW S, NEW s \in Seq(S), NEW i \in 1 .. Len(s), NEW t,
         t = SubSeq(s, 1, i - 1) \o SubSeq(s, i + 1, Len(s))
  PROVE  /\ DOMAIN t = 1 .. Len(s) - 1
         /\ \A j \in 1 .. Len(s) - 1 : t[j] = s[IF j < i THEN j ELSE j + 1]
<1>1. SubSeq(s, 1, i - 1) \in Seq(S) /\ Len(SubSeq(s, 1, i - 1)) = i - 1
  OBVIOUS
<1>2. SubSeq(s, i + 1, Len(s)) \in Seq(S) /\ Len(SubSeq(s, i + 1, Len(s))) = Len(s) - i
  OBVIOUS
<1>3. PICK a, b : a = SubSeq(s, 1, i - 1) /\ b = SubSeq(s, i + 1, Len(s))
  BY Zenon
<1>4. /\ \A j \in 1 .. i - 1 : a[j] = s[j]
      /\ \A j \in 1 .. Len(s) - i : b[j] = s[i + j]
  BY <1>3
<1>5. /\ t = a \o b /\ a \in Seq(S) /\ b \in Seq(S) /\ Len(a) = i - 1 /\ Len(b) = Len(s) - i
  BY <1>1, <1>2, <1>3, Zenon
<1>6. PICK n : n = Len(s)
  BY Zenon
<1>7. n \in Nat /\ i \in 1 .. n
  BY <1>6
<1>8. t \in Seq(S) /\ Len(t) = Len(a) + Len(b)
  BY <1>5, Concatenated, Zenon
<1>9. Len(t) = n - 1
  <2>1. Len(t) = (i - 1) + (n - i)
    BY <1>5, <1>6, <1>8, Zenon
  <2>2. (i - 1) + (n - i) = n - 1
    BY <1>7, SMT
  <2> QED BY <2>1, <2>2, Zenon
<1>10. DOMAIN t = 1 .. n - 1
  <2>1. DOMAIN t = 1 .. Len(t)
    BY <1>8
  <2> QED BY <1>9, <2>1, Zenon
<1>11. \A j \in 1 .. Len(a) + Len(b) : t[j] = IF j <= Len(a) THEN a[j] ELSE b[j - Len(a)]
  <2>1. \A j \in 1 .. Len(a) + Len(b) : (a \o b)[j] = IF j <= Len(a) THEN a[j] ELSE b[j - Len(a)]
    BY <1>5, Concatenated, Zenon
  <2> QED BY <1>5, <2>1, Zenon
<1>12. \A j \in 1 .. n - 1 : t[j] = IF j <= i - 1 THEN a[j] ELSE b[j - (i - 1)]
  BY <1>5, <1>8, <1>9, <1>11, Zenon
<1>13. ASSUME NEW j \in 1 .. n - 1 PROVE t[j] = s[IF j < i THEN j ELSE j + 1]
  <2>1. CASE j < i
    <3>1. j \in 1 .. i - 1 /\ j <= i - 1
      BY <1>7, <2>1, SMT
    <3> QED BY <1>4, <1>12, <2>1, <3>1, Zenon
  <2>2. CASE ~ (j < i)
    <3>1. j - (i - 1) \in 1 .. n - i /\ i + (j - (i - 1)) = j + 1 /\ ~ (j <= i - 1)
      BY <1>7, <2>2, SMT
    <3>2. t[j] = s[j + 1]
      BY <1>4, <1>6, <1>12, <3>1, Zenon
    <3> QED BY <2>2, <3>2, Zenon
  <2> QED BY <2>1, <2>2, Zenon
<1> QED BY <1>6, <1>10, <1>13, Zenon

\* Serve takes one entry out.
LEMMA ServeElems ==
  ASSUME TypeOK, QInv, NEW i \in 1 .. Len(q), Serve(i), NEW e, e = q[i].elem
  PROVE  QInv' /\ Elems' = Elems \ {e}
<1> DEFINE At(j) == IF j < i THEN j ELSE j + 1
<1>1. q \in Seq(Request) /\ DOMAIN q = 1 .. Len(q) /\ Len(q) \in Nat
  BY DEF TypeOK
<1>2. DOMAIN q' = 1 .. Len(q) - 1 /\ \A j \in 1 .. Len(q) - 1 : q'[j] = q[At(j)]
  BY <1>1, TakenOut, Zenon DEF Serve
<1>3. PICK n : n = Len(q)
  BY Zenon
<1>4. /\ \A j \in 1 .. n - 1 : At(j) \in 1 .. n /\ At(j) # i
      /\ \A j, m \in 1 .. n - 1 : At(j) = At(m) => j = m
      /\ \A m \in 1 .. n : m # i => \E j \in 1 .. n - 1 : At(j) = m
  <2>1. n \in Nat /\ i \in 1 .. n
    BY <1>1, <1>3, Zenon
  <2>2. \A j \in 1 .. n - 1 : At(j) \in 1 .. n /\ At(j) # i
    BY <2>1, SMT
  <2>3. \A j, m \in 1 .. n - 1 : At(j) = At(m) => j = m
    BY <2>1, SMT
  <2>4. ASSUME NEW m \in 1 .. n, m # i PROVE \E j \in 1 .. n - 1 : At(j) = m
    <3>1. CASE m < i
      <4>1. m \in 1 .. n - 1 /\ At(m) = m
        BY <2>1, <3>1, SMT
      <4> QED BY <4>1, Zenon
    <3>2. CASE ~ (m < i)
      <4>1. m - 1 \in 1 .. n - 1 /\ At(m - 1) = m
        BY <2>1, <2>4, <3>2, SMT
      <4> QED BY <4>1, Zenon
    <3> QED BY <3>1, <3>2, Zenon
  <2> QED BY <2>2, <2>3, <2>4, Zenon
<1> HIDE DEF At
<1>5. QInv'
  <2>1. ASSUME NEW j \in DOMAIN q' PROVE At(j) \in DOMAIN q /\ q'[j] = q[At(j)] /\ j \in 1 .. n - 1
    BY <1>1, <1>2, <1>3, <1>4, <2>1, Zenon
  <2>2. ASSUME NEW j \in DOMAIN q' PROVE q'[j].queue = QueueOf[q'[j].elem.hnd]
    <3>1. PICK x : x = At(j)
      BY Zenon
    <3>2. x \in DOMAIN q /\ q'[j] = q[x]
      BY <2>1, <2>2, <3>1, Zenon
    <3>3. q[x].queue = QueueOf[q[x].elem.hnd]
      BY <3>2, Zenon DEF QInv
    <3> QED BY <3>2, <3>3, Zenon
  <2>3. ASSUME NEW j \in DOMAIN q', NEW m \in DOMAIN q',
               q'[j].elem.hnd = q'[m].elem.hnd, q'[j].elem.idx = q'[m].elem.idx
        PROVE  j = m
    <3>1. PICK x, y : x = At(j) /\ y = At(m)
      BY Zenon
    <3>2. x \in DOMAIN q /\ q'[j] = q[x] /\ y \in DOMAIN q /\ q'[m] = q[y] /\ j \in 1 .. n - 1 /\ m \in 1 .. n - 1
      BY <2>1, <2>3, <3>1, Zenon
    <3>3. q[x].elem.hnd = q[y].elem.hnd /\ q[x].elem.idx = q[y].elem.idx
      BY <2>3, <3>2, Zenon
    <3>4. x = y
      BY <3>2, <3>3, Zenon DEF QInv
    <3> QED BY <1>4, <3>1, <3>2, <3>4, Zenon
  <2> QED BY <2>2, <2>3, Zenon DEF QInv
<1>6. ASSUME NEW d PROVE d \in Elems' <=> d \in Elems /\ d # e
  <2>1. d \in Elems' => d \in Elems /\ d # e
    <3> SUFFICES ASSUME NEW j \in 1 .. n - 1, d = q'[j].elem PROVE d \in Elems /\ d # e
      BY <1>2, <1>3, Zenon DEF Elems
    <3>1. d = q[At(j)].elem /\ At(j) \in DOMAIN q /\ At(j) # i /\ i \in DOMAIN q
      BY <1>1, <1>2, <1>3, <1>4, Zenon
    <3> QED BY <3>1, Zenon DEF Elems, QInv
  <2>2. d \in Elems /\ d # e => d \in Elems'
    <3> SUFFICES ASSUME NEW m \in 1 .. n, d = q[m].elem, m # i PROVE d \in Elems'
      BY <1>1, <1>3, Zenon DEF Elems
    <3>1. PICK j \in 1 .. n - 1 : At(j) = m
      BY <1>4, Zenon
    <3>2. j \in DOMAIN q' /\ q'[j].elem = d
      BY <1>2, <1>3, <3>1, Zenon
    <3> QED BY <3>2, Zenon DEF Elems
  <2> QED BY <2>1, <2>2, Zenon
<1> QED BY <1>5, <1>6, Zenon

\* InsertRequest appends one that no entry has the index of.
LEMMA InsertElems ==
  ASSUME IInv, PrivateQueues, ClientInv(Elems), QInv, InsertRequest
  PROVE  QInv' /\ Elems' = Elems \union {cache}
<1>1. PICK e, k, r, n : e = cache /\ k = pollQueue /\ r = host_read_index[k] /\ n = Len(q)
  BY Zenon
<1>2. /\ q \in Seq(Request) /\ DOMAIN q = 1 .. n /\ n \in Nat
      /\ q' = Append(q, [elem |-> e, queue |-> k])
  BY <1>1 DEF InsertRequest, IInv, TypeOK
<1>3. DOMAIN q' = 1 .. n + 1 /\ \A j \in 1 .. n : q'[j] = q[j]
  BY <1>1, <1>2
<1>4. q'[n + 1].elem = e /\ q'[n + 1].queue = k
  BY <1>1, <1>2
<1>5. 1 .. n + 1 = 1 .. n \union {n + 1} /\ n + 1 \notin 1 .. n
  BY <1>2, SMT
<1>6. k \in Queue /\ r \in Nat /\ e = element[k][SlotOf(r)] /\ valid[k][SlotOf(r)] = 1
  BY <1>1, SlotOfType, Zenon DEF IInv, TypeOK, PollInv, ReadSlot, InsertRequest
<1>7. QueueOf[e.hnd] = k /\ e.idx = r
  BY <1>1, <1>6, ReadElement, Zenon
<1>8. ~ PassedOn(k, r)
  <2>1. ~ (r < r) /\ "insert" \notin {"clear", "advance"}
    BY <1>6, SMT
  <2> QED BY <1>1, <2>1, Zenon DEF PassedOn, InsertRequest
<1>9. \A j \in 1 .. n : ~ (q[j].elem.hnd = e.hnd /\ q[j].elem.idx = e.idx)
  BY <1>2, <1>7, <1>8, Zenon DEF ClientInv, PendingInv, Elems
<1>10. QInv'
  <2>1. \A j \in DOMAIN q' : (j \in DOMAIN q /\ q'[j] = q[j]) \/ (j = n + 1 /\ q'[j].elem = e /\ q'[j].queue = k)
    BY <1>2, <1>3, <1>4, <1>5, Zenon
  <2>2. \A j \in DOMAIN q' : q'[j].queue = QueueOf[q'[j].elem.hnd]
    BY <1>7, <2>1, Zenon DEF QInv
  <2>3. ASSUME NEW j \in DOMAIN q', NEW m \in DOMAIN q',
               q'[j].elem.hnd = q'[m].elem.hnd, q'[j].elem.idx = q'[m].elem.idx
        PROVE  j = m
    <3>1. CASE j \in DOMAIN q /\ m \in DOMAIN q /\ q'[j] = q[j] /\ q'[m] = q[m]
      BY <2>3, <3>1, Zenon DEF QInv
    <3>2. CASE j = n + 1 /\ m \in DOMAIN q /\ q'[j].elem = e /\ q'[m] = q[m]
      BY <1>2, <1>9, <2>3, <3>2, Zenon
    <3>3. CASE m = n + 1 /\ j \in DOMAIN q /\ q'[m].elem = e /\ q'[j] = q[j]
      BY <1>2, <1>9, <2>3, <3>3, Zenon
    <3>4. \/ j \in DOMAIN q /\ q'[j] = q[j]
          \/ j = n + 1 /\ q'[j].elem = e
      BY <2>1, Zenon
    <3>5. \/ m \in DOMAIN q /\ q'[m] = q[m]
          \/ m = n + 1 /\ q'[m].elem = e
      BY <2>1, Zenon
    <3> QED BY <3>1, <3>2, <3>3, <3>4, <3>5, Zenon
  <2> QED BY <2>2, <2>3, Zenon DEF QInv
<1>11. ASSUME NEW d PROVE d \in Elems' <=> d \in Elems \/ d = e
  <2>1. CASE d \in Elems'
    <3>1. PICK j \in 1 .. n + 1 : d = q'[j].elem
      BY <1>3, <2>1, Zenon DEF Elems
    <3> QED BY <1>2, <1>3, <1>4, <1>5, <3>1, Zenon DEF Elems
  <2>2. CASE d \in Elems
    <3>1. PICK j \in 1 .. n : d = q[j].elem
      BY <1>2, <2>2, Zenon DEF Elems
    <3>2. j \in DOMAIN q' /\ q'[j].elem = d
      BY <1>3, <1>5, <3>1, Zenon
    <3> QED BY <2>1, <3>2, Zenon DEF Elems
  <2>3. CASE d = e
    <3>1. n + 1 \in DOMAIN q' /\ q'[n + 1].elem = d
      BY <1>3, <1>4, <1>5, <2>3, Zenon
    <3>2. d \in Elems'
      BY <3>1, Zenon DEF Elems
    <3> QED BY <2>3, <3>2, Zenon
  <2> QED BY <2>1, <2>2, <2>3, Zenon
<1> QED BY <1>1, <1>10, <1>11, Zenon

\* The two invariants of the status bytes, together with that of the queue.
ReturnsInv == IInv /\ ClientInv(Elems) /\ QInv

LEMMA InitReturns == ASSUME GridFits, Init PROVE ReturnsInv
<1>1. IInv
  BY InitIInv, Zenon
<1>2. Elems = {} /\ QInv
  BY DEF Init, Elems, QInv
<1>3. "idle" # "wait" /\ 0 # 1
  BY SMT
<1>4. \A w \in Wave : call[w].at = "idle"
  BY NoCallType, Zenon DEF Init
<1>5. \A k \in Queue, s \in Slot : ~ Unread(k, s)
  BY <1>3, Zenon DEF Init, Unread
<1>6. \A w \in Wave, l \in Lane : status[MyStatus(w, l)] # 1
  <2>1. \A w \in Wave, l \in Lane : MyStatus(w, l) \in Addr
    BY StatusApart, Zenon
  <2> QED BY <1>3, <2>1, Zenon DEF Init
<1> QED BY <1>1, <1>2, <1>3, <1>4, <1>5, <1>6, Zenon DEF ReturnsInv, ClientInv, WaitInv, PendingInv, UnreadInv, StatusInv, ReturnInv

LEMMA NextReturns == ASSUME PrivateQueues, GridFits, ReturnsInv, [Next]_vars PROVE ReturnsInv'
<1>0. IInv /\ ClientInv(Elems) /\ QInv /\ TypeOK
  BY Zenon DEF ReturnsInv, IInv
<1>1. IInv'
  BY <1>0, NextInv, Zenon
<1>2. PICK P : P = Elems
  BY Zenon
<1>3. ClientInv(P)
  BY <1>0, <1>2, Zenon DEF ClientInv, PendingInv, StatusInv, ReturnInv, Finished
<1>4. ASSUME q' = q, ClientInv(P)' PROVE ClientInv(Elems)' /\ QInv'
  <2>1. Elems' = P /\ QInv'
    BY <1>0, <1>2, <1>4, Zenon DEF Elems, QInv
  <2> QED BY <1>4, <2>1, Zenon DEF ClientInv, PendingInv, StatusInv, ReturnInv, Finished
<1>5. ASSUME NEW w \in Wave,
             \/ AcquireLock(w) \/ RefreshReadIndex(w) \/ ReserveSlots(w) \/ ReleaseLock(w)
             \/ FillElements(w) \/ ResetStatus(w)
      PROVE  ClientInv(Elems)' /\ QInv'
  <2>1. ClientInv(P)'
    BY <1>0, <1>3, <1>5, LockSteps, FillStep, ResetStep, Zenon
  <2>2. q' = q
    BY <1>5, Zenon DEF AcquireLock, RefreshReadIndex, ReserveSlots, ReleaseLock, FillElements, ResetStatus
  <2> QED BY <1>4, <2>1, <2>2, Zenon
<1>6. ASSUME NEW w \in Wave, NEW l \in Lane, Publish(w, l) \/ ObserveStatus(w, l)
      PROVE  ClientInv(Elems)' /\ QInv'
  <2>1. ClientInv(P)'
    BY <1>0, <1>3, <1>6, PublishStep, ObserveStep, Zenon
  <2>2. q' = q
    BY <1>6, Zenon DEF Publish, ObserveStatus
  <2> QED BY <1>4, <2>1, <2>2, Zenon
<1>7. ASSUME CopyFlag \/ CopyPayload \/ ClearValid \/ IncrementReadIndex PROVE ClientInv(Elems)' /\ QInv'
  <2>1. ClientInv(P)'
    BY <1>0, <1>3, <1>7, PollSteps, Zenon
  <2>2. q' = q
    BY <1>7, Zenon DEF CopyFlag, CopyPayload, ClearValid, IncrementReadIndex
  <2> QED BY <1>4, <2>1, <2>2, Zenon
<1>8. ASSUME InsertRequest PROVE ClientInv(Elems)' /\ QInv'
  <2>1. QInv' /\ Elems' = Elems \union {cache}
    BY <1>0, <1>8, InsertElems, Zenon
  <2>2. PICK R : R = P \union {cache}
    BY Zenon
  <2>3. ClientInv(R)'
    BY <1>0, <1>3, <1>8, <2>2, InsertStep, Zenon DEF InsertRequest
  <2>4. Elems' = R
    BY <1>2, <2>1, <2>2, Zenon
  <2> QED BY <2>1, <2>3, <2>4, Zenon DEF ClientInv, PendingInv, StatusInv, ReturnInv, Finished
<1>9. ASSUME NEW i \in 1 .. Len(q), Serve(i) PROVE ClientInv(Elems)' /\ QInv'
  <2>1. PICK e : e = q[i].elem
    BY Zenon
  <2>2. QInv' /\ Elems' = Elems \ {e}
    BY <1>0, <1>9, <2>1, ServeElems, Zenon
  <2>3. i \in DOMAIN q /\ q[i].queue = QueueOf[e.hnd]
    BY <1>0, <1>9, <2>1, Zenon DEF QInv, Serve
  <2>4. /\ {e} \subseteq P
        /\ \A c \in {e}, d \in P : d.hnd = c.hnd /\ d.idx = c.idx => d \in {e}
    BY <1>0, <1>2, <2>1, <2>3, Zenon DEF Elems, QInv
  <2>5. ASSUME NEW a \in Addr, status'[a] = 1
        PROVE  status[a] = 1 \/ \E c \in {e} : Blocking(c.cmd) /\ a = StatusAddr(QueueOf[c.hnd], c.tid)
    <3>1. status \in [Addr -> {0, 1}]
      BY <1>0, Zenon DEF TypeOK
    <3>2. CASE Blocking(e.cmd)
      <4>1. status' = [status EXCEPT ![StatusAddr(QueueOf[e.hnd], e.tid)] = 1]
        BY <1>9, <2>1, <2>3, <3>2, Zenon DEF Serve, Notify
      <4> QED BY <2>5, <3>1, <3>2, <4>1, Zenon
    <3>3. CASE ~ Blocking(e.cmd)
      BY <1>9, <2>1, <2>5, <3>3, Zenon DEF Serve
    <3> QED BY <3>2, <3>3, Zenon
  <2>6. PICK R : R = P \ {e}
    BY Zenon
  <2>7. UNCHANGED <<queueVars, call, pollVars>>
    BY <1>9, Zenon DEF Serve
  <2>8. ClientInv(R)'
    BY <1>0, <1>3, <2>4, <2>5, <2>6, <2>7, FinishStep, Zenon
  <2>9. Elems' = R
    BY <1>2, <2>2, <2>6, Zenon
  <2> QED BY <2>2, <2>8, <2>9, Zenon DEF ClientInv, PendingInv, StatusInv, ReturnInv, Finished
<1>10. ASSUME UNCHANGED vars PROVE ClientInv(Elems)' /\ QInv'
  <2>1. UNCHANGED <<element, status, call>> /\ UNCHANGED <<queueVars, pollVars, q>>
    BY <1>10, Zenon DEF vars, queueVars
  <2>2. \A k \in Queue, s \in Slot : Unread(k, s)' => Unread(k, s)
    BY <2>1, Zenon DEF Unread, ReadSlot, queueVars, pollVars
  <2>3. \A k \in Queue, i \in Nat : PassedOn(k, i) => PassedOn(k, i)'
    BY <2>1, Zenon DEF PassedOn, queueVars, pollVars
  <2>4. ClientInv(P)'
    BY <1>0, <1>3, <2>1, <2>2, <2>3, QuietSteps, Zenon
  <2> QED BY <1>4, <2>1, <2>4, Zenon
<1> QED BY <1>1, <1>5, <1>6, <1>7, <1>8, <1>9, <1>10, Zenon DEF Next, GPU, Poll, ReturnsInv

\* BlockingReturn for every number of queues, slots, waves and lanes, if the
\* status bytes of a block cover its threads and no two handles share a queue:
\* a lane of a blocking call leaves its loop on the status byte (the end of
\* build_queue_element) only when the transport has completed that lane's own
\* command of this call, never on a byte that an earlier command left behind.
THEOREM BlockingCallsReturnDone ==
  ASSUME PrivateQueues, GridFits
  PROVE  Spec => []BlockingReturn
<1>1. Init => ReturnsInv
  BY InitReturns, Zenon
<1>2. ReturnsInv /\ [Next]_vars => ReturnsInv'
  BY NextReturns, Zenon
<1>3. ASSUME ReturnsInv PROVE BlockingReturn
  <2> SUFFICES ASSUME NEW w \in Wave, call[w].at = "wait", NEW l \in Active(w) \ call[w].todo,
                      NEW h, NEW i, NEW k, h = HandleOf[w], i = call[w].base + l, k = QueueOf[h]
               PROVE  ~ InFlight(h, i)
    BY Zenon DEF BlockingReturn
  <2>1. Finished(Elems, h, i)
    BY <1>3, Zenon DEF ReturnsInv, ClientInv, ReturnInv, Idx
  <2>2. i \in Nat /\ host_read_index[k] \in Nat
    BY <1>3, PostedLane, HandleOfType, Zenon DEF ReturnsInv, IInv, TypeOK, Idx, MyQueue
  <2>3. PICK r : r = host_read_index[k]
    BY Zenon
  <2>4. i < r \/ (i = r /\ pollQueue = k /\ pollAt \in {"clear", "advance"})
    BY <2>1, <2>3, Zenon DEF Finished, PassedOn
  <2>5. ~ (i > r) /\ (i < r => i # r)
    BY <2>2, <2>3, <2>4, SMT
  <2>6. ~ \E j \in DOMAIN q : q[j].elem.hnd = h /\ q[j].elem.idx = i
    BY <2>1, Zenon DEF Finished, Elems
  <2> QED BY <2>3, <2>4, <2>5, <2>6, Zenon DEF InFlight
<1> QED BY <1>1, <1>2, <1>3, PTL DEF Spec
=============================================================================
