--------------------------- MODULE RoSystemProofs ---------------------------
(***************************************************************************)
(* What a blocking call means to its caller: the invariants of the queue   *)
(* (RoQueueProofs) and of the transport (RoTransportProofs) put together   *)
(* for the reverse offload backend as a whole.                             *)
(***************************************************************************)
EXTENDS RoSystem, RoQueueProofs

\* The transport of RoSystem, with what is proved about it.
TP == INSTANCE RoTransportProofs WITH
  MaxIssued <- NumWaves * MaxOps * WaveSize,
  issued    <- [k \in Queue |-> Inserted(k)],
  waits     <- [c \in Queue \X (0 .. MAX_THREADS_PER_BLOCK - 1) |-> Awaited(c[1], c[2])]

\* The constants of the transport are as it assumes.
LEMMA Assumed == TP!TransportAssumption
<1>1. \A a, b \in Nat : a * b \in Nat
      OBVIOUS
<1>2. NumQueues * MAX_THREADS_PER_BLOCK \in Nat /\ NumWaves * WaveSize \in Nat
      BY <1>1, ConstantsAssumption
<1>3. NumWaves * MaxOps * WaveSize \in Nat
      BY <1>1, ConstantsAssumption
<1>4. 0 .. NumQueues * MAX_THREADS_PER_BLOCK - 1 \subseteq Addr
  <2>1. PICK a \in Nat, b \in Nat : a = NumQueues * MAX_THREADS_PER_BLOCK /\ b = NumWaves * WaveSize
        BY <1>2
  <2>2. 0 .. a - 1 \subseteq 0 .. a + b
        OBVIOUS
  <2> QED BY <2>1, <2>2, Zenon DEF Addr
<1> QED BY <1>3, <1>4, ConstantsAssumption, SystemAssumption, Zenon DEF TP!TransportAssumption

\* Every context is its own queue.
LEMMA OwnQueue == PrivateQueues /\ \A h \in Handle : h \in Queue /\ QueueOf[h] = h
BY ConstantsAssumption, SystemAssumption, Zenon DEF PrivateQueues

\* The progress thread of RoSystem is the one of the proofs.
LEMMA SameEngine == Transport!Engine => TP!Engine
<1>1. ASSUME NEW r, Transport!Dispatch(r) PROVE TP!Dispatch(r)
      BY <1>1, Zenon DEF Transport!Dispatch, TP!Dispatch, Transport!Atomic, TP!Atomic, Transport!Quieting, TP!Quieting,
         Transport!DoAtomic, TP!DoAtomic, Transport!quiet, TP!quiet, Transport!StartMPI, TP!StartMPI,
         Transport!NotifyAll, TP!NotifyAll, Transport!StatusAddr, TP!StatusAddr
<1>2. Transport!submitRequestsToMPI => TP!submitRequestsToMPI
      BY <1>1, Zenon DEF Transport!submitRequestsToMPI, TP!submitRequestsToMPI
<1>3. Transport!Testsome => TP!Testsome
      BY Zenon DEF Transport!Testsome, TP!Testsome, Transport!InCount, TP!InCount
<1>4. ASSUME NEW i, Transport!HandleCompletion(i) PROVE TP!HandleCompletion(i)
      BY <1>4, Zenon DEF Transport!HandleCompletion, TP!HandleCompletion, Transport!Left, TP!Left, Transport!Woken, TP!Woken,
         Transport!Parked, TP!Parked, Transport!NonBlocking, TP!NonBlocking, Transport!Range, TP!Range,
         Transport!NotifyAll, TP!NotifyAll, Transport!StatusAddr, TP!StatusAddr
<1>5. ASSUME NEW i, Transport!Erase(i) PROVE TP!Erase(i)
      BY <1>5, Zenon DEF Transport!Erase, TP!Erase, Transport!NextToErase, TP!NextToErase, Transport!Without, TP!Without
<1> QED BY <1>2, <1>3, <1>4, <1>5, Zenon DEF Transport!Engine, TP!Engine

-----------------------------------------------------------------------------
(***************************************************************************)
(* The number of commands that the poll thread has passed on, which is     *)
(* what the transport counts as issued.                                    *)
(***************************************************************************)
LEMMA InsertedType == ASSUME IInv, NEW k \in Queue PROVE Inserted(k) \in Nat
<1>1. host_read_index[k] \in Nat
      BY Zenon DEF IInv, TypeOK
<1> QED BY <1>1 DEF Inserted

LEMMA InsertedPassed ==
  ASSUME IInv, NEW k \in Queue, NEW i \in Nat, PassedOn(k, i) PROVE i \in 0 .. Inserted(k) - 1
<1>1. PICK r \in Nat : r = host_read_index[k]
      BY Zenon DEF IInv, TypeOK
<1>2. CASE i < r
      BY <1>1, <1>2 DEF Inserted
<1>3. CASE i = r /\ pollQueue = k /\ pollAt \in {"clear", "advance"}
      BY <1>1, <1>3 DEF Inserted
<1> QED BY <1>1, <1>2, <1>3, Zenon DEF PassedOn

\* Only insertRequest changes the number.
LEMMA InsertedKept ==
  ASSUME IInv, GPU \/ CopyFlag \/ CopyPayload \/ ClearValid \/ IncrementReadIndex
               \/ UNCHANGED <<host_read_index, pollQueue, pollAt>>,
         NEW k \in Queue
  PROVE  Inserted(k)' = Inserted(k)
<1>1. ASSUME UNCHANGED <<host_read_index, pollQueue, pollAt>> PROVE Inserted(k)' = Inserted(k)
      BY <1>1, Zenon DEF Inserted
<1>2. CASE GPU
  <2>1. UNCHANGED <<host_read_index, pollQueue, pollAt>>
        BY <1>2, Zenon DEF GPU, AcquireLock, RefreshReadIndex, ReserveSlots, ReleaseLock, FillElements, Publish,
           ObserveStatus, ResetStatus, queueVars, pollVars
  <2> QED BY <1>1, <2>1, Zenon
<1>3. PICK r \in Nat : r = host_read_index[k]
      BY Zenon DEF IInv, TypeOK
<1>4. CASE CopyFlag \/ CopyPayload
  <2>1. /\ host_read_index' = host_read_index
        /\ pollAt \notin {"clear", "advance"} /\ pollAt' \notin {"clear", "advance"}
        BY <1>4 DEF CopyFlag, CopyPayload, queueVars
  <2> QED BY <2>1, Zenon DEF Inserted
<1>5. CASE ClearValid
  <2>1. /\ host_read_index' = host_read_index /\ pollQueue' = pollQueue
        /\ pollAt \in {"clear", "advance"} /\ pollAt' \in {"clear", "advance"}
        BY <1>5, Zenon DEF ClearValid
  <2> QED BY <2>1, Zenon DEF Inserted
<1>6. CASE IncrementReadIndex
  <2>1. /\ host_read_index'[k] = IF k = pollQueue THEN r + 1 ELSE r
        /\ pollAt = "advance" /\ pollAt' = "flag"
        BY <1>3, <1>6, Zenon DEF IncrementReadIndex, IInv, TypeOK
  <2> QED BY <1>3, <2>1 DEF Inserted
<1> QED BY <1>1, <1>2, <1>4, <1>5, <1>6, Zenon

LEMMA InsertedInsert ==
  ASSUME IInv, InsertRequest, NEW k \in Queue
  PROVE  /\ Inserted(k)' = IF k = pollQueue THEN Inserted(k) + 1 ELSE Inserted(k)
         /\ Inserted(pollQueue) = host_read_index[pollQueue]
<1>1. PICK r \in Nat : r = host_read_index[k]
      BY Zenon DEF IInv, TypeOK
<1>2. PICK p \in Nat : p = host_read_index[pollQueue]
      BY Zenon DEF IInv, TypeOK
<1>3. UNCHANGED <<host_read_index, pollQueue>> /\ pollAt = "insert" /\ pollAt' = "clear"
      BY Zenon DEF InsertRequest, queueVars
<1> QED BY <1>1, <1>2, <1>3 DEF Inserted
-----------------------------------------------------------------------------
(***************************************************************************)
(* The invariant of the backend: those of its parts, with the commands     *)
(* that the transport has and has not finished in the place of P, and all  *)
(* that it has in the place of D.                                          *)
(***************************************************************************)
SystemInv ==
  /\ IInv /\ TP!IInv
  /\ ClientInv(TP!Pending)
  /\ KnownInv(TP!Pending \union done) /\ RangeInv

\* The sets of the next state under a name.
LEMMA Renamed ==
  ASSUME NEW P, NEW D, P = TP!Pending', D = TP!Pending' \union done', ClientInv(P)', KnownInv(D)'
  PROVE  ClientInv(TP!Pending)' /\ KnownInv(TP!Pending \union done)'
BY Zenon DEF ClientInv, PendingInv, StatusInv, ReturnInv, Finished, KnownInv, Known

LEMMA Named ==
  ASSUME NEW P, NEW D, P = TP!Pending, D = TP!Pending \union done, SystemInv
  PROVE  ClientInv(P) /\ KnownInv(D)
BY Zenon DEF SystemInv, ClientInv, PendingInv, StatusInv, ReturnInv, Finished, KnownInv, Known

\* Steps of the waves and of the poll thread, insertRequest apart.
LEMMA SystemQuiet ==
  ASSUME GridFits, SystemInv, UNCHANGED transportVars,
         GPU \/ CopyFlag \/ CopyPayload \/ ClearValid \/ IncrementReadIndex
  PROVE  SystemInv'
<1>1. PICK P, D : P = TP!Pending /\ D = TP!Pending \union done
      BY Zenon
<1>2. ClientInv(P) /\ KnownInv(D) /\ RangeInv /\ IInv /\ TP!IInv
      BY <1>1, Named, Zenon DEF SystemInv
<1>3. ClientInv(P)' /\ KnownInv(D)' /\ RangeInv'
      BY <1>2, ClientGPU, PollSteps, KnownGPU, KnownPoll, Zenon
<1>4. IInv'
      BY <1>2, OwnQueue, NextInv, Zenon DEF Next, Poll
<1>5. UNCHANGED <<q, requests, outstanding, waiting_quiet, at, completed, unhandled, done>>
  <2>1. q' = q
        BY Zenon DEF GPU, AcquireLock, RefreshReadIndex, ReserveSlots, ReleaseLock, FillElements, Publish,
           ObserveStatus, ResetStatus, CopyFlag, CopyPayload, ClearValid, IncrementReadIndex
  <2> QED BY <2>1, Zenon DEF transportVars
<1>6. TP!Pending' = P /\ TP!Pending' \union done' = D
      BY <1>1, <1>5, Zenon DEF TP!Pending, TP!IsPending, TP!Handled
<1>7. [k \in Queue |-> Inserted(k)]' = [k \in Queue |-> Inserted(k)]
  <2>1. \A k \in Queue : Inserted(k)' = Inserted(k)
        BY <1>2, InsertedKept, Zenon
  <2> QED BY <2>1, Zenon
<1>8. TP!IInv'
      BY <1>2, <1>5, <1>7, Assumed, TP!IdleKeeps, Zenon DEF TP!engineVars
<1> QED BY <1>3, <1>4, <1>6, <1>8, Renamed, Zenon DEF SystemInv

\* insertRequest: the transport accepts the command at the read index, which
\* is the next number of its queue.
LEMMA SystemInsert ==
  ASSUME GridFits, SystemInv, UNCHANGED transportVars, InsertRequest
  PROVE  SystemInv'
<1>1. PICK P, D : P = TP!Pending /\ D = TP!Pending \union done
      BY Zenon
<1>2. ClientInv(P) /\ KnownInv(D) /\ RangeInv /\ IInv /\ TP!IInv /\ PrivateQueues
      BY <1>1, Named, OwnQueue, Zenon DEF SystemInv
<1>3. PICK e, k, n, R, S : /\ e = cache /\ k = pollQueue /\ n = host_read_index[k]
                           /\ R = P \union {cache} /\ S = D \union {cache}
      BY Zenon
<1>4. ClientInv(R)' /\ KnownInv(S)' /\ RangeInv' /\ Known(D, e)
      BY <1>2, <1>3, InsertStep, KnownInsert, Zenon DEF InsertRequest
<1>5. IInv'
      BY <1>2, NextInv, Zenon DEF Next, Poll
<1>6. k \in Queue /\ n \in Nat /\ QueueOf[e.hnd] = k /\ e.idx = n
  <2>1. k \in Queue /\ n \in Nat /\ e = element[k][SlotOf(n)] /\ valid[k][SlotOf(n)] = 1
        BY <1>2, <1>3, Zenon DEF IInv, TypeOK, PollInv, ReadSlot, InsertRequest
  <2> QED BY <1>2, <1>3, <2>1, ReadElement, Zenon
<1>7. e \in TP!Elem /\ e.hnd = k
  <2>1. e \in Element /\ e.tid \in 0 .. MAX_THREADS_PER_BLOCK - 1
        BY <1>2, <1>4, Zenon DEF KnownInv
  <2>2. e = [hnd |-> e.hnd, idx |-> e.idx, tid |-> e.tid, cmd |-> e.cmd] /\ e.hnd \in Handle /\ e.cmd \in Cmd
        BY <2>1 DEF Element
  <2>3. e.hnd = k
        BY <1>6, <2>2, OwnQueue, Zenon
  <2>4. TP!Elem = [hnd : Queue, idx : Nat, tid : 0 .. MAX_THREADS_PER_BLOCK - 1, cmd : Cmd]
        BY Zenon DEF TP!Elem, TP!Queue, TP!Tid, Queue
  <2>5. e \in [hnd : Queue, idx : Nat, tid : 0 .. MAX_THREADS_PER_BLOCK - 1, cmd : Cmd]
        BY <1>6, <2>1, <2>2, <2>3
  <2> QED BY <2>3, <2>4, <2>5, Zenon
<1>8. TP!Accepts(k, e)
  <2>1. [j \in Queue |-> Inserted(j)]' = [[j \in Queue |-> Inserted(j)] EXCEPT ![k] = @ + 1]
    <3>1. \A j \in Queue : Inserted(j)' = IF j = k THEN Inserted(j) + 1 ELSE Inserted(j)
          BY <1>2, <1>3, InsertedInsert, Zenon
    <3> QED BY <1>6, <3>1, Zenon
  <2>2. e.idx = [j \in Queue |-> Inserted(j)][k]
        BY <1>2, <1>3, <1>6, InsertedInsert, Zenon
  <2>3. q' = Append(q, [elem |-> e, queue |-> k]) /\ UNCHANGED <<requests, outstanding, waiting_quiet, at, completed, unhandled, done>>
        BY <1>3, Zenon DEF InsertRequest, transportVars
  <2> QED BY <1>7, <2>1, <2>2, <2>3, Zenon DEF TP!Accepts, TP!engineVars
<1>9. k \in TP!Queue
      BY <1>6, Zenon DEF TP!Queue, Queue
<1>10. TP!IInv'
      BY <1>2, <1>7, <1>8, <1>9, Assumed, TP!AcceptKeeps, Zenon
<1>11. TP!Pending' = R /\ TP!Pending' \union done' = S
  <2>1. TP!TransportTypes
        BY <1>2, Zenon DEF TP!IInv
  <2>2. TP!Pending' = TP!Pending \union {e}
        BY <1>7, <1>8, <1>9, <2>1, Assumed, TP!AcceptPending, Zenon
  <2>3. done' = done
        BY Zenon DEF transportVars
  <2> QED BY <1>1, <1>3, <2>2, <2>3, Zenon
<1> QED BY <1>4, <1>5, <1>10, <1>11, Renamed, Zenon DEF SystemInv

\* A step of the progress thread.
LEMMA SystemEngine ==
  ASSUME GridFits, SystemInv, Transport!Engine, UNCHANGED <<handleVars, queueVars, call, ops, pollVars>>
  PROVE  SystemInv'
<1>1. PICK P, D : P = TP!Pending /\ D = TP!Pending \union done
      BY Zenon
<1>2. ClientInv(P) /\ KnownInv(D) /\ RangeInv /\ IInv /\ TP!IInv /\ TP!Engine /\ TypeOK
      BY <1>1, Named, SameEngine, Zenon DEF SystemInv, IInv
<1>3. [k \in Queue |-> Inserted(k)]' = [k \in Queue |-> Inserted(k)]
  <2>1. UNCHANGED <<host_read_index, pollQueue, pollAt>>
        BY Zenon DEF queueVars, pollVars
  <2>2. \A k \in Queue : Inserted(k)' = Inserted(k)
        BY <1>2, <2>1, InsertedKept, Zenon
  <2> QED BY <2>2, Zenon
<1>4. TP!IInv'
      BY <1>2, <1>3, Assumed, TP!EngineKeeps, Zenon
<1>5. PICK R, F : R = TP!Pending' /\ F = P \ R
      BY Zenon
<1>6. /\ R \subseteq P /\ TP!Pending' \union done' = D
      /\ \A a \in Addr : status'[a] = 1 =>
           status[a] = 1 \/ \E e \in F : ~ TP!NonBlocking(e.cmd) /\ a = TP!StatusAddr(e.hnd, e.tid)
      BY <1>1, <1>2, <1>3, <1>5, Assumed, TP!EnginePending, Zenon
<1>7. /\ q' = q \/ (q # <<>> /\ q' = Tail(q))
      /\ status' \in [Addr -> {0, 1}]
      BY <1>2, Assumed, TP!EngineOutputs, Zenon DEF TypeOK
<1>8. IInv'
  <2>1. q \in Seq(Request)
        BY <1>2, Zenon DEF TypeOK
  <2>2. q' \in Seq(Request)
        BY <1>7, <2>1
  <2> QED BY <1>2, <1>7, <2>2, TransportStepInv, Zenon
<1>9. R = P \ F /\ F \subseteq P
      BY <1>5, <1>6, Zenon
<1>10. \A e \in F, d \in P : d.hnd = e.hnd /\ d.idx = e.idx => d \in F
  <2>1. \A d, e \in TP!Pending \union done : d.hnd = e.hnd /\ d.idx = e.idx => d = e
        BY <1>2, Assumed, TP!OneCommand, Zenon
  <2> QED BY <1>1, <1>5, <2>1, Zenon
<1>11. ASSUME NEW a \in Addr, status'[a] = 1
       PROVE  status[a] = 1 \/ \E e \in F : Blocking(e.cmd) /\ a = StatusAddr(QueueOf[e.hnd], e.tid)
  <2>1. \A e \in F : e.hnd \in Handle
    <3>1. \A e \in F : e \in Element
          BY <1>2, <1>9, Zenon DEF ClientInv, PendingInv
    <3> QED BY <3>1, Zenon DEF Element
  <2>2. \A e \in F : QueueOf[e.hnd] = e.hnd
        BY <2>1, OwnQueue, Zenon
  <2>3. \A e \in F : ~ TP!NonBlocking(e.cmd) => Blocking(e.cmd)
        BY Zenon DEF TP!NonBlocking, Blocking
  <2>4. \A k, t : TP!StatusAddr(k, t) = StatusAddr(k, t)
        BY Zenon DEF TP!StatusAddr, StatusAddr
  <2> QED BY <1>6, <1>11, <2>2, <2>3, <2>4, Zenon
<1>12. ClientInv(R)'
  <2>1. UNCHANGED <<queueVars, call, pollVars>>
        BY Zenon
  <2> QED BY <1>2, <1>9, <1>10, <1>11, <2>1, FinishStep, Zenon
<1>13. KnownInv(D)' /\ RangeInv'
  <2>1. UNCHANGED <<write_index, element, call, valid>>
        BY Zenon DEF handleVars, queueVars
  <2> QED BY <1>2, <2>1, KnownQuiet, Zenon
<1> QED BY <1>4, <1>5, <1>6, <1>8, <1>12, <1>13, Renamed, Zenon DEF SystemInv

LEMMA SystemInitInv == ASSUME GridFits, SystemInit PROVE SystemInv
<1>1. Init /\ Transport!EngineInit /\ q = <<>>
      BY Zenon DEF SystemInit, Init
<1>2. IInv /\ ClientInv(Elems) /\ Elems = {}
  <2>1. Elems = {}
        BY <1>1 DEF Elems
  <2> QED BY <1>1, <2>1, InitReturns, Zenon DEF ReturnsInv
<1>3. TP!EngineInit
      BY <1>1, Zenon DEF Transport!EngineInit, TP!EngineInit, Transport!Queue, TP!Queue
<1>4. [k \in Queue |-> Inserted(k)] = [k \in TP!Queue |-> 0]
  <2>1. \A k \in Queue : Inserted(k) = 0
        BY <1>1 DEF Init, Inserted
  <2> QED BY <2>1, Zenon DEF TP!Queue, Queue
<1>5. TP!IInv
      BY <1>1, <1>3, <1>4, Assumed, TP!InitIInv, Zenon
<1>6. TP!Pending = {} /\ done = {}
  <2>1. /\ done = {} /\ Len(q) = 0 /\ Len(requests) = 0
        /\ \A k \in TP!Queue : waiting_quiet[k] = <<>>
        BY <1>1, <1>3 DEF TP!EngineInit
  <2>2. Len(<<>>) = 0
        OBVIOUS
  <2>3. \A j : j \notin 1 .. 0
        OBVIOUS
  <2>4. \A e : ~ TP!IsPending(e)
        BY <2>1, <2>2, <2>3, Zenon DEF TP!IsPending
  <2> QED BY <2>1, <2>4, Zenon DEF TP!Pending
<1>7. ClientInv(TP!Pending)
      BY <1>2, <1>6, Zenon
<1>8. KnownInv(TP!Pending \union done)
  <2>1. 0 # 1
        OBVIOUS
  <2>2. \A e : ~ Known(TP!Pending \union done, e)
        BY <1>1, <1>6, <2>1, Zenon DEF Known, Init
  <2> QED BY <2>2, Zenon DEF KnownInv
<1>9. RangeInv
  <2>1. \A w \in Wave : call[w].at = "idle"
        BY <1>1, NoCallType, Zenon DEF Init
  <2> QED BY <2>1, Zenon DEF RangeInv, Holds
<1> QED BY <1>2, <1>5, <1>7, <1>8, <1>9, Zenon DEF SystemInv

LEMMA SystemStutter == ASSUME GridFits, SystemInv, UNCHANGED systemVars PROVE SystemInv'
<1>1. UNCHANGED vars /\ UNCHANGED transportVars
      BY Zenon DEF systemVars
<1>2. /\ UNCHANGED <<write_index, valid, element, call, status, q>> /\ UNCHANGED <<queueVars, pollVars>>
      /\ UNCHANGED <<requests, outstanding, waiting_quiet, at, completed, unhandled, done>>
      /\ UNCHANGED <<host_read_index, pollQueue, pollAt>>
      BY <1>1, Zenon DEF vars, handleVars, queueVars, pollVars, transportVars
<1>3. PICK P, D : P = TP!Pending /\ D = TP!Pending \union done
      BY Zenon
<1>4. ClientInv(P) /\ KnownInv(D) /\ RangeInv /\ IInv /\ TP!IInv
      BY <1>3, Named, Zenon DEF SystemInv
<1>5. IInv'
      BY <1>1, <1>4, StutterInv, Zenon
<1>6. KnownInv(D)' /\ RangeInv'
      BY <1>2, <1>4, KnownQuiet, Zenon
<1>7. ClientInv(P)'
  <2>1. \A k \in Queue, s \in Slot : Unread(k, s)' => Unread(k, s)
        BY <1>2, Zenon DEF Unread, ReadSlot
  <2>2. \A k \in Queue, i \in Nat : PassedOn(k, i) => PassedOn(k, i)'
        BY <1>2, Zenon DEF PassedOn
  <2> QED BY <1>2, <1>4, <2>1, <2>2, QuietSteps, Zenon
<1>8. TP!Pending' = P /\ TP!Pending' \union done' = D
      BY <1>2, <1>3, Zenon DEF TP!Pending, TP!IsPending, TP!Handled
<1>9. [k \in Queue |-> Inserted(k)]' = [k \in Queue |-> Inserted(k)]
  <2>1. \A k \in Queue : Inserted(k)' = Inserted(k)
        BY <1>2, <1>4, InsertedKept, Zenon
  <2> QED BY <2>1, Zenon
<1>10. TP!IInv'
      BY <1>2, <1>4, <1>9, Assumed, TP!IdleKeeps, Zenon DEF TP!engineVars
<1> QED BY <1>5, <1>6, <1>7, <1>8, <1>10, Renamed, Zenon DEF SystemInv

-----------------------------------------------------------------------------
(***************************************************************************)
(* Theorems.                                                               *)
(***************************************************************************)

\* The three threads of the backend preserve the invariant, for any number of
\* contexts, slots, waves and lanes, any commands and any test window.
THEOREM SystemInvariant == ASSUME GridFits PROVE SystemSpec => []SystemInv
<1>1. SystemInit => SystemInv
      BY SystemInitInv, Zenon
<1>2. SystemInv /\ [SystemNext]_systemVars => SystemInv'
      BY SystemQuiet, SystemInsert, SystemEngine, SystemStutter, Zenon DEF SystemNext, Poll
<1> QED BY <1>1, <1>2, PTL DEF SystemSpec

\* A lane that has left its loop has its very command finished.
LEMMA ReturnedIsDone ==
  ASSUME SystemInv, NEW w \in Wave, call[w].at = "wait", NEW l \in Active(w) \ call[w].todo
  PROVE  ElementOf(w, l) \in done
<1>1. PICK h, i : h = HandleOf[w] /\ i = Idx(w, l)
      BY Zenon
<1>2. h \in Handle /\ i \in Nat /\ h \in Queue /\ QueueOf[h] = h /\ IInv
      BY <1>1, PostedLane, HandleOfType, OwnQueue, Zenon DEF SystemInv, IInv
<1>3. PassedOn(h, i) /\ \A e \in TP!Pending : ~ (e.hnd = h /\ e.idx = i)
      BY <1>1, <1>2, Zenon DEF SystemInv, ClientInv, ReturnInv, Finished
<1>4. i \in 0 .. Inserted(h) - 1
      BY <1>2, <1>3, InsertedPassed, Zenon
<1>5. PICK e \in TP!Pending \union done : e.hnd = h /\ e.idx = i
  <2>1. \A k \in TP!Queue : \A j \in 0 .. [g \in Queue |-> Inserted(g)][k] - 1 :
          \E e \in TP!Pending \union done : e.hnd = k /\ e.idx = j
        BY Assumed, TP!OneCommand, Zenon DEF SystemInv
  <2>2. h \in TP!Queue /\ [g \in Queue |-> Inserted(g)][h] = Inserted(h)
        BY <1>2, Zenon DEF TP!Queue, Queue
  <2> QED BY <1>4, <2>1, <2>2, Zenon
<1>6. e \in done
      BY <1>3, <1>5, Zenon
<1>7. Known(TP!Pending \union done, e) /\ Holds(w)
      BY Zenon DEF Known, Holds
<1>8. e = ElementOf(w, l)
      BY <1>1, <1>5, <1>7, Zenon DEF SystemInv, KnownInv
<1> QED BY <1>6, <1>8, Zenon

\* When a lane of a blocking call leaves its polling loop in build_queue_element,
\* the progress thread has finished the command of that lane and no other: the
\* byte it saw was set by notify for this call and not for an earlier one, though
\* it crossed the circular queue, the poll thread and the list of MPI requests.
THEOREM ReturnsAreDone == ASSUME GridFits PROVE SystemSpec => []ReturnMeansDone
<1>1. SystemInv => ReturnMeansDone
      BY ReturnedIsDone, Zenon DEF ReturnMeansDone
<1> QED BY <1>1, SystemInvariant, GridFits, PTL

\* When rocshmem_quiet, fence or finalize returns to a lane, every command that
\* its context accepted before is finished, also the non-blocking ones that
\* other waves issued and that MPI completed in another order.
THEOREM QuietsReturnLast == ASSUME GridFits PROVE SystemSpec => []QuietReturnsLast
<1>1. ASSUME SystemInv PROVE QuietReturnsLast
  <2> SUFFICES ASSUME NEW w \in Wave, call[w].at = "wait", Transport!Quieting(call[w].cmd),
                      NEW l \in Active(w) \ call[w].todo, NEW i \in 0 .. Idx(w, l) - 1
               PROVE  \E d \in done : d.hnd = HandleOf[w] /\ d.idx = i
      BY Zenon DEF QuietReturnsLast
  <2>1. PICK e \in done : e = ElementOf(w, l)
        BY <1>1, ReturnedIsDone, Zenon
  <2>2. e.hnd = HandleOf[w] /\ e.idx = Idx(w, l) /\ e.cmd = call[w].cmd
        BY <2>1, Zenon DEF ElementOf, Idx
  <2>3. TP!Quieting(e.cmd)
        BY <2>2, Zenon DEF Transport!Quieting, TP!Quieting
  <2>4. TP!QuietMeansDone
        BY <1>1, Zenon DEF SystemInv, TP!IInv
  <2>5. \A j \in 0 .. e.idx - 1 : \E d \in done : d.hnd = e.hnd /\ d.idx = j
        BY <2>3, <2>4, Zenon DEF TP!QuietMeansDone
  <2>6. i \in 0 .. e.idx - 1
        BY <2>2, Zenon
  <2> QED BY <2>2, <2>5, <2>6, Zenon
<1> QED BY <1>1, SystemInvariant, GridFits, PTL
=============================================================================
