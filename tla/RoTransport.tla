---------------------------- MODULE RoTransport ----------------------------
(***************************************************************************)
(* The MPI transport of the reverse offload backend (mpi_transport.cpp):   *)
(* the progress thread takes one request at a time from q, turns it into   *)
(* an MPI operation, an immediate notification or a pending quiet, and     *)
(* then completes whatever MPI_Testsome reports.                           *)
(*                                                                         *)
(* A request is the queue element with the queue it came from.  MPI is     *)
(* external: MPI_Testsome may report any of the requests it is given.      *)
(* The users of the transport are modelled as clients, one per work-item:  *)
(* a client that issued a blocking command issues nothing more until its   *)
(* status byte is set, and then clears it (build_queue_element).           *)
(***************************************************************************)
EXTENDS Integers, Sequences, FiniteSetsExt

CONSTANTS
  NumQueues,              \* queues, and entries of outstanding and waiting_quiet
  MAX_THREADS_PER_BLOCK,  \* status bytes of one descriptor
  Addr,                   \* addresses of the status bytes of all descriptors
  Cmd,                    \* commands the clients issue
  TestWindow,             \* testsome_indices.size()
  MaxIssued               \* bound: commands issued in all

Queue == 0 .. NumQueues - 1
Tid   == 0 .. MAX_THREADS_PER_BLOCK - 1

ASSUME TransportAssumption ==
  /\ NumQueues \in Nat \ {0}
  /\ MAX_THREADS_PER_BLOCK \in Nat \ {0}
  /\ 0 .. NumQueues * MAX_THREADS_PER_BLOCK - 1 \subseteq Addr
  /\ TestWindow \in Nat \ {0}
  /\ MaxIssued \in Nat

VARIABLES
  q,              \* q and q_wgid, the requests of the poll thread
  requests,       \* in-flight MPI requests
  outstanding,    \* per queue: MPI requests that are not complete
  waiting_quiet,  \* per queue: the elements that wait for outstanding = 0
  at,             \* the progress thread: submit, test, handle or erase
  completed,      \* testsome_indices, as returned by MPI_Testsome
  unhandled,      \* the indices the loop of progress has not looked at yet
  status,         \* status bytes
  done,           \* history: the elements the transport has finished
  issued,         \* history: per queue, the number of commands issued
  waits           \* per client: the blocking element it waits for, or none

engineVars == <<requests, outstanding, waiting_quiet, at, completed, unhandled>>
clientVars == <<issued, waits>>
vars == <<q, engineVars, status, done, clientVars>>

StatusAddr(k, tid) == k * MAX_THREADS_PER_BLOCK + tid
Client == Queue \X Tid

Element == [hnd : Queue, idx : 0 .. MaxIssued - 1, tid : Tid, cmd : Cmd]
Request == [elem : Element, queue : Queue]

\* alltoall_mpi and fcollect_mpi (the commands ALLTOALL and FCOLLECT, for the
\* sizes that take them) call MPI and then quiet.  alltoall_gcen and fcollect_gcen
\* start two barriers: two commands here, the first of them CLUSTER_BARRIER, which
\* nobody waits for, and BARRIER.
NonBlocking(c) == c \in {"PUT_NBI", "GET_NBI", "CLUSTER_BARRIER"}
Atomic(c)      == c \in {"AMO_FOP", "AMO_FCAS"}
Quieting(c)    == c \in {"FENCE", "QUIET", "FINALIZE", "ALLTOALL_MPI", "FCOLLECT_MPI"}

EngineInit ==
  /\ requests = <<>>
  /\ outstanding = [k \in Queue |-> 0]
  /\ waiting_quiet = [k \in Queue |-> <<>>]
  /\ at = "submit"
  /\ completed = {}
  /\ unhandled = {}
  /\ done = {}

Init ==
  /\ q = <<>>
  /\ EngineInit
  /\ status = [a \in Addr |-> 0]
  /\ issued = [k \in Queue |-> 0]
  /\ waits = [c \in Client |-> {}]

-----------------------------------------------------------------------------
(***************************************************************************)
(* submitRequestsToMPI.                                                    *)
(***************************************************************************)

\* Mutant: off by one, the byte of the next work-item.
NotifyNext(k, tids) ==
  status' = [a \in Addr |->
               IF \E t \in tids : a = StatusAddr(k, t + 1) THEN 1 ELSE status[a]]

\* Queue::notify for a set of work-items of queue k.
NotifyAll(k, tids) ==
  status' = [a \in Addr |->
               IF \E t \in tids : a = StatusAddr(k, t) THEN 1 ELSE status[a]]

\* putMem, getMem, barrier, the reductions, broadcasts and the other collectives,
\* which end in a barrier: an MPI request is in flight.
StartMPI(r) ==
  /\ requests' = Append(requests, r)
  /\ outstanding' = [outstanding EXCEPT ![r.queue] = @ + 1]
  /\ UNCHANGED <<waiting_quiet, status, done>>

\* amoFOP, amoFCAS: MPI_Win_flush_local has completed the operation.
DoAtomic(r) ==
  /\ NotifyAll(r.queue, {r.elem.tid})
  /\ done' = done \union {r.elem}
  /\ UNCHANGED <<requests, outstanding, waiting_quiet>>

\* Mutant: every quiet is parked, also when nothing is outstanding.
quietParked(r) ==
  /\ waiting_quiet' = [waiting_quiet EXCEPT ![r.queue] = Append(@, r.elem)]
  /\ UNCHANGED <<requests, outstanding, status, done>>

\* Mutant: quiet does not wait for the outstanding requests.
quietAtOnce(r) ==
  /\ NotifyAll(r.queue, {r.elem.tid})
  /\ done' = done \union {r.elem}
  /\ UNCHANGED <<requests, outstanding, waiting_quiet>>

\* quiet: at once when nothing of the queue is outstanding.
quiet(r) ==
  /\ \/ /\ outstanding[r.queue] = 0
        /\ NotifyAll(r.queue, {r.elem.tid})
        /\ done' = done \union {r.elem}
        /\ UNCHANGED waiting_quiet
     \/ /\ outstanding[r.queue] # 0
        /\ waiting_quiet' = [waiting_quiet EXCEPT ![r.queue] = Append(@, r.elem)]
        /\ UNCHANGED <<status, done>>
  /\ UNCHANGED <<requests, outstanding>>

Dispatch(r) ==
  CASE Atomic(r.elem.cmd)   -> DoAtomic(r)
    [] Quieting(r.elem.cmd) -> quiet(r)
    [] OTHER                -> StartMPI(r)

submitRequestsToMPI ==
  /\ at = "submit"
  /\ at' = "test"
  /\ \/ /\ q = <<>>
        /\ UNCHANGED <<q, requests, outstanding, waiting_quiet, status, done>>
     \/ /\ q # <<>>
        /\ q' = Tail(q)
        /\ Dispatch(Head(q))
  /\ UNCHANGED <<completed, unhandled>>

-----------------------------------------------------------------------------
(***************************************************************************)
(* progress.                                                               *)
(***************************************************************************)
InCount == IF Len(requests) < TestWindow THEN Len(requests) ELSE TestWindow

\* MPI_Testsome on the first requests; without requests only MPI_Iprobe.
Testsome ==
  /\ at = "test"
  /\ \/ /\ requests = <<>>
        /\ at' = "submit"
        /\ UNCHANGED <<completed, unhandled>>
     \/ /\ requests # <<>>
        /\ completed' \in SUBSET (1 .. InCount)
        /\ unhandled' = completed'
        /\ at' = IF completed' = {} THEN "submit" ELSE "handle"
  /\ UNCHANGED <<q, requests, outstanding, waiting_quiet, status, done>>

\* outstanding of queue k after one more completion
Left(k) == outstanding[k] - 1

\* Mutant: any completion of the queue wakes the parked quiets.
WokenAlways(k) == Range(waiting_quiet[k])

\* The parked quiets that the last outstanding request of queue k wakes.
Woken(k) == IF Left(k) = 0 THEN Range(waiting_quiet[k]) ELSE {}

Parked(k) == IF Left(k) = 0 THEN <<>> ELSE waiting_quiet[k]

\* One turn of the loop over the completed indices: the request is taken off
\* the count, a blocking one is notified, and when it was the last one of its
\* queue so are the quiets that wait for it.
HandleCompletion(i) ==
  LET r    == requests[i]
      k    == r.queue
      tell == {e \in {r.elem} : ~ NonBlocking(e.cmd)} \union Woken(k)
  IN
  /\ at = "handle"
  /\ i \in unhandled
  /\ outstanding' = [outstanding EXCEPT ![k] = Left(k)]
  /\ waiting_quiet' = [waiting_quiet EXCEPT ![k] = Parked(k)]
  /\ NotifyAll(k, {e.tid : e \in tell})
  /\ done' = done \union {r.elem} \union Woken(k)
  /\ unhandled' = unhandled \ {i}
  /\ at' = IF unhandled' = {} THEN "erase" ELSE "handle"
  /\ UNCHANGED <<q, requests, completed>>

\* Mutant: the smallest index first, which shifts the others.
NextToEraseAscending(i) == i \in completed /\ \A j \in completed : i <= j

\* The indices are sorted with std::greater: the largest that is left.
NextToErase(i) == i \in completed /\ \A j \in completed : j <= i

\* requests.erase at index i
Without(s, i) == SubSeq(s, 1, i - 1) \o SubSeq(s, i + 1, Len(s))

\* One turn of the loop over the sorted indices.
Erase(i) ==
  /\ at = "erase"
  /\ NextToErase(i)
  /\ requests' = Without(requests, i)
  /\ completed' = completed \ {i}
  /\ at' = IF completed' = {} THEN "submit" ELSE "erase"
  /\ UNCHANGED <<q, outstanding, waiting_quiet, unhandled, status, done>>

Engine ==
  \/ submitRequestsToMPI
  \/ Testsome
  \/ \E i \in unhandled : HandleCompletion(i)
  \/ \E i \in completed : Erase(i)

-----------------------------------------------------------------------------
\* A work-item issues a command: Queue::process passes it to insertRequest.
Issue(k, t, c) ==
  LET e == [hnd |-> k, idx |-> issued[k], tid |-> t, cmd |-> c] IN
  /\ MapThenSumSet(LAMBDA j : issued[j], Queue) < MaxIssued
  /\ waits[<<k, t>>] = {}
  /\ q' = Append(q, [elem |-> e, queue |-> k])
  /\ issued' = [issued EXCEPT ![k] = @ + 1]
  /\ waits' = [waits EXCEPT ![<<k, t>>] = IF NonBlocking(c) THEN {} ELSE {e}]
  /\ UNCHANGED <<engineVars, status, done>>

\* The work-item sees its status byte, clears it and returns.
Return(k, t) ==
  /\ waits[<<k, t>>] # {}
  /\ status[StatusAddr(k, t)] = 1
  /\ status' = [status EXCEPT ![StatusAddr(k, t)] = 0]
  /\ waits' = [waits EXCEPT ![<<k, t>>] = {}]
  /\ UNCHANGED <<q, engineVars, done, issued>>

Clients ==
  \E k \in Queue, t \in Tid : Return(k, t) \/ \E c \in Cmd : Issue(k, t, c)

Next == (Engine /\ UNCHANGED clientVars) \/ Clients

Spec == Init /\ [][Next]_vars

-----------------------------------------------------------------------------
(***************************************************************************)
(* Properties.                                                             *)
(***************************************************************************)
Handled(i) == i \in completed \ unhandled

\* No lost wake-up: a quiet is parked only while an MPI request of its queue is
\* still going to be handled, though what parks and wakes it is a counter.
QuietHasReason ==
  \A k \in Queue :
    waiting_quiet[k] # <<>> =>
      \E i \in DOMAIN requests : requests[i].queue = k /\ ~ Handled(i)

\* A quiet, fence or finalize is finished only when every command that entered
\* the queue before it is finished.
QuietMeansDone ==
  \A e \in done :
    Quieting(e.cmd) =>
      \A i \in 0 .. e.idx - 1 : \E d \in done : d.hnd = e.hnd /\ d.idx = i

\* Where command i of queue k is.
Places(k, i) ==
  LET Here(e) == e.hnd = k /\ e.idx = i IN
    {<<"q", j>> : j \in {j \in DOMAIN q : Here(q[j].elem)}}
    \union {<<"mpi", j>> : j \in {j \in DOMAIN requests :
                                    Here(requests[j].elem) /\ ~ Handled(j)}}
    \union {<<"quiet", j>> : j \in {j \in DOMAIN waiting_quiet[k] :
                                      Here(waiting_quiet[k][j])}}
    \union {<<"done", e>> : e \in {e \in done : Here(e)}}

\* Every command is in exactly one place: erasing requests by index while
\* others are in flight loses none and finishes none twice.
EveryRequestAccounted ==
  \A k \in Queue : \A i \in 0 .. issued[k] - 1 :
    \E p \in Places(k, i) : Places(k, i) = {p}
=============================================================================
