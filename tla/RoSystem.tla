------------------------------ MODULE RoSystem ------------------------------
(***************************************************************************)
(* The reverse offload backend as a whole: the waves and the poll thread   *)
(* of RoQueue on one side of q and of the status bytes, the progress       *)
(* thread of RoTransport on the other.                                     *)
(***************************************************************************)
EXTENDS RoQueue, FiniteSets

CONSTANT TestWindow

\* Every context has a descriptor of its own, and its number is the window id
\* that the transport files the requests of the context under.
ASSUME SystemAssumption ==
  /\ TestWindow \in Nat \ {0}
  /\ \A h \in Handle : QueueOf[h] = h

VARIABLES requests, outstanding, waiting_quiet, at, completed, unhandled, done

transportVars == <<requests, outstanding, waiting_quiet, at, completed, unhandled, done>>
systemVars == <<vars, transportVars>>

\* Commands of queue k that the poll thread has passed to insertRequest.
Inserted(k) ==
  host_read_index[k] +
    (IF pollQueue = k /\ pollAt \in {"clear", "advance"} THEN 1 ELSE 0)

\* The commands of a work-item that are blocking, inserted and not returned.
Awaited(k, tid) ==
  UNION {{ElementOf(w, l) : l \in
            {l \in Active(w) : /\ MyQueue(w) = k
                               /\ FlatId(w, l) = tid
                               /\ call[w].at \in {"publish", "wait"}
                               /\ Blocking(call[w].cmd)
                               /\ Idx(w, l) < Inserted(k)}} : w \in Wave}

Transport == INSTANCE RoTransport WITH
  MaxIssued <- NumWaves * MaxOps * WaveSize,
  issued    <- [k \in Queue |-> Inserted(k)],
  waits     <- [c \in Queue \X (0 .. MAX_THREADS_PER_BLOCK - 1) |-> Awaited(c[1], c[2])]

SystemInit == Init /\ Transport!EngineInit

\* The waves and the poll thread never touch the state of the progress thread;
\* the progress thread takes from q and writes status bytes.
SystemNext ==
  \/ (GPU \/ Poll) /\ UNCHANGED transportVars
  \/ Transport!Engine /\ UNCHANGED <<handleVars, queueVars, call, ops, pollVars>>

SystemSpec == SystemInit /\ [][SystemNext]_systemVars

\* The waves that run, the poll thread and the progress thread keep running,
\* and MPI completes every operation in the end: a request that stays in the
\* test window is reported some time.  Weak fairness of AcquireLock is enough
\* because the calls are bounded, so the lock is free for good in the end.
SystemFairness ==
  /\ \A w \in Wave :
       /\ WF_systemVars(AcquireLock(w) /\ UNCHANGED transportVars)
       /\ WF_systemVars((RefreshReadIndex(w) \/ ReserveSlots(w) \/ ReleaseLock(w))
                          /\ UNCHANGED transportVars)
       /\ WF_systemVars((FillElements(w) \/ ResetStatus(w)) /\ UNCHANGED transportVars)
       /\ \A l \in Lane :
            WF_systemVars((Publish(w, l) \/ ObserveStatus(w, l)) /\ UNCHANGED transportVars)
  /\ WF_systemVars(Poll /\ UNCHANGED transportVars)
  /\ WF_systemVars(Transport!Engine /\ UNCHANGED <<handleVars, queueVars, call, ops, pollVars>>)
  /\ SF_systemVars(Transport!Testsome /\ 1 \in completed'
                     /\ UNCHANGED <<handleVars, queueVars, call, ops, pollVars>>)

FairSystemSpec == SystemSpec /\ SystemFairness

-----------------------------------------------------------------------------
\* A lane of a blocking call that has left its loop: the transport has really
\* finished the command of that lane.
ReturnMeansDone ==
  \A w \in Wave :
    call[w].at = "wait" => \A l \in Active(w) \ call[w].todo : ElementOf(w, l) \in done

\* What rocshmem_quiet promises to the wave that calls it: when it returns,
\* every command that the context accepted before the quiet is finished, also
\* the non-blocking ones of other waves.
QuietReturnsLast ==
  \A w \in Wave :
    (call[w].at = "wait" /\ Transport!Quieting(call[w].cmd)) =>
      \A l \in Active(w) \ call[w].todo :
        \A i \in 0 .. Idx(w, l) - 1 :
          \E d \in done : d.hnd = HandleOf[w] /\ d.idx = i

\* Seen from the progress thread, the circular queue and the poll thread are
\* just work-items that issue one blocking command at a time: the backend as a
\* whole implements the specification of the transport with its clients.
ImplementsTransport == Transport!Spec

\* Every call returns and every command is finished: no wave waits for ever for
\* the lock, for space or for its status byte, also when its quiet was parked
\* or its request was behind the window that MPI_Testsome looks at.
SystemCallsReturn ==
  <>[](/\ \A w \in Wave : call[w].at = "idle" /\ ops[w] = MaxOps
       /\ \A h \in Handle : Cardinality({d \in done : d.hnd = h}) = write_index[h])
=============================================================================
