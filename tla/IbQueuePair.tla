----------------------------- MODULE IbQueuePair -----------------------------
(***************************************************************************)
(* A queue pair of the GPU_IB backend: the waves of a work-group write     *)
(* work queue entries (WQEs) into the ring of the send queue, ring the     *)
(* doorbell and poll the completion queue; the network card performs the   *)
(* entries in order and writes a completion for the flagged ones.          *)
(*                                                                         *)
(* A wave runs instructions, the parts of the functions of QueuePair that  *)
(* other waves and the card can come between.  Their thread level is       *)
(*   "SINGLE", "MULTI": THREAD without and with USE_THREADS;               *)
(*   "WG", "WAVE"     : the functions of a work-group and of a wave.       *)
(* The uint32_t counters wrap at WORD; the counters of the card and of the *)
(* send queue only grow.                                                   *)
(***************************************************************************)
EXTENDS Integers, Sequences, FiniteSets

CONSTANTS
  Wave,            \* the waves that use the queue pair
  max_nwqe,        \* entries of the send queue
  cq_size,         \* entries of the completion queue
  max_nb_atomic,   \* slots for the results of atomics
  WORD,            \* number of values of a uint32_t
  Scripts          \* [thread, connection, start, calls]; calls[w]: instructions of w

VARIABLES
  script, qp,      \* qp: the counters and locks of QueuePair
  sq, cq,          \* the two rings: entries of the send queue, owner bits of the completions
  nic,             \* the two doorbell records, entries performed, completions written
  slots, target,   \* the slots atomic_base_ptr points to, the word the atomics work on
  wave             \* wave[w]: where w is in its calls, and its locals

vars == <<script, qp, sq, cq, nic, slots, target, wave>>

Pending == -100    \* what a slot holds until the result arrives
Invalid == -1      \* a completion entry never written

-----------------------------------------------------------------------------
(***************************************************************************)
(* The functions of QueuePair.  lanes: active work-items of the wave.      *)
(***************************************************************************)
Post(level, opcode, cqe, lanes) ==
  [do |-> "post", level |-> level, opcode |-> opcode, cqe |-> cqe, lanes |-> lanes]
Quiet(level) == [do |-> "quiet", level |-> level]
TakeSlot(reset) == [do |-> "slot", reset |-> reset]
AwaitSlot == [do |-> "await"]

put_nbi(level, lanes) == <<Post(level, "WRITE", FALSE, lanes)>>
put_nbi_cqe(level, lanes) == <<Post(level, "WRITE", TRUE, lanes)>>
get_nbi(level, lanes) == <<Post(level, "READ", FALSE, lanes)>>
get_nbi_cqe(level, lanes) == <<Post(level, "READ", TRUE, lanes)>>
zero_b_rd(thread) == <<Post(thread, "READ", TRUE, 1)>>
quiet_single(level) == <<Quiet(level)>>
\* The zero-byte read is posted by one work-item and at the level THREAD.
quiet_single_heavy(level, thread) == zero_b_rd(thread) \o <<Quiet(level)>>
atomic_fetch(thread) ==
  <<TakeSlot(TRUE), Post(thread, "FA", TRUE, 1), Quiet(thread), AwaitSlot>>
atomic_nofetch(thread) == <<TakeSlot(FALSE), Post(thread, "FA", TRUE, 1), Quiet(thread)>>
fence(thread) == <<Post(thread, "WRITE", TRUE, 1)>>

\* Entries an operation takes: a DC connection needs two for an atomic.
getNumWqes(opcode) == IF script.connection = "DC" /\ opcode = "FA" THEN 2 ELSE 1

\* Levels that take sq_lock around a post and cq_lock around a quiet.
Locked(level) == level \in {"MULTI", "WAVE"}
\* Levels whose decQuietCounter is atomic.  Mutant: none.
AtomicDecNever(level) == FALSE
AtomicDec(level) == level = "MULTI"
\* finishPost: the last entry of the post asks for a completion.
SetsFlag(i, counter) ==
  CASE i.level \in {"SINGLE", "WG"} -> i.cqe \/ counter % max_nwqe = max_nwqe - 2
    [] i.level = "MULTI" -> TRUE
    [] i.level = "WAVE"  -> i.cqe

\* The entry that gets the flag.  Mutant: the one behind it.
FlaggedEntryNext(opcode) == qp.sq_counter % max_nwqe
FlaggedEntry(opcode) == (qp.sq_counter - getNumWqes(opcode)) % max_nwqe
\* waitSQSpace.
OutOfSpace(count) == count >= max_nwqe

-----------------------------------------------------------------------------
Calls(w) == script.calls[w]
Instr(w) == Calls(w)[wave[w].ip]
Does(w, do) == wave[w].ip <= Len(Calls(w)) /\ Instr(w).do = do
At(w, phase) == wave[w].phase = phase
Goto(w, phase) == wave' = [wave EXCEPT ![w].phase = phase]
Finished(w) == wave[w].ip > Len(Calls(w))

Init ==
  /\ script \in Scripts
  /\ qp = [sq_counter |-> 0, local_sq_cnt |-> 0, quiet_counter |-> 0,
           cq_consumer_counter |-> 0, atomic_counter |-> 0, sq_lock |-> FALSE, cq_lock |-> FALSE]
  /\ sq = [i \in 0 .. max_nwqe - 1 |-> [id |-> -1, opcode |-> "", slot |-> 0, ce |-> FALSE, num |-> 1]]
  /\ cq = [i \in 0 .. cq_size - 1 |-> Invalid]
  /\ nic = [dbrec_send |-> 0, dbrec_cq |-> 0, next |-> 0, cqes |-> 0]
  /\ slots = [i \in 0 .. max_nb_atomic - 1 |-> 0]
  /\ target = script.start
  /\ wave = [w \in Wave |-> [ip |-> 1, phase |-> "start", pos |-> 0, quiet_val |-> 0,
                             load |-> 0, last |-> 0, ret |-> <<>>]]

-----------------------------------------------------------------------------
(***************************************************************************)
(* update_posted_wqe_generic                                               *)
(***************************************************************************)
\* postLock and the count of waitSQSpace: a quiet comes first when the count
\* reaches the size of the ring.
postLock(w) ==
  /\ Does(w, "post") /\ At(w, "start")
  /\ Locked(Instr(w).level) => ~qp.sq_lock
  /\ LET count == qp.local_sq_cnt + Instr(w).lanes
     IN  /\ qp' = [qp EXCEPT !.sq_lock = Locked(Instr(w).level) \/ @,
                             !.local_sq_cnt = count % max_nwqe]
         /\ Goto(w, IF OutOfSpace(count) THEN "space" ELSE "post")
  /\ UNCHANGED <<script, sq, cq, nic, slots, target>>

\* Every active work-item takes the next entries and writes its WQE there.
build_wqes(w) ==
  /\ Does(w, "post") /\ At(w, "post")
  /\ LET i   == Instr(w)
         num == getNumWqes(i.opcode)
         new == [k \in 0 .. i.lanes - 1 |-> qp.sq_counter + k * num]
         at(k) == new[k] % max_nwqe
     IN  /\ sq' = [s \in DOMAIN sq |->
                     IF \E k \in DOMAIN new : at(k) = s
                     THEN LET k == CHOOSE k \in DOMAIN new :
                                     at(k) = s /\ \A j \in DOMAIN new : at(j) = s => j <= k
                          IN  [id |-> new[k], opcode |-> i.opcode, slot |-> wave[w].pos,
                               ce |-> FALSE, num |-> num]
                     ELSE sq[s]]
         /\ qp' = [qp EXCEPT !.sq_counter = @ + i.lanes * num]
         /\ Goto(w, "finish")
  /\ UNCHANGED <<script, cq, nic, slots, target>>

\* The flag of the last entry, and the count of completions to come.
finishPost(w) ==
  /\ Does(w, "post") /\ At(w, "finish")
  /\ LET i == Instr(w)
     IN  IF SetsFlag(i, qp.sq_counter)
         THEN /\ sq' = [sq EXCEPT ![FlaggedEntry(i.opcode)].ce = TRUE]
              /\ qp' = [qp EXCEPT !.quiet_counter = (@ + 1) % WORD]
              /\ wave' = [wave EXCEPT ![w].phase = "ring", ![w].last = qp.sq_counter]
         ELSE Goto(w, "ring") /\ UNCHANGED <<sq, qp>>
  /\ UNCHANGED <<script, cq, nic, slots, target>>

ring_doorbell(w) ==
  /\ Does(w, "post") /\ At(w, "ring")
  /\ nic' = [nic EXCEPT !.dbrec_send = qp.sq_counter]
  /\ qp' = [qp EXCEPT !.sq_lock = ~Locked(Instr(w).level) /\ @]
  /\ wave' = [wave EXCEPT ![w].ip = @ + 1, ![w].phase = "start"]
  /\ UNCHANGED <<script, sq, cq, slots, target>>

-----------------------------------------------------------------------------
(***************************************************************************)
(* quiet_internal, called by quiet_single and, at the level THREAD, by     *)
(* waitSQSpace.                                                            *)
(***************************************************************************)
QuietCalled(w) == (Does(w, "quiet") /\ At(w, "start")) \/ (Does(w, "post") /\ At(w, "space"))
QuietLevel(w) == IF Does(w, "post") THEN script.thread ELSE Instr(w).level
\* Back to the post, or on to the next instruction.
QuietReturns(w) ==
  wave' = [wave EXCEPT ![w].phase = IF Does(w, "post") THEN "post" ELSE "start",
                       ![w].ip = IF Does(w, "post") THEN @ ELSE @ + 1]

quiet_lock(w) ==
  /\ QuietCalled(w)
  /\ Locked(QuietLevel(w)) => ~qp.cq_lock
  /\ qp' = [qp EXCEPT !.cq_lock = Locked(QuietLevel(w)) \/ @]
  /\ Goto(w, "count")
  /\ UNCHANGED <<script, sq, cq, nic, slots, target>>

quiet_nothing(w) ==
  /\ At(w, "count") /\ qp.quiet_counter = 0
  /\ qp' = [qp EXCEPT !.cq_lock = ~Locked(QuietLevel(w)) /\ @]
  /\ QuietReturns(w)
  /\ UNCHANGED <<script, sq, cq, nic, slots, target>>

quiet_count(w) ==
  /\ At(w, "count") /\ qp.quiet_counter # 0
  /\ qp' = [qp EXCEPT !.cq_consumer_counter = (@ + qp.quiet_counter - 1) % WORD]
  /\ wave' = [wave EXCEPT ![w].phase = "poll", ![w].quiet_val = qp.quiet_counter]
  /\ UNCHANGED <<script, sq, cq, nic, slots, target>>

\* The owner bit of the last completion to come is the one of this lap.
quiet_poll(w) ==
  /\ At(w, "poll")
  /\ cq[qp.cq_consumer_counter % cq_size] = (qp.cq_consumer_counter \div cq_size) % 2
  /\ wave' = [wave EXCEPT ![w].phase = "consume", ![w].load = qp.quiet_counter]
  /\ UNCHANGED <<script, qp, sq, cq, nic, slots, target>>

\* decQuietCounter, and the completions are given back.
quiet_consume(w) ==
  /\ At(w, "consume")
  /\ LET from == IF AtomicDec(QuietLevel(w)) THEN qp.quiet_counter ELSE wave[w].load
     IN  qp' = [qp EXCEPT !.quiet_counter = (from - wave[w].quiet_val) % WORD,
                          !.cq_consumer_counter = (@ + 1) % WORD,
                          !.cq_lock = ~Locked(QuietLevel(w)) /\ @]
  /\ nic' = [nic EXCEPT !.dbrec_cq = (qp.cq_consumer_counter + 1) % WORD]
  /\ QuietReturns(w)
  /\ UNCHANGED <<script, sq, cq, slots, target>>

-----------------------------------------------------------------------------
\* The head and the tail of atomic_fetch and atomic_nofetch.  Mutant: every call
\* takes the same slot.
take_slotSame(w) ==
  /\ Does(w, "slot")
  /\ slots' = [slots EXCEPT ![0] = IF Instr(w).reset THEN Pending ELSE @]
  /\ wave' = [wave EXCEPT ![w].ip = @ + 1, ![w].pos = 0]
  /\ UNCHANGED <<script, qp, sq, cq, nic, target>>
take_slot(w) ==
  /\ Does(w, "slot")
  /\ LET pos == qp.atomic_counter % max_nb_atomic
     IN  /\ slots' = IF Instr(w).reset THEN [slots EXCEPT ![pos] = Pending] ELSE slots
         /\ wave' = [wave EXCEPT ![w].ip = @ + 1, ![w].pos = pos]
  /\ qp' = [qp EXCEPT !.atomic_counter = @ + 1]
  /\ UNCHANGED <<script, sq, cq, nic, target>>

await_slot(w) ==
  /\ Does(w, "await") /\ slots[wave[w].pos] # Pending
  /\ wave' = [wave EXCEPT ![w].ip = @ + 1, ![w].ret = Append(@, slots[wave[w].pos])]
  /\ UNCHANGED <<script, qp, sq, cq, nic, slots, target>>

\* The card performs the next entry.
nic_execute ==
  /\ nic.next < nic.dbrec_send
  /\ LET wqe == sq[nic.next % max_nwqe]
     IN  /\ nic' = [nic EXCEPT !.next = @ + wqe.num, !.cqes = IF wqe.ce THEN @ + 1 ELSE @]
         /\ cq' = IF wqe.ce THEN [cq EXCEPT ![nic.cqes % cq_size] = (nic.cqes \div cq_size) % 2]
                            ELSE cq
         /\ target' = IF wqe.opcode = "FA" THEN target + 1 ELSE target
         /\ slots' = IF wqe.opcode = "FA" THEN [slots EXCEPT ![wqe.slot] = target] ELSE slots
  /\ UNCHANGED <<script, qp, sq, wave>>

Step(w) ==
  \/ postLock(w) \/ build_wqes(w) \/ finishPost(w) \/ ring_doorbell(w)
  \/ quiet_lock(w) \/ quiet_nothing(w) \/ quiet_count(w) \/ quiet_poll(w) \/ quiet_consume(w)
  \/ take_slot(w) \/ await_slot(w)

Next == nic_execute \/ \E w \in Wave : Step(w)

Spec == Init /\ [][Next]_vars
\* Waves of a work-group make progress independently; the card does its work.
FairSpec == Spec /\ WF_vars(nic_execute) /\ \A w \in Wave : WF_vars(Step(w))

-----------------------------------------------------------------------------

\* One wave uses the queue pair, or all of them at the level THREAD of USE_THREADS:
\* quiet_internal<WAVE> and <WG> do not decrement quiet_counter atomically.
Serialised ==
  \/ \E w \in Wave : \A x \in Wave \ {w} : Calls(x) = <<>>
  \/ \A w \in Wave : \A k \in DOMAIN Calls(w) :
       Calls(w)[k].do \in {"post", "quiet"} => Calls(w)[k].level = "MULTI"

\* A wave that returns from quiet_single has had performed all it posted up to its
\* last post with a flag, whoever consumed the completion.  The zero-byte read of
\* quiet_single_heavy has one; the get of g, which the quiet_single after it is
\* to wait for, has none unless USE_THREADS.
QuietMeansDone ==
  Serialised =>
    \A w \in Wave :
      (At(w, "start") /\ wave[w].ip > 1 /\ Calls(w)[wave[w].ip - 1].do = "quiet")
      => nic.next >= wave[w].last

\* The results of atomic_fetch are the values before the additions: no two
\* callers are given the same one.
FetchesDiffer ==
  LET results == {<<w, k>> \in Wave \X (1 .. 4) : k \in DOMAIN wave[w].ret}
      value(r) == wave[r[1]].ret[r[2]]
  IN  \A r, s \in results : value(r) \in script.start .. target - 1 /\ (value(r) = value(s) => r = s)

\* Every call returns.
AllReturn == <>(\A w \in Wave : Finished(w))
=============================================================================
