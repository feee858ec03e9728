---------------------------- MODULE MCDeviceSync ----------------------------
(***************************************************************************)
(* A kernel either runs a script of DeviceSync or a loop of DeviceLoops.   *)
(*                                                                         *)
(* Scripts: three blocks and two slots of turns_, so two blocks wait on    *)
(* one slot.  Contexts run out, the slab runs out, and sync is called      *)
(* three times with a signal that wraps.                                   *)
(*                                                                         *)
(* Loops: two blocks of four threads and waves of three lanes, so that the *)
(* last wave of a block has one lane.  Containers that do and do not       *)
(* divide evenly, empty ranges, copies of every size up to the widest      *)
(* store and past it, every subset of lanes.  A copy by a block or a wave  *)
(* loses the last byte of an odd size: those sizes have a run of their own *)
(* (OddCopying).                                                           *)
(***************************************************************************)
EXTENDS DeviceSync, DeviceLoops

Use == <<<<"create_ctx">>, <<"destroy_ctx">>>>
Keep == <<<<"create_ctx">>, <<"create_ctx">>, <<"destroy_ctx">>>>
Malloc == <<<<"malloc", 2>>, <<"malloc", 1>>>>
Sync == <<<<"sync">>, <<"sync">>, <<"sync">>>>

All(calls) == [b \in Block |-> calls]

Idle == All(<<>>)

MCScripts ==
  {All(Use \o Use), [All(Use) EXCEPT ![1] = Keep], All(Malloc), All(Sync),
   [All(Use) EXCEPT ![1] = Malloc \o Use], Idle}

NoScripts == {Idle}

-----------------------------------------------------------------------------
NoLoop == [kind |-> "none", size |-> 0]

Walks ==
  {[kind |-> "for_each", ise |-> ise, size |-> n, start_index |-> 0] :
     ise \in {"TDBD", "TDBC", "TDBP"}, n \in {1, 4, 7}}
  \cup {[kind |-> "for_each", ise |-> "TCBA", size |-> 2, start_index |-> 0]}
  \cup {[kind |-> "fill", ise |-> ise, size |-> 8, start_index |-> s, length |-> n] :
          ise \in {"TDBD", "TDBP"}, s \in {0, 1}, n \in {0, 3, 7, 9}}
  \cup {[kind |-> "copy", ise |-> ise, size |-> 8, start_index |-> s, length |-> n] :
          ise \in {"TDBD", "TDBP"}, s \in {0, 1}, n \in {0, 7}}
  \cup {[kind |-> "matrix", ise |-> ise, size |-> 8, columns |-> 2] : ise \in {"MP", "MB", "MD"}}
  \cup {[kind |-> "columns", ise |-> ise, size |-> 1, columns |-> 8] : ise \in {"MP", "MB", "MD"}}
  \cup {[kind |-> "fetch_incr", ise |-> "", size |-> 4, pe |-> f] :
          f \in {g \in [Thread -> {0, 1}] : \A t \in Thread : block_id(t) # 0 => g[t] = 0}}

Copying ==
  {[kind |-> "memcpy", size |-> n] : n \in 0 .. 17 \cup {23, 28, 46}}
  \cup {[kind |-> k, size |-> n] :
          k \in {"memcpy_wg", "memcpy_wave"}, n \in {0, 1, 2, 4, 6, 8, 10, 12, 14, 16, 28, 46}}
OddCopying == {[kind |-> k, size |-> n] : k \in {"memcpy_wg", "memcpy_wave"}, n \in {3, 9, 17}}

\* Lane t continues the message of the lane below, or not, in source, destination, size
\* or PE.
Request(t) ==
  {[pe |-> pe, size |-> n, src |-> t * n, dst |-> 20 + t * n + gap] :
     pe \in {0, 1}, n \in {1, 2}, gap \in {0, 1}}
  \cup {[pe |-> 0, size |-> 1, src |-> 10 + t, dst |-> 20 + t]}
Messages ==
  {[kind |-> "coalesce", size |-> 0, active |-> active, request |-> f] :
     active \in SUBSET WaveOf(0) \ {{}},
     f \in {g \in [WaveOf(0) -> UNION {Request(t) : t \in WaveOf(0)}] :
              \A t \in WaveOf(0) : g[t] \in Request(t)}}

MCLoops == {NoLoop} \cup Walks \cup Copying \cup Messages

-----------------------------------------------------------------------------
MCInit == Init /\ LoopInit /\ (loop = NoLoop <=> script # Idle)
MCNext ==
  \/ Next /\ UNCHANGED loopVars
  \/ LoopNext /\ UNCHANGED vars
MCSpec == MCInit /\ [][MCNext]_<<vars, loopVars>> /\ \A b \in Block : WF_vars(Act(b))
=============================================================================
