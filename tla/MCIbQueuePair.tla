--------------------------- MODULE MCIbQueuePair ---------------------------
(***************************************************************************)
(* Either the calls the functions of GPUIBContext make on a queue pair,    *)
(* from one or two waves, or the set-up of the queue pairs by two or three *)
(* PEs.  A ring has four entries: every script below wraps it.             *)
(***************************************************************************)
EXTENDS IbQueuePair, IbConnection, SequencesExt

\* The functions of the context: what each asks of the queue pair.
Call(fn, level, thread) ==
  CASE fn = "put_nbi"      -> put_nbi(level, 1)
    [] fn = "get_nbi"      -> get_nbi(level, 1)
    [] fn = "put"          -> put_nbi_cqe(level, 1) \o quiet_single(level)
    [] fn = "get"          -> get_nbi_cqe(level, 1) \o quiet_single(level)
    [] fn = "g"            -> get_nbi(thread, 1) \o quiet_single(thread)
    [] fn = "put_lanes"    -> put_nbi_cqe(level, 2) \o quiet_single(level)
    [] fn = "amo_fetch"    -> atomic_fetch(thread)
    [] fn = "amo"          -> atomic_nofetch(thread)
    [] fn = "fence"        -> fence(thread)
    [] fn = "quiet"        -> quiet_single_heavy(level, thread)

Calling(fns, level, thread) == FlattenSeq([k \in DOMAIN fns |-> Call(fns[k], level, thread)])

Script(thread, connection, one, two) ==
  [thread |-> thread, connection |-> connection, start |-> 0, calls |-> <<one, two>>]

\* One work-item, every order of three calls, after a call that moves the
\* rings to each position.
Alone == {"put_nbi", "get", "g", "amo_fetch", "fence", "quiet"}
Single ==
  {Script("SINGLE", c, Calling(<<first, "put", a, b, d, "quiet">>, "SINGLE", "SINGLE"), <<>>) :
     c \in {"RC"}, first \in {"put_nbi", "amo"}, a \in Alone, b \in Alone, d \in Alone}
\* As many puts as the ring takes without a wait of the application.
Burst ==
  {Script("SINGLE", "RC",
          Calling([k \in 1 .. 5 |-> "put_nbi"] \o <<"quiet">>, "SINGLE", "SINGLE"), <<>>)}
\* Two waves at once.
Shared == {"put_nbi", "put", "g", "amo_fetch", "quiet"}
Multi ==
  {Script("MULTI", "RC", Calling(<<a, "put", b>>, "MULTI", "MULTI"),
                         Calling(<<"amo_fetch", "put_nbi", "quiet", "get">>, "MULTI", "MULTI")) :
     a \in Shared, b \in Shared}
\* The leader of a work-group and of a wave.
Leader ==
  {Script("SINGLE", "RC", Calling(<<"put_nbi", "put", "get", "get_nbi", "put", "amo">>, l, "SINGLE"), <<>>) :
     l \in {"WG", "WAVE"}}
\* Posts of two lanes; atomics that take two entries.
Wide ==
  {Script("MULTI", "RC", Calling(<<"put_lanes", "put_lanes", "put_lanes">>, "MULTI", "MULTI"),
                         Calling(<<"put_lanes">>, "MULTI", "MULTI")),
   Script("MULTI", "DC", Calling(<<"amo_fetch">>, "MULTI", "MULTI"),
                         Calling(<<"amo">>, "MULTI", "MULTI"))}

Idle == Script("SINGLE", "RC", <<>>, <<>>)
Chosen == Single \cup Burst \cup Multi \cup Leader \cup Wide \cup {Idle}

\* Calls the code does not cope with: a stream of puts whose completions
\* nobody waits for, posts of different widths, two waves at the level of a
\* wave, all the waves of a work-group in quiet_single<WG>, and a word that
\* holds -100.
Stream == {Script("SINGLE", "RC", Calling([k \in 1 .. 8 |-> "put_nbi"], "SINGLE", "SINGLE"), <<>>)}
Widths ==
  {Script("MULTI", "RC", put_nbi("MULTI", 1) \o put_nbi("MULTI", 3) \o put_nbi("MULTI", 3), <<>>)}
TwoWaves == {Script("SINGLE", "RC", Calling(<<"put", "put">>, "WAVE", "SINGLE"),
                                    Calling(<<"put", "put">>, "WAVE", "SINGLE"))}
WorkGroup == {Script("SINGLE", "RC", Calling(<<"put", "put">>, "WG", "SINGLE"),
                                     quiet_single("WG") \o quiet_single("WG"))}
Sentinel == {[Script("SINGLE", "RC", Calling(<<"amo_fetch">>, "SINGLE", "SINGLE"), <<>>)
              EXCEPT !.start = Pending]}

-----------------------------------------------------------------------------
Wiring(connection, pes, blocks, dct) ==
  [connection |-> connection, num_pes |-> pes, num_blocks |-> blocks, num_dct |-> dct]
NoWiring == Wiring("RC", 0, 0, 1)
ChosenWirings ==
  {NoWiring, Wiring("RC", 3, 1, 1), Wiring("RC", 2, 2, 1), Wiring("RC", 2, 3, 1), Wiring("DC", 3, 2, 1)}
\* ROCSHMEM_NUM_DCT = 2, which the layout of vec_dct_num does not cope with.
TwoTargets == {Wiring("DC", 2, 1, 2)}

MCInit == Init /\ ConnInit /\ (wiring = NoWiring <=> script # Idle)
MCNext ==
  \/ Next /\ UNCHANGED connVars
  \/ ConnNext /\ UNCHANGED vars
MCSpec ==
  /\ MCInit /\ [][MCNext]_<<vars, connVars>>
  /\ WF_vars(nic_execute) /\ \A w \in Wave : WF_vars(Step(w))
=============================================================================
